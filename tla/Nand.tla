------------------------------- MODULE Nand -------------------------------
(***************************************************************************)
(* Reading the NAND flash: nand_read of driver/nand/nand.c, and the same   *)
(* code in boot/nand.c, with the chip it talks to.  The chip takes five    *)
(* address cycles, copies one page into its register when it is told to,   *)
(* and then hands out byte after byte from the column on, the spare bytes  *)
(* behind the page included; what it hands out while it is busy or not     *)
(* selected is junk.                                                       *)
(*                                                                         *)
(* The byte at address a of the flash is called a.                         *)
(***************************************************************************)
EXTENDS Integers, Sequences

CONSTANTS
  PageBytes,  \* 2048
  Radix,      \* 256: what an address cycle can carry
  Memory,     \* addresses of the memory
  Junk        \* anything else a byte can be

ASSUME NandAssumption ==
  /\ PageBytes \in Nat \ {0} /\ Radix \in Nat \ {0}
  /\ PageBytes <= Radix * Radix
  /\ Memory \subseteq Nat

VARIABLES
  chip,  \* selected, cycles (latched), state, page and col of the next byte
  rd,    \* the call of nand_read: at, src, dst, len, addr, col, i
  dram   \* the memory

nandVars == <<chip, rd, dram>>

NandInit ==
  /\ chip = [selected |-> FALSE, cycles |-> <<>>, state |-> "idle", page |-> 0, col |-> 0]
  /\ rd = [at |-> "none", src |-> 0, dst |-> 0, len |-> 0, addr |-> 0, col |-> 0, i |-> 0]
  /\ dram = [a \in Memory |-> Junk]

\* Mutant: the whole address goes to the column cycles, too.
CyclesNoColumn(a) ==
  LET page == a \div PageBytes
  IN  <<a % Radix, (a \div Radix) % Radix,
        page % Radix, (page \div Radix) % Radix, (page \div (Radix * Radix)) % Radix>>

\* nand_addr.
Cycles(a) ==
  LET col == a % PageBytes
      page == a \div PageBytes
  IN  <<col % Radix, (col \div Radix) % Radix,
        page % Radix, (page \div Radix) % Radix, (page \div (Radix * Radix)) % Radix>>

\* How many bytes that can address.
Capacity == PageBytes * (Radix * (Radix * Radix))

\* What the chip makes of them, and the byte it hands out next.
ChipCol(c) == c[1] + Radix * c[2]
ChipPage(c) == c[3] + Radix * c[4] + Radix * Radix * c[5]
NandData ==
  IF chip.selected /\ chip.state = "data" /\ chip.col < PageBytes
  THEN chip.page * PageBytes + chip.col
  ELSE Junk

\* A call of nand_read, which selects the chip.
NandRead(src, dst, len) ==
  /\ rd' = [at |-> "command", src |-> src, dst |-> dst, len |-> len, addr |-> src,
            col |-> src % PageBytes, i |-> 0]
  /\ chip' = [chip EXCEPT !.selected = TRUE]
  /\ UNCHANGED dram

\* nand_cmd(0), nand_addr, nand_cmd(0x30).
Command ==
  /\ rd.at = "command" /\ rd.i < rd.len
  /\ chip' = [chip EXCEPT !.cycles = Cycles(rd.addr), !.state = "busy"]
  /\ rd' = [rd EXCEPT !.at = "ready"]
  /\ UNCHANGED dram

ChipReady ==
  /\ chip.state = "busy"
  /\ chip' = [chip EXCEPT !.state = "data", !.page = ChipPage(chip.cycles),
                          !.col = ChipCol(chip.cycles)]
  /\ UNCHANGED <<rd, dram>>

\* nand_wait_ready.
WaitReady ==
  /\ rd.at = "ready" /\ chip.state # "busy"
  /\ rd' = [rd EXCEPT !.at = "data"]
  /\ UNCHANGED <<chip, dram>>

\* Mutant: the copying goes on to the end of the page.
ReadWholePage ==
  /\ rd.at = "data" /\ rd.col < PageBytes
  /\ dram' = [dram EXCEPT ![rd.dst + rd.i] = NandData]
  /\ chip' = [chip EXCEPT !.col = @ + 1]
  /\ rd' = [rd EXCEPT !.col = @ + 1, !.i = @ + 1, !.addr = @ + 1]

\* A byte of the page, or the end of the page.
ReadByte ==
  /\ rd.at = "data" /\ rd.col < PageBytes /\ rd.i < rd.len
  /\ dram' = [dram EXCEPT ![rd.dst + rd.i] = NandData]
  /\ chip' = [chip EXCEPT !.col = @ + 1]
  /\ rd' = [rd EXCEPT !.col = @ + 1, !.i = @ + 1, !.addr = @ + 1]

PageDone ==
  /\ rd.at = "data" /\ ~(rd.col < PageBytes /\ rd.i < rd.len)
  /\ rd' = [rd EXCEPT !.at = "command", !.col = 0]
  /\ UNCHANGED <<chip, dram>>

Deselect ==
  /\ rd.at = "command" /\ rd.i >= rd.len
  /\ chip' = [chip EXCEPT !.selected = FALSE, !.state = "idle"]
  /\ rd' = [rd EXCEPT !.at = "none"]
  /\ UNCHANGED dram

NandNext == Command \/ ChipReady \/ WaitReady \/ ReadByte \/ PageDone \/ Deselect

-----------------------------------------------------------------------------
\* nand_read copies its part of the flash and nothing else, wherever in a page it
\* begins and ends: byte i comes from address addr + i, across all pages.
NandExact ==
  /\ rd.at # "none" => /\ \A k \in 0..(rd.i - 1) : dram[rd.dst + k] = rd.src + k
                       /\ rd.i <= rd.len
  /\ rd.at = "none" => \A k \in 0..(rd.len - 1) : dram[rd.dst + k] = rd.src + k
=============================================================================
