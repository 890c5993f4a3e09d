------------------------------ MODULE MCBuddy ------------------------------
\* Values of the constants of Buddy for TLC.
EXTENDS Buddy

MCSize == [o \in 0..MaxOrder |-> 2^o]

\* Memory around the array that never passes for a free block: the words there
\* happen to spell an order no block has.
QuietMemory == {[busy |-> FALSE, order |-> 4096]}

\* Memory that reads as zero.  Nothing writes it before init_page_map runs
\* (format_ramdisk, whose destination lies above the array, is not called).
ZeroMemory == {[busy |-> FALSE, order |-> 0]}
=============================================================================
