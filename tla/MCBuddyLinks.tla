---------------------------- MODULE MCBuddyLinks ----------------------------
\* Values of the constants of BuddyLinks for TLC.
EXTENDS BuddyLinks

MCSize == [o \in 0..MaxOrder |-> 2^o]
=============================================================================
