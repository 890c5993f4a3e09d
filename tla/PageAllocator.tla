--------------------------- MODULE PageAllocator ---------------------------
(***************************************************************************)
(* What alloc_pages and free_pages (mm/mem.c) promise their callers, with  *)
(* no word on how: a block that is handed out lies inside the heap and     *)
(* shares no page with any block still held, and a caller that asks for a  *)
(* single page is refused only when no page is left.  Buddy implements it. *)
(***************************************************************************)
EXTENDS PageGeometry

VARIABLES
  held,   \* held[p]: the order of the held block that starts at p, or NotHeld
  ret     \* the answer of the last alloc_pages call

vars == <<held, ret>>

Init ==
  /\ held = [p \in Pages |-> NotHeld]
  /\ ret = NULL

\* alloc_pages(order = o) succeeds with any block that is wholly unheld.
Alloc(o) ==
  \E p \in Pages :
    /\ Block(p, o) \subseteq Pages
    /\ Block(p, o) \cap HeldPages(held) = {}
    /\ held' = [held EXCEPT ![p] = o]
    /\ ret' = [asked |-> o, page |-> p]

\* alloc_pages returns NULL.  External fragmentation can refuse a larger
\* request at any time, but not a request for one page while one is left.
Refuse(o) ==
  /\ o = 0 => HeldPages(held) = Pages
  /\ ret' = [asked |-> o, page |-> NULL]
  /\ UNCHANGED held

\* free_pages on a block its caller holds.
Free(p) ==
  /\ held[p] # NotHeld
  /\ held' = [held EXCEPT ![p] = NotHeld]
  /\ ret' = NULL

Next ==
  \/ \E o \in Orders : Alloc(o)
  \/ \E o \in Orders : Refuse(o)
  \/ \E p \in Pages : Free(p)

Spec == Init /\ [][Next]_vars
=============================================================================
