------------------------------- MODULE Buddy -------------------------------
(***************************************************************************)
(* Physical memory: the early bump allocator and the buddy allocator of    *)
(* kernel/pm_buddy.c, and the loop of mm_init that hands the machine's     *)
(* memory to it page by page.  Addresses and lengths are counted in pages  *)
(* of MM_BUDDY_MIN_SIZE.  pm_buddy_lock is held over a whole call, so each *)
(* call is one step.  A bit that is set says "not free": allocated, split  *)
(* into smaller blocks, or never handed to the allocator.                  *)
(***************************************************************************)
EXTENDS Integers, Sequences, SequencesExt, FiniteSets

CONSTANTS
    MAX_ORDER,      \* largest block, as a power of two
    BitsPerByte,    \* 8 in the code: the bitmaps are counted in bytes
    pm_start,       \* first page above the kernel image and early memory
    Mmio,           \* pages of the MMIO hole
    memlen,         \* pages of real memory
    Orders          \* the sizes clients ask for

VARIABLES
    bitmaps,        \* set of <<order, index>> whose bit is 1
    freelists,      \* order -> stack of addresses, top last
    free_memory, total_memory,
    phys, count,    \* the loop of mm_init
    held            \* what clients hold: set of <<address, order>>

vars == <<bitmaps, freelists, free_memory, total_memory, phys, count, held>>

Pages == 0 .. 2^MAX_ORDER - 1
Order == 0 .. MAX_ORDER

\* Bits of the bitmap of an order: whole bytes, none for the top orders.
BitmapBits(o) == ((2^MAX_ORDER \div BitsPerByte) \div 2^o) * BitsPerByte

\* pmm_buddy_init: nothing is free yet.
Init ==
    /\ bitmaps = {<<o, i>> \in Order \X Pages : i < BitmapBits(o)}
    /\ freelists = [o \in Order |-> <<>>]
    /\ free_memory = 0 /\ total_memory = 0
    /\ phys = 0 /\ count = 0
    /\ held = {}

St == [bits |-> bitmaps, free |-> freelists]
Push(st, o, a) == [st EXCEPT !.free[o] = Append(@, a)]

Upper(a, o) == a + 2^o

\* __do_pmm_buddy_allocate on a length of 2^o: the panic is st.ok = FALSE.
RECURSIVE DoAllocate(_, _)
DoAllocate(st, o) ==
    IF o > MAX_ORDER THEN [ok |-> FALSE, st |-> st, addr |-> 0]
    ELSE LET bigger == DoAllocate(st, o + 1)
             split == Push(Push(bigger.st, o, bigger.addr), o, Upper(bigger.addr, o))
             from == IF st.free[o] = <<>> THEN split ELSE st
             a == Last(from.free[o])
         IN  IF st.free[o] = <<>> /\ ~bigger.ok THEN bigger
             ELSE [ok |-> TRUE, addr |-> a,
                   st |-> [bits |-> from.bits \cup {<<o, a \div 2^o>>},
                           free |-> [from.free EXCEPT ![o] = Front(@)]]]

\* address ^ (MIN_SIZE << order)
Buddy(a, o) == IF (a \div 2^o) % 2 = 0 THEN a + 2^o ELSE a - 2^o

TakeBuddy(st, o, b) == [st EXCEPT !.free[o] = Remove(@, b)]

\* deallocate: the lowest order whose bit is set is the block's order.
RECURSIVE DoDeallocate(_, _, _)
DoDeallocate(st, a, o) ==
    IF o > MAX_ORDER THEN [order |-> -1, st |-> st]
    ELSE IF <<o, a \div 2^o>> \notin st.bits THEN DoDeallocate(st, a, o + 1)
    ELSE LET b == Buddy(a, o)
             cleared == [st EXCEPT !.bits = @ \ {<<o, a \div 2^o>>}]
         IN  [order |-> o,
              st |-> IF <<o, b \div 2^o>> \notin st.bits
                     THEN DoDeallocate(TakeBuddy(cleared, o, b),
                                       IF b > a THEN a ELSE b, o + 1).st
                     ELSE Push(cleared, o, a)]

\* pmm_buddy_allocate.  When no block is large enough the kernel panics and
\* nothing follows: the action is not enabled.
Allocate(o) ==
    /\ count = memlen
    /\ LET r == DoAllocate(St, o)
       IN  /\ r.ok
           /\ bitmaps' = r.st.bits /\ freelists' = r.st.free
           /\ held' = held \cup {<<r.addr, o>>}
    /\ free_memory' = free_memory - 2^o
    /\ UNCHANGED <<total_memory, phys, count>>

\* pmm_buddy_deallocate.
Deallocated(a) ==
    LET r == DoDeallocate(St, a, 0)
        f == free_memory + (IF r.order >= 0 THEN 2^r.order ELSE 0)
    IN  /\ bitmaps' = r.st.bits /\ freelists' = r.st.free
        /\ free_memory' = f
        /\ total_memory' = IF total_memory < f THEN f ELSE total_memory

Deallocate(b) ==
    /\ count = memlen /\ b \in held
    /\ Deallocated(b[1])
    /\ held' = held \ {b}
    /\ UNCHANGED <<phys, count>>

\* One turn of the second loop of mm_init.
BootPage ==
    /\ count < memlen
    /\ phys' = phys + 1
    /\ count' = IF phys \in Mmio THEN count ELSE count + 1
    /\ IF phys \notin Mmio /\ phys >= pm_start
         THEN Deallocated(phys)
         ELSE UNCHANGED <<bitmaps, freelists, free_memory, total_memory>>
    /\ UNCHANGED held

Next ==
    \/ BootPage
    \/ \E o \in Orders : Allocate(o)
    \/ \E b \in held : Deallocate(b)

Spec == Init /\ [][Next]_vars

-----------------------------------------------------------------------------
Block(a, o) == a .. a + 2^o - 1
FreeBlocks == {<<a, o>> \in Pages \X Order : \E i \in DOMAIN freelists[o] : freelists[o][i] = a}
Given == {p \in Pages : p < phys /\ p >= pm_start /\ p \notin Mmio}

\* Every page handed to the allocator is in exactly one block, held by one
\* client or on one free list (once), no other page is in any, and
\* free_memory counts the pages on the lists.  DoAllocate and DoDeallocate
\* split and merge blocks over several orders; a block left on a list after
\* a merge is given to two clients.
EveryPageOnce ==
    /\ \A p \in Pages :
         Cardinality({b \in held \cup FreeBlocks : p \in Block(b[1], b[2])})
           = IF p \in Given THEN 1 ELSE 0
    /\ held \cap FreeBlocks = {}
    /\ \A o \in Order : Len(freelists[o]) = Cardinality({b \in FreeBlocks : b[2] = o})
    /\ free_memory = Cardinality(Given) - Cardinality({p \in Pages : \E b \in held : p \in Block(b[1], b[2])})

\* The allocator runs out ("out of physical memory", pm_buddy.c:56) for a
\* size only if there is no aligned run of free pages of that size: every
\* merge that can be done has been done.
PanicOnlyWhenFull ==
    \A o \in Orders :
        ~DoAllocate(St, o).ok =>
            ~ \E a \in Pages : /\ a % 2^o = 0
                               /\ Block(a, o) \subseteq UNION {Block(b[1], b[2]) : b \in FreeBlocks}
=============================================================================
