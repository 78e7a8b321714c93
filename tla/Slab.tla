-------------------------------- MODULE Slab ---------------------------------
(***************************************************************************)
(* The object allocator of one kobj, kernel/slab.c, and the reference      *)
(* counts of include/slab.h.                                               *)
(*                                                                         *)
(* The lock of the kobj protects the lists of slabs and the counters, but  *)
(* an object is popped from the stack of its slab after that lock was      *)
(* released, and pushed back before it is taken.  Each critical section is *)
(* one action.  The order within the lists and the stacks is left out:     *)
(* the head of a list is any of its members, and so is the top of a stack. *)
(***************************************************************************)
EXTENDS Integers, FiniteSets

CONSTANTS
    Thread,
    Slab,       \* bound: the slabs there can be
    Max,        \* slab->max, the objects of each slab
    NULL

\* create_new_slab makes slabs of 64 pages for small objects.
ASSUME MaxAssumption == Max \in Nat /\ Max >= 2
ASSUME ThreadAssumption == IsFiniteSet(Thread)
ASSUME NullAssumption == NULL \notin Slab \cup (Slab \X (1..Max))

Obj == Slab \X (1..Max)

VARIABLES
    initialized,        \* ko->initialized
    list,               \* the list that each slab is on
    count,              \* slab->count
    free,               \* the objects on the stacks of their slabs
    total_slabs, total_inuse, allocated_objects,    \* of the cache
    refs,               \* header->_koh_refs
    hold,               \* <<t, o>> if thread t has a reference to object o
    pc, slab, obj       \* where each thread is, and its local variables

cacheVars == <<initialized, list, count, total_slabs, total_inuse>>
vars == <<cacheVars, free, allocated_objects, refs, hold, pc, slab, obj>>

TypeOK ==
    /\ initialized \in BOOLEAN
    /\ list \in [Slab -> {"none", "empty", "partial", "full"}]
    /\ count \in [Slab -> 0..Max]
    /\ free \subseteq Obj
    /\ total_slabs \in Nat
    /\ total_inuse \in Int
    /\ allocated_objects \in Int
    /\ refs \in [Obj -> Nat]
    /\ hold \subseteq Thread \X Obj
    /\ pc \in [Thread -> {"idle", "take", "pop", "return", "push", "give", "panic"}]
    /\ slab \in [Thread -> Slab \cup {NULL}]
    /\ obj \in [Thread -> Obj \cup {NULL}]

Init ==
    /\ initialized = FALSE
    /\ list = [s \in Slab |-> "none"]
    /\ count = [s \in Slab |-> 0]
    /\ free = {}
    /\ total_slabs = 0
    /\ total_inuse = 0
    /\ allocated_objects = 0
    /\ refs = [o \in Obj |-> 0]
    /\ hold = {}
    /\ pc = [t \in Thread |-> "idle"]
    /\ slab = [t \in Thread |-> NULL]
    /\ obj = [t \in Thread |-> NULL]

Goto(t, from, to) ==
    /\ pc[t] = from
    /\ pc' = [pc EXCEPT ![t] = to]

-----------------------------------------------------------------------------
(***************************************************************************)
(* kobj_allocate                                                           *)
(***************************************************************************)

\* The first use of the kobj initializes its cache.
Allocate(t) ==
    /\ Goto(t, "idle", "take")
    /\ initialized' = TRUE
    /\ IF initialized
       THEN UNCHANGED <<total_slabs, total_inuse, allocated_objects>>
       ELSE total_slabs' = 0 /\ total_inuse' = 0 /\ allocated_objects' = 0
    /\ UNCHANGED <<list, count, free, refs, hold, slab, obj>>

\* The slab that allocate_from_cache chooses: a partial one, else an empty
\* one, else a new one.
Choose(s) ==
    LET On(l) == {x \in Slab : list[x] = l} IN
    IF On("partial") # {} THEN s \in On("partial")
    ELSE IF On("empty") # {} THEN s \in On("empty")
    ELSE s \in On("none")

\* A new slab comes with all of its objects on its stack.
create_new_slab(s) ==
    IF list[s] = "none"
    THEN /\ free' = free \cup ({s} \X (1..Max))
         /\ total_slabs' = total_slabs + 1
    ELSE UNCHANGED <<free, total_slabs>>

\* allocate_from_cache while it holds the lock of the kobj.
TakeSlab(t) ==
    /\ Goto(t, "take", "pop")
    /\ \E s \in Slab :
          /\ Choose(s)
          /\ create_new_slab(s)
          /\ count' = [count EXCEPT ![s] = @ + 1]
          /\ slab' = [slab EXCEPT ![t] = s]
          /\ list' = [list EXCEPT ![s] = IF count[s] = Max - 1 THEN "full"
                                         ELSE IF count[s] = 0 THEN "partial"
                                         ELSE @]
          /\ total_inuse' = IF count[s] # Max - 1 /\ count[s] = 0
                            THEN total_inuse + 1 ELSE total_inuse
    /\ UNCHANGED <<initialized, allocated_objects, refs, hold, obj>>

\* stack_pop; NULL if there is nothing on the stack.
Pop(t) ==
    LET Stack == {o \in free : o[1] = slab[t]} IN
    /\ Goto(t, "pop", "return")
    /\ IF Stack = {}
       THEN obj' = [obj EXCEPT ![t] = NULL] /\ UNCHANGED free
       ELSE \E o \in Stack :
               /\ obj' = [obj EXCEPT ![t] = o]
               /\ free' = free \ {o}
    /\ slab' = [slab EXCEPT ![t] = NULL]
    /\ UNCHANGED <<cacheVars, allocated_objects, refs, hold>>

\* The assertion of allocate_from_cache, and the new reference.
Return(t) ==
    /\ Goto(t, "return", IF obj[t] = NULL THEN "panic" ELSE "idle")
    /\ allocated_objects' = allocated_objects + 1
    /\ IF obj[t] = NULL
       THEN UNCHANGED <<refs, hold>>
       ELSE /\ refs' = [refs EXCEPT ![obj[t]] = 1]
            /\ hold' = hold \cup {<<t, obj[t]>>}
    /\ obj' = [obj EXCEPT ![t] = NULL]
    /\ UNCHANGED <<cacheVars, free, slab>>

-----------------------------------------------------------------------------
(***************************************************************************)
(* References.  A thread has at most one reference to each object.         *)
(***************************************************************************)

\* kobj_getref by a thread that has a reference, to give u one.
GetRef(t, u, o) ==
    /\ pc[t] = "idle"
    /\ <<t, o>> \in hold
    /\ <<u, o>> \notin hold
    /\ IF refs[o] = 0
       THEN pc' = [pc EXCEPT ![t] = "panic"] /\ UNCHANGED <<refs, hold>>
       ELSE /\ refs' = [refs EXCEPT ![o] = @ + 1]
            /\ hold' = hold \cup {<<u, o>>}
            /\ UNCHANGED pc
    /\ UNCHANGED <<cacheVars, free, allocated_objects, slab, obj>>

\* Mutant: the object is freed when there is one reference left.
PutRef_Early(t, o) ==
    /\ <<t, o>> \in hold
    /\ Goto(t, "idle", IF refs[o] <= 0 THEN "panic" ELSE IF refs[o] <= 2 THEN "push" ELSE "idle")
    /\ refs' = [refs EXCEPT ![o] = IF @ <= 0 THEN @ ELSE @ - 1]
    /\ hold' = hold \ {<<t, o>>}
    /\ obj' = [obj EXCEPT ![t] = IF pc'[t] = "push" THEN o ELSE NULL]
    /\ UNCHANGED <<cacheVars, free, allocated_objects, slab>>

\* kobj_putref: whoever takes the last reference frees the object.
PutRef(t, o) ==
    /\ <<t, o>> \in hold
    /\ Goto(t, "idle", IF refs[o] <= 0 THEN "panic" ELSE IF refs[o] = 1 THEN "push" ELSE "idle")
    /\ refs' = [refs EXCEPT ![o] = IF @ <= 0 THEN @ ELSE @ - 1]
    /\ hold' = hold \ {<<t, o>>}
    /\ obj' = [obj EXCEPT ![t] = IF pc'[t] = "push" THEN o ELSE NULL]
    /\ UNCHANGED <<cacheVars, free, allocated_objects, slab>>

-----------------------------------------------------------------------------
(***************************************************************************)
(* deallocate_object                                                       *)
(***************************************************************************)

\* Mutant: the object is not taken off the number of allocated ones.
Push_NotCounted(t) ==
    /\ Goto(t, "push", "give")
    /\ free' = free \cup {obj[t]}
    /\ UNCHANGED <<cacheVars, allocated_objects, refs, hold, slab, obj>>

\* Up to the stack_push.
Push(t) ==
    /\ Goto(t, "push", "give")
    /\ allocated_objects' = allocated_objects - 1
    /\ free' = free \cup {obj[t]}
    /\ UNCHANGED <<cacheVars, refs, hold, slab, obj>>

\* The rest, with the lock of the kobj.
GiveSlab(t) ==
    LET s == obj[t][1] IN
    /\ Goto(t, "give", "idle")
    /\ count' = [count EXCEPT ![s] = @ - 1]
    /\ obj' = [obj EXCEPT ![t] = NULL]
    /\ list' = [list EXCEPT ![s] = IF count[s] = Max THEN "partial"
                                   ELSE IF count[s] = 1 THEN "empty"
                                   ELSE @]
    /\ total_inuse' = IF count[s] # Max /\ count[s] = 1 THEN total_inuse - 1 ELSE total_inuse
    /\ UNCHANGED <<initialized, total_slabs, free, allocated_objects, refs, hold, slab>>

-----------------------------------------------------------------------------
Next ==
    \E t \in Thread :
       \/ Allocate(t) \/ TakeSlab(t) \/ Pop(t) \/ Return(t) \/ Push(t) \/ GiveSlab(t)
       \/ \E o \in Obj : PutRef(t, o) \/ \E u \in Thread : GetRef(t, u, o)

Spec == Init /\ [][Next]_vars

-----------------------------------------------------------------------------
(***************************************************************************)
(* Properties.                                                             *)
(***************************************************************************)

\* The assertion of allocate_from_cache, that stack_pop finds an object,
\* and the double-free and dangling-pointer panics of the reference counts.
\* The count is taken before the object is popped and given back after it is
\* pushed, so that the stack holds at least what the count promises.
NoPanic == \A t \in Thread : pc[t] # "panic"

\* Threads that have an object to themselves, between the pop or the last
\* kobj_putref and the push.
Carries(t, o) == pc[t] \in {"return", "push"} /\ obj[t] = o

Holders(o) == {t \in Thread : <<t, o>> \in hold}

\* An object on the stack of its slab belongs to nobody; one that a thread
\* carries belongs to that thread only; any other one has as many references
\* as _koh_refs says.
OneOwner ==
    \A o \in Obj :
       /\ o \in free => Holders(o) = {} /\ \A t \in Thread : ~Carries(t, o)
       /\ \A t, u \in Thread : Carries(t, o) /\ Carries(u, o) => t = u
       /\ \A t \in Thread : Carries(t, o) => Holders(o) = {}
       /\ Holders(o) # {} => refs[o] = Cardinality(Holders(o))

\* Each slab is on the list that fits its count.  The code moves a slab only
\* when the count passes a boundary, and relies on where it was before.
ListFitsCount ==
    \A s \in Slab :
       /\ list[s] \in {"none", "empty"} <=> count[s] = 0
       /\ list[s] = "full" <=> count[s] = Max

Used == {s \in Slab : count[s] > 0}
Live == {o \in Obj : refs[o] > 0}

\* total_inuse, which /proc/slab shows, is the number of slabs in use, also
\* when slabs fill up and empty in any order.
InUseCounts == total_inuse = Cardinality(Used)

\* Between operations, the counts of the slabs add up to the objects that
\* are referenced and to allocated_objects: nothing leaks.
NothingLeaks ==
    (\A t \in Thread : pc[t] = "idle") =>
       /\ allocated_objects = Cardinality(Live)
       /\ \A s \in Slab : count[s] = Cardinality({o \in Live : o[1] = s})

\* The counters of the allocator: stack_pop finds what the count promised,
\* each slab is on the list that fits its count, total_inuse counts the slabs
\* in use, and between calls the counts are those of the live objects.
SlabCounts == NoPanic /\ ListFitsCount /\ InUseCounts /\ NothingLeaks

-----------------------------------------------------------------------------
(***************************************************************************)
(* The inductive invariant.                                                *)
(***************************************************************************)

\* The objects of a slab that are not on its stack.
Out(s) == {i \in 1..Max : <<s, i>> \notin free}

\* The threads that have counted themselves in and not popped yet, or pushed
\* and not counted themselves out yet.
Claims(s) == {t \in Thread : \/ pc[t] = "pop" /\ slab[t] = s
                             \/ pc[t] = "give" /\ obj[t][1] = s}

LocalsInv ==
    \A t \in Thread :
       /\ pc[t] = "pop" => slab[t] \in Slab
       /\ pc[t] \in {"return", "push", "give"} => obj[t] \in Obj

\* A slab that does not exist yet has nothing to do with anybody.
NewInv ==
    \A s \in Slab : list[s] = "none" =>
       /\ Claims(s) = {}
       /\ \A i \in 1..Max : /\ <<s, i>> \notin free
                            /\ Holders(<<s, i>>) = {}
                            /\ \A t \in Thread : ~Carries(t, <<s, i>>)

CountInv ==
    \A s \in Slab : list[s] # "none" =>
       count[s] = Cardinality(Out(s)) + Cardinality(Claims(s))

\* The inductive invariant behind NoPanic: the count of a slab is the number
\* of its objects that are in use plus the number of threads that are about
\* to use one or have just returned one, so that it never falls below what
\* is missing from the stack.
IInv == TypeOK /\ NoPanic /\ LocalsInv /\ NewInv /\ CountInv /\ ListFitsCount /\ OneOwner

Pushing == {t \in Thread : pc[t] = "push"}

\* What holds on top of it, for the statistics.  The references of an object
\* are counted also while nobody has one.
RefsCounted == \A o \in Obj : refs[o] = Cardinality(Holders(o))

\* An object of a slab is on the stack, carried or referenced.
Placed ==
    \A o \in Obj : list[o[1]] # "none" =>
       o \in free \/ Holders(o) # {} \/ \E t \in Thread : Carries(t, o)

\* An object counts as allocated until the thread that freed it pushes it.
AllocCounted ==
    /\ IsFiniteSet(Live)
    /\ allocated_objects = Cardinality(Live) + Cardinality(Pushing)

UsedCounted == IsFiniteSet(Used) /\ total_inuse = Cardinality(Used)

\* Before the first allocation there is nothing.
Fresh ==
    ~initialized => /\ \A t \in Thread : pc[t] = "idle"
                    /\ \A s \in Slab : list[s] = "none"

StatsInv == RefsCounted /\ Placed /\ AllocCounted /\ UsedCounted /\ Fresh
=============================================================================
