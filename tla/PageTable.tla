----------------------------- MODULE PageTable -----------------------------
(***************************************************************************)
(* The x86_64 page tables (arch/x86_64/kernel/mmu.c): a tree of tables of  *)
(* four levels (pml4 3, pdpt 2, pd 1, pt 0), changed in place by           *)
(* arch_mm_virtual_map, _unmap and _chattr and read by _getmap.  A virtual *)
(* address is its four indices; an entry is 0, a table or a page.  The     *)
(* upper half of every pml4 is copied from the kernel's.  TLBs and the     *)
(* shootdown interrupt are not modelled.                                   *)
(***************************************************************************)
EXTENDS Integers, Sequences, FiniteSets

CONSTANTS
    Ctx,            \* contexts of processes
    Kernel,         \* kernel_context
    None,           \* an empty entry, no table
    Virt,           \* <<virtual address, level of its page size>> in use
    Phys,           \* page frames to be mapped
    Table,          \* frames for tables
    FlagSets        \* the MAP_ flags callers pass

VARIABLES
    tables,         \* allocated tables: Table -> index -> entry
    root,           \* context -> its pml4, or None
    flat            \* what has been asked for: <<context, address>> -> page

vars == <<tables, root, flat>>

Top == 3
Index == 0 .. 1
User == 0           \* entries 0-255 of a pml4
Upper == 1          \* entries 256-511
Addr == {v[1] : v \in Virt}
Level(v) == (CHOOSE x \in Virt : x[1] = v)[2]
Idx(v, l) == v[Top + 1 - l]
\* Kernel addresses mean the same in every context.
Owner(c, v) == IF Idx(v, Top) = Upper THEN Kernel ELSE c

Empty == [i \in Index |-> None]
TableEntry(t) == [page |-> FALSE, phys |-> t, attr |-> {}]
PageEntry(f, attr) == [page |-> TRUE, phys |-> f, attr |-> attr]

\* __convert_flags_to_attr
ToAttr(flags) ==
    (IF "PRIVATE" \in flags THEN {} ELSE {"GLOBAL"})
    \cup (flags \cap {"USER", "WRITE", "ACCESSED", "DIRTY"})
    \cup (IF "DEVICE" \in flags THEN {"NOCACHE", "WRITETHR"} ELSE {})
    \cup (IF "EXECUTE" \in flags THEN {} ELSE {"NOEXEC"})

\* __convert_attr_to_flags
ToFlags(attr) ==
    (attr \cap {"ACCESSED", "USER", "WRITE"})
    \cup (IF {"NOCACHE", "WRITETHR"} \subseteq attr THEN {"DEVICE"} ELSE {})
    \cup (IF "GLOBAL" \in attr THEN {} ELSE {"PRIVATE"})
    \cup (IF "NOEXEC" \in attr THEN {} ELSE {"EXECUTE"})

Free == Table \ DOMAIN tables
With(tt, t, i, e) == [tt EXCEPT ![t][i] = e]

\* The walk down from table t at level l: to a page, an empty entry, or the pt.
RECURSIVE Walk(_, _, _, _)
Walk(tt, t, v, l) ==
    LET e == tt[t][Idx(v, l)]
    IN  IF l = 0 \/ e = None THEN [t |-> t, l |-> l, e |-> e]
        ELSE IF e.page THEN [t |-> t, l |-> l, e |-> e]
        ELSE Walk(tt, e.phys, v, l - 1)

Found(c, v) == Walk(tables, root[c], v, Top)

\* arch_mm_virtual_getmap: FALSE, or the frame, the flags and the page size.
Getmap(c, v) ==
    LET w == Found(c, v)
    IN  IF w.e = None THEN None
        ELSE [phys |-> w.e.phys, flags |-> ToFlags(w.e.attr), level |-> w.l]

\* The table of level "to" on the way to v, tables that are missing being
\* allocated (cleared) on the way down.
RECURSIVE Descend(_, _, _, _, _)
Descend(tt, t, v, l, to) ==
    IF l = to THEN [tt |-> tt, t |-> t]
    ELSE LET e == tt[t][Idx(v, l)]
             new == CHOOSE f \in Table : f \notin DOMAIN tt
         IN  IF e = None
               THEN Descend([f \in DOMAIN tt \cup {new} |->
                                IF f = new THEN Empty
                                ELSE IF f = t THEN [tt[t] EXCEPT ![Idx(v, l)] = TableEntry(new)]
                                ELSE tt[f]], new, v, l - 1, to)
               ELSE Descend(tt, e.phys, v, l - 1, to)

\* arch_mm_virtual_map: nothing is changed where an entry exists.
VirtualMap(c, v, f, flags) ==
    /\ root[c] # None
    /\ Cardinality(Free) >= Top
    /\ LET l == Level(v)
           d == Descend(tables, root[c], v, Top, l)
           i == Idx(v, l)
       IN  IF d.tt[d.t][i] # None
             THEN tables' = d.tt /\ UNCHANGED flat
             ELSE /\ tables' = With(d.tt, d.t, i, PageEntry(f, ToAttr(flags)))
                  /\ flat' = [flat EXCEPT ![Owner(c, v), v] =
                                [phys |-> f, flags |-> flags \ {"DIRTY"}, level |-> l]]
    /\ UNCHANGED root

Clear(c, v, w) == With(tables, w.t, Idx(v, w.l), None)

\* arch_mm_virtual_unmap
VirtualUnmap(c, v) ==
    /\ root[c] # None
    /\ LET w == Found(c, v)
       IN  tables' = IF w.e = None THEN tables ELSE Clear(c, v, w)
    /\ flat' = [flat EXCEPT ![Owner(c, v), v] = None]
    /\ UNCHANGED root

\* arch_mm_virtual_chattr: the frame stays, the attributes are replaced.
VirtualChattr(c, v, flags) ==
    /\ root[c] # None
    /\ LET w == Found(c, v)
       IN  IF w.e = None
             THEN UNCHANGED <<tables, flat>>
             ELSE /\ tables' = With(tables, w.t, Idx(v, w.l), PageEntry(w.e.phys, ToAttr(flags)))
                  /\ flat' = [flat EXCEPT ![Owner(c, v), v].flags = flags \ {"DIRTY"}]
    /\ UNCHANGED root

\* arch_mm_context_create: an empty user half, the kernel's upper half.
ContextCreate(c) ==
    /\ root[c] = None /\ Free # {}
    /\ LET t == CHOOSE f \in Free : TRUE
       IN  /\ tables' = [f \in DOMAIN tables \cup {t} |->
                           IF f = t THEN [Empty EXCEPT ![Upper] = tables[root[Kernel]][Upper]]
                           ELSE tables[f]]
           /\ root' = [root EXCEPT ![c] = t]
    /\ flat' = [x \in DOMAIN flat |-> IF x[1] = c THEN None ELSE flat[x]]

\* arch_mm_context_init, on the reuse of a context: the user half is cleared;
\* its tables stay allocated.
ContextInit(c) ==
    /\ root[c] # None
    /\ tables' = With(tables, root[c], User, None)
    /\ flat' = [x \in DOMAIN flat |-> IF x[1] = c THEN None ELSE flat[x]]
    /\ UNCHANGED root

Freed(c) == {root[c]}
\* arch_mm_context_destroy: the pml4 is freed, the tables below it are not.
ContextDestroy(c) ==
    /\ root[c] # None
    /\ tables' = [f \in DOMAIN tables \ Freed(c) |-> tables[f]]
    /\ root' = [root EXCEPT ![c] = None]
    /\ flat' = [x \in DOMAIN flat |-> IF x[1] = c THEN None ELSE flat[x]]

\* The kernel's pml4 and the table of its upper half exist from boot.
Init ==
    LET t == CHOOSE f \in Table : TRUE
        u == CHOOSE f \in Table : f # t
    IN  /\ tables = [f \in {t, u} |-> IF f = t THEN [Empty EXCEPT ![Upper] = TableEntry(u)] ELSE Empty]
        /\ root = [c \in Ctx \cup {Kernel} |-> IF c = Kernel THEN t ELSE None]
        /\ flat = [x \in (Ctx \cup {Kernel}) \X Addr |-> None]

Next ==
    \/ \E c \in Ctx \cup {Kernel}, v \in Addr :
         \/ \E f \in Phys, flags \in FlagSets : VirtualMap(c, v, f, flags)
         \/ VirtualUnmap(c, v)
         \/ \E flags \in FlagSets : VirtualChattr(c, v, flags)
    \/ \E c \in Ctx : ContextCreate(c) \/ ContextInit(c) \/ ContextDestroy(c)

Spec == Init /\ [][Next]_vars

-----------------------------------------------------------------------------
\* The tree is a map: what arch_mm_virtual_getmap reads for an address in a
\* context is what was last mapped there and not unmapped, in whatever
\* order contexts map, unmap, are cleared and destroyed; and an address of
\* the kernel's half reads the same in every context, so tables are never
\* shared where they must not be, nor used after they are freed.
TreeIsMap ==
    \A c \in Ctx \cup {Kernel}, v \in Addr :
        root[c] # None => Getmap(c, v) = flat[Owner(c, v), v]
=============================================================================
