----------------------------- MODULE MCObjects -----------------------------
(***************************************************************************)
(* The object cache for TLC (module KobjLru, which this one extends), and  *)
(* what a program is loaded into: execve and the loader, the buddy         *)
(* allocator and the page tables, each checked on its own in one run.      *)
(* "which" names the part that moves; the variables of the others keep a   *)
(* dummy value, and those of KobjLru the one they begin with.              *)
(***************************************************************************)
EXTENDS KobjLru, TLC

CONSTANTS m1, m2, f1, c1, c2, kernel, Tables

VARIABLES which, img, ids, earned, prog, stack, result, pend, lost, calls,
    bitmaps, freelists, free_memory, total_memory, phys, count, held, tables,
    root, flat

allvars == <<which, vars, img, ids, earned, prog, stack, result, pend, lost,
    calls, bitmaps, freelists, free_memory, total_memory, phys, count, held,
    tables, root, flat>>

Segment(a, o, fs, ms) == [addr |-> a, off |-> o, filesz |-> fs, memsz |-> ms]
Elf(n, d, i, o, si, sg) ==
    [name |-> n, elf |-> TRUE, dyn |-> d, interp |-> i, owner |-> o, setid |-> si, segs |-> sg]
\* libc.so, and one whose segment is empty.
Libc == Elf("lib", TRUE, FALSE, 0, {}, <<Segment(0, 0, 3, 3), Segment(5, 5, 2, 8)>>)
EmptyLibc == Elf("lib", TRUE, FALSE, 0, {}, <<Segment(0, 0, 0, 0)>>)
\* One segment that starts anywhere in a page, with and without a bss.
OneSegment == {Elf("x", FALSE, FALSE, 1, {}, <<Segment(a, 4 + (a % 4), fs, fs + x)>>) :
                   a \in 4 .. 7, fs \in 0 .. 5, x \in 0 .. 6}
\* Text and data, linked to an address or not, with and without an interpreter.
TextAndData(sizes, bss, interp) ==
    {Elf("x", d, i, 1, {}, <<Segment(IF d THEN 0 ELSE 4, 0, fs, fs),
                             Segment(IF d THEN 5 ELSE 9, 9, 2, 2 + x)>>) :
         fs \in sizes, x \in bss, d \in BOOLEAN, i \in interp}
\* Not an ELF file, and one of no segments.
NotLoadable == {[Elf("x", FALSE, FALSE, 1, {}, <<Segment(4, 0, 1, 1)>>) EXCEPT !.elf = FALSE],
                Elf("x", FALSE, FALSE, 1, {}, <<>>)}
SetId == {Elf("x", FALSE, FALSE, o, k, <<Segment(4, 0, 1, 1)>>) :
              o \in {0, 1, 2}, k \in {{"u"}, {"g"}, {"u", "g"}}}

\* Files of one segment.
X1 == INSTANCE Exec WITH Thread <- {}, PAGE <- 4, MmapStart <- 24, End <- 104, Room <- 36,
          Program <- OneSegment \cup NotLoadable, Interp <- Libc,
          Args <- {0}, Hints <- {}, Id <- {}, MaxCalls <- 1
\* Files of two segments; arguments and variables.
X2 == INSTANCE Exec WITH Thread <- {}, PAGE <- 4, MmapStart <- 24, End <- 104, Room <- 36,
          Program <- TextAndData({1, 4}, {0, 1, 3}, BOOLEAN), Interp <- Libc,
          Args <- {0, 1, 2}, Hints <- {}, Id <- {}, MaxCalls <- 1
\* Two threads that map memory and move the break, and execve.
X3 == INSTANCE Exec WITH Thread <- {m1, m2}, PAGE <- 4, MmapStart <- 24, End <- 104, Room <- 36,
          Program <- TextAndData({1}, {3}, {TRUE}), Interp <- Libc,
          Args <- {0}, Hints <- {28, 36, 52}, Id <- {}, MaxCalls <- 3
\* Set-id files and the calls that change ids.
X4 == INSTANCE Exec WITH Thread <- {}, PAGE <- 4, MmapStart <- 24, End <- 104, Room <- 36,
          Program <- SetId, Interp <- Libc,
          Args <- {0}, Hints <- {}, Id <- 0 .. 3, MaxCalls <- 3
\* An interpreter that cannot be loaded.
X5 == INSTANCE Exec WITH Thread <- {}, PAGE <- 4, MmapStart <- 24, End <- 104, Room <- 36,
          Program <- TextAndData({1, 4}, {0, 1, 3}, BOOLEAN), Interp <- EmptyLibc,
          Args <- {0}, Hints <- {}, Id <- {}, MaxCalls <- 1

\* Sixteen pages, page 0 the kernel's, page 5 a device's.
B == INSTANCE Buddy WITH MAX_ORDER <- 4, BitsPerByte <- 2, pm_start <- 1,
          Mmio <- {5}, memlen <- 8, Orders <- 0 .. 2

\* Two contexts; a small and a large page of one table, and a large page of
\* the kernel's half.
T == INSTANCE PageTable WITH Ctx <- {c1, c2}, Kernel <- kernel, None <- NULL,
          Virt <- {<<<<0,0,0,0>>, 0>>, <<<<0,0,1,0>>, 1>>, <<<<1,0,0,0>>, 1>>},
          Phys <- {f1}, Table <- Tables,
          FlagSets <- {{"WRITE", "USER", "PRIVATE"}, {"EXECUTE", "DEVICE", "DIRTY"}}

\* Only the variables of KobjLru are in use.
OnlyCache == img = NULL /\ ids = NULL /\ earned = NULL /\ prog = NULL /\
    stack = NULL /\ result = NULL /\ pend = NULL /\ lost = NULL /\ calls = NULL
    /\ bitmaps = NULL /\ freelists = NULL /\ free_memory = NULL /\
    total_memory = NULL /\ phys = NULL /\ count = NULL /\ held = NULL /\
    tables = NULL /\ root = NULL /\ flat = NULL
restCache == <<img, ids, earned, prog, stack, result, pend, lost, calls,
    bitmaps, freelists, free_memory, total_memory, phys, count, held, tables,
    root, flat>>

\* Only the variables of Exec are in use; those of KobjLru stay as they begin.
OnlyExec == Init /\ present = Id /\ bitmaps = NULL /\ freelists = NULL /\ free_memory = NULL /\
    total_memory = NULL /\ phys = NULL /\ count = NULL /\ held = NULL /\
    tables = NULL /\ root = NULL /\ flat = NULL
restExec == <<vars, bitmaps, freelists, free_memory, total_memory, phys, count,
    held, tables, root, flat>>

\* Only the variables of Buddy are in use.
OnlyBuddy == Init /\ present = Id /\ img = NULL /\ ids = NULL /\ earned = NULL /\ prog = NULL /\
    stack = NULL /\ result = NULL /\ pend = NULL /\ lost = NULL /\ calls = NULL
    /\ tables = NULL /\ root = NULL /\ flat = NULL
restBuddy == <<vars, img, ids, earned, prog, stack, result, pend, lost, calls,
    tables, root, flat>>

\* Only the variables of PageTable are in use.
OnlyTree == Init /\ present = Id /\ img = NULL /\ ids = NULL /\ earned = NULL /\ prog = NULL /\
    stack = NULL /\ result = NULL /\ pend = NULL /\ lost = NULL /\ calls = NULL
    /\ bitmaps = NULL /\ freelists = NULL /\ free_memory = NULL /\
    total_memory = NULL /\ phys = NULL /\ count = NULL /\ held = NULL
restTree == <<vars, img, ids, earned, prog, stack, result, pend, lost, calls,
    bitmaps, freelists, free_memory, total_memory, phys, count, held>>

MCInit ==
    \/ which = "cache" /\ Init /\ OnlyCache
    \/ which = "load" /\ X1!ExecInit /\ OnlyExec
    \/ which = "start" /\ X2!ExecInit /\ OnlyExec
    \/ which = "mmap" /\ X3!ExecInit /\ OnlyExec
    \/ which = "setid" /\ X4!ExecInit /\ OnlyExec
    \/ which = "badlib" /\ X5!ExecInit /\ OnlyExec
    \/ which = "buddy" /\ B!Init /\ OnlyBuddy
    \/ which = "tree" /\ T!Init /\ OnlyTree
MCNext ==
    /\ UNCHANGED which
    /\ \/ which = "cache" /\ Next /\ UNCHANGED restCache
       \/ which = "load" /\ X1!ExecNext /\ UNCHANGED restExec
       \/ which = "start" /\ X2!ExecNext /\ UNCHANGED restExec
       \/ which = "mmap" /\ X3!ExecNext /\ UNCHANGED restExec
       \/ which = "setid" /\ X4!ExecNext /\ UNCHANGED restExec
       \/ which = "badlib" /\ X5!ExecNext /\ UNCHANGED restExec
       \/ which = "buddy" /\ B!Next /\ UNCHANGED restBuddy
       \/ which = "tree" /\ T!Next /\ UNCHANGED restTree
MCSpec == MCInit /\ [][MCNext]_allvars

\* Module Exec: a process has no id but those it was given (sys/proc.c,
\* execve.c:55-62).
IdsEarned ==
    /\ which = "load" => X1!IdsEarned
    /\ which = "start" => X2!IdsEarned
    /\ which = "mmap" => X3!IdsEarned
    /\ which = "setid" => X4!IdsEarned
    /\ which = "badlib" => X5!IdsEarned

\* Threads are interchangeable, and so are objects and identifiers.
MCSymmetry == Permutations(Thread) \cup Permutations(Obj) \cup Permutations(Id)
=============================================================================
