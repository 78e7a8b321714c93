--------------------------------- MODULE Exec --------------------------------
(***************************************************************************)
(* What a process is made of: execve and the ELF loader                    *)
(* (kernel/sys/execve.c, kernel/elf.c), where mmap and brk put their       *)
(* regions (kernel/sys/map.c, kernel/process.c) and the ids of a process   *)
(* (kernel/sys/proc.c).                                                    *)
(*                                                                         *)
(* Memory is bytes 0 .. End - 1 in pages of PAGE bytes.  A mapped page     *)
(* shows a page of the file it was mapped from, or zeros; loading also     *)
(* clears bytes one by one.  Byte n of a file is n.  The frames behind the *)
(* pages, and faults, are in Mapping.                                      *)
(***************************************************************************)
EXTENDS Integers, Sequences, FiniteSets, SequencesExt

CONSTANTS
    Thread,     \* threads that call mmap
    PAGE,       \* arch_mm_page_size(0)
    MmapStart,  \* USER_MMAP_REGION_START; above it, up to End, the mmap region
    End,        \* USER_MMAP_REGION_END
    Program,    \* files that can be executed
    Interp,     \* the file /usr/lib/libc.so
    Args,       \* numbers of arguments and of variables
    Hints,      \* addresses that mmap can be called with, 0 for none
    Id,         \* user ids that are asked for
    MaxCalls,   \* bound: calls
    Room,       \* bound: the mmap region has room for the files of an execve
    NULL

VARIABLES
    img,        \* mem, the pages; zero, cleared bytes; next, next_mmap_reg; brk
    ids,        \* real, effective and saved id, of the user and of the group
    earned,     \* history: ids the process was given, by its parent or a file
    prog,       \* the program that runs, with the bases it was loaded at
    stack,      \* the words that execve left on the stack, the top first
    result,     \* how the last execve ended, and of which file
    pend,       \* an mmap that has its address but has not made its region yet
    lost,       \* history: pages that were taken from what had been mapped there
    calls

execvars == <<img, ids, earned, prog, stack, result, pend, lost, calls>>

Down(a) == (a \div PAGE) * PAGE
UpTo(a) == Down(a + PAGE - 1)
Pages(a, len) == {q \in 0 .. End \div PAGE - 1 : a < (q + 1) * PAGE /\ q * PAGE < a + len}
Kind == {"u", "g"}
Empty == [q \in 0 .. End \div PAGE - 1 |-> NULL]

ExecInit ==
    /\ img = [mem |-> Empty, zero |-> {}, next |-> MmapStart, brk |-> PAGE]
    /\ ids = [k \in Kind |-> [r |-> 1, e |-> 1, s |-> 1]]
    /\ earned = [k \in Kind |-> {1}]
    /\ prog = NULL /\ stack = <<>> /\ result = [what |-> "none", file |-> NULL]
    /\ pend = [t \in Thread |-> NULL]
    /\ lost = {} /\ calls = 0

-----------------------------------------------------------------------------
(* Mapping. *)

\* map_region_setup: what was mapped in the range is removed first.
map_mmap(m, a, len, file, off) ==
    LET range == Pages(a, len) IN
    [m EXCEPT
       !.mem = [q \in DOMAIN @ |->
                  IF q \notin range THEN @[q]
                  ELSE IF file = NULL THEN [file |-> NULL, page |-> 0]
                  ELSE [file |-> file, page |-> (off + q * PAGE - a) \div PAGE]],
       !.zero = {z \in @ : z \div PAGE \notin range}]

\* sys_mmap keeps the allocator past a region whose address was given.
Past(m, a, len) ==
    IF a >= MmapStart /\ a < End /\ a + len > m.next THEN Down(a + len + PAGE) ELSE m.next

\* The address that sys_mmap uses: 0 stands for one it will allocate, -1 for an
\* error.
AddressFor(a, len, fixed) ==
    CASE len = 0 -> -1
      [] UpTo(len) + a > End -> -1
      [] a < PAGE -> IF fixed THEN -1 ELSE 0
      [] OTHER -> a

\* sys_mmap as a whole: the image after it and the address it returns.
sys_mmap(m, a, len, fixed, file, off) ==
    LET at == AddressFor(a, len, fixed)
        virt == IF at = 0 THEN m.next ELSE at
        next == IF at = 0 THEN m.next + UpTo(len) ELSE Past(m, virt, UpTo(len))
    IN  IF at = -1 THEN [m |-> m, virt |-> -1]
        ELSE [m |-> map_mmap([m EXCEPT !.next = next], virt, UpTo(len), file, off),
              virt |-> virt]

\* A thread's mmap without an address: process_allocate_mmap_region takes the
\* address with one atomic addition, then the region is made.
process_allocate_mmap_region(t, len) ==
    /\ calls < MaxCalls /\ pend[t] = NULL
    /\ img.next + len <= End
    /\ pend' = [pend EXCEPT ![t] = [at |-> img.next, len |-> len]]
    /\ img' = [img EXCEPT !.next = @ + len]
    /\ calls' = calls + 1
    /\ UNCHANGED <<ids, earned, prog, stack, result, lost>>

Used(m, a, len) == {q \in Pages(a, len) : m.mem[q] # NULL}

MakeRegion(t) ==
    /\ pend[t] # NULL
    /\ img' = map_mmap(img, pend[t].at, pend[t].len, NULL, 0)
    /\ lost' = lost \cup Used(img, pend[t].at, pend[t].len)
    /\ pend' = [pend EXCEPT ![t] = NULL]
    /\ UNCHANGED <<ids, earned, prog, stack, result, calls>>

\* An mmap with an address: it replaces what was there, as was asked.  The test
\* and the update of next_mmap_reg are not atomic; no other mmap is under way.
MmapAt(a, len) ==
    /\ calls < MaxCalls /\ \A t \in Thread : pend[t] = NULL
    /\ LET r == sys_mmap(img, a, len, FALSE, NULL, 0) IN
       /\ AddressFor(a, len, FALSE) > 0 /\ r.m.next <= End
       /\ img' = r.m
    /\ prog' = IF Used(img, a, len) # {} THEN NULL ELSE prog
    /\ calls' = calls + 1
    /\ UNCHANGED <<ids, earned, stack, result, pend, lost>>

\* sys_brk.  It grows by at least a page more than was asked, and never shrinks.
sys_brk(nb) ==
    LET new == UpTo(nb) + PAGE IN
    /\ calls < MaxCalls
    /\ new < MmapStart /\ new >= img.brk
    /\ LET r == sys_mmap(img, img.brk, new - img.brk, FALSE, NULL, 0) IN
       /\ img' = [r.m EXCEPT !.brk = new]
       /\ lost' = lost \cup Used(img, img.brk, new - img.brk)
    /\ calls' = calls + 1
    /\ UNCHANGED <<ids, earned, prog, stack, result, pend>>

-----------------------------------------------------------------------------
(* ELF files. *)

PageFree(s) == PAGE - ((s.addr + s.filesz) % PAGE)

\* One segment of the loop of elf_parse_executable or elf_load_interp.
LoadSegment(l, s, file, dyn) ==
    LET extra == s.memsz - s.filesz
        newend == s.addr + s.filesz
        one == sys_mmap(l.m, Down(s.addr) + l.base, s.filesz + (s.addr % PAGE), ~dyn,
                        file, Down(s.off))
        two == sys_mmap(one.m, Down(newend - 1) + PAGE + l.base, extra - PageFree(s),
                        ~dyn, NULL, 0)
        m == IF extra > PageFree(s) THEN two.m ELSE one.m
        cleared == (newend + l.base) .. (newend + l.base + extra - 1)
    IN  [m |-> [m EXCEPT !.zero = @ \cup cleared],
         base |-> IF l.base = 0 /\ dyn THEN one.virt ELSE l.base,
         max |-> IF s.addr + s.memsz > l.max THEN s.addr + s.memsz ELSE l.max,
         fault |-> l.fault \/ \E z \in cleared : z >= End \/ m.mem[z \div PAGE] = NULL]

Load(m, f) ==
    FoldLeft(LAMBDA l, s : LoadSegment(l, s, f.name, f.dyn),
             [m |-> m, base |-> 0, max |-> 0, fault |-> FALSE], f.segs)

\* The words that execve writes, from the top of the stack down to the pointer.
Word(kind, n) == [kind |-> kind, n |-> n]
Pushed(argc, envc, base) ==
    LET aux == <<Word("AT_NULL", 0), Word("AT_PAGESZ", PAGE), Word("AT_EXECFD", 0),
                 Word("AT_PHDR", 0)>>
               \o (IF base > 0 THEN <<Word("AT_BASE", base)>> ELSE <<>>)
               \o <<Word("AT_ENTRY", 0)>>
        saved(kind, n) == [i \in 1 .. n + 1 |->
                             IF i = 1 THEN Word("NULL", 0) ELSE Word(kind, n + 1 - i)]
    IN  aux \o saved("env", envc) \o saved("arg", argc) \o <<Word("argc", argc)>>

\* The set-id bits of the file.
Given(k, f) ==
    IF k \in f.setid THEN [ids[k] EXCEPT !.s = ids[k].e, !.e = f.owner] ELSE ids[k]

Ends(what, f) == result' = [what |-> what, file |-> f]

\* sys_execve.  The set-id bits take effect, and the old memory is gone, before
\* the interpreter and the segments are looked at.
sys_execve(f, argc, envc) ==
    LET bare == [img EXCEPT !.mem = Empty, !.zero = {}]
        none == [m |-> bare, base |-> 0, max |-> 0, fault |-> FALSE]
        lib == IF f.interp THEN Load(bare, Interp) ELSE none
        exe == Load(lib.m, f)
        top == UpTo(exe.max) + exe.base
    IN
    /\ calls < MaxCalls /\ img.next + Room <= End
    /\ \A t \in Thread : pend[t] = NULL
    /\ calls' = calls + 1
    /\ UNCHANGED pend
    /\ IF ~f.elf
       THEN /\ Ends("ENOEXEC", f)
            /\ UNCHANGED <<img, ids, earned, prog, stack, lost>>
       ELSE
         /\ ids' = [k \in Kind |-> Given(k, f)]
         /\ earned' = [k \in Kind |-> earned[k] \cup (IF k \in f.setid THEN {f.owner} ELSE {})]
         /\ CASE lib.base = -1 ->
                   /\ Ends("ELIBBAD", f)
                   /\ img' = lib.m /\ prog' = NULL
                   /\ UNCHANGED <<stack, lost>>
              [] lib.base # -1 /\ (lib.fault \/ exe.fault) ->
                   /\ Ends("fault", f)
                   /\ img' = bare /\ prog' = NULL
                   /\ UNCHANGED <<stack, lost>>
              [] lib.base # -1 /\ ~lib.fault /\ ~exe.fault /\ exe.max = 0 ->
                   /\ Ends("exit", f)
                   /\ img' = bare /\ prog' = NULL
                   /\ UNCHANGED <<stack, lost>>
              [] OTHER ->
                   /\ Ends("running", f)
                   /\ img' = [exe.m EXCEPT !.brk = Down(top + PAGE)]
                   /\ prog' = [base |-> exe.base, lib |-> lib.base]
                   /\ stack' = Reverse(Pushed(argc, envc,
                                              IF f.dyn THEN exe.base ELSE lib.base))
                   /\ lost' = lost \cup {q \in DOMAIN Empty :
                                  lib.m.mem[q] # NULL /\ exe.m.mem[q] # lib.m.mem[q]}

-----------------------------------------------------------------------------
(* Ids.  The calls for the group are those for the user, on its own fields. *)

sys_setuid(k, id) ==
    LET i == ids[k] IN
    /\ calls < MaxCalls
    /\ \/ i.e = 0 /\ ids' = [ids EXCEPT ![k] = [r |-> id, e |-> id, s |-> id]]
       \/ i.e # 0 /\ id \in {i.r, i.s} /\ ids' = [ids EXCEPT ![k].e = id]
    /\ calls' = calls + 1
    /\ UNCHANGED <<img, earned, prog, stack, result, pend, lost>>

\* Mutant: any id is one the process may take.
_is_ok_Any(k, id) == TRUE
_is_ok(k, id) == id = -1 \/ id \in {ids[k].r, ids[k].s} \/ ids[k].e = 0

sys_setresuid(k, r, e, s) ==
    /\ calls < MaxCalls
    /\ _is_ok(k, r) /\ _is_ok(k, e) /\ _is_ok(k, s)
    /\ ids' = [ids EXCEPT ![k] = [r |-> IF r # -1 THEN r ELSE @.r,
                                  e |-> IF e # -1 THEN e ELSE @.e,
                                  s |-> IF s # -1 THEN s ELSE @.s]]
    /\ calls' = calls + 1
    /\ UNCHANGED <<img, earned, prog, stack, result, pend, lost>>

ExecNext ==
    \/ \E f \in Program, argc, envc \in Args : sys_execve(f, argc, envc)
    \/ \E t \in Thread :
         MakeRegion(t) \/ \E len \in {PAGE, 2 * PAGE} : process_allocate_mmap_region(t, len)
    \/ \E a \in Hints, len \in {PAGE, 2 * PAGE} : MmapAt(a, len)
    \/ \E nb \in {img.brk, img.brk + PAGE + 1} : Hints # {} /\ sys_brk(nb)
    \/ \E k \in Kind, id \in Id : sys_setuid(k, id)
    \/ \E k \in Kind, r, e, s \in Id \cup {-1} : Id # {} /\ sys_setresuid(k, r, e, s)

ExecSpec == ExecInit /\ [][ExecNext]_execvars

-----------------------------------------------------------------------------

\* What the process finds at a byte.
Byte(a) ==
    LET q == img.mem[a \div PAGE] IN
    IF q = NULL THEN "unmapped"
    ELSE IF a \in img.zero \/ q.file = NULL THEN "zero"
    ELSE <<q.file, (q.page * PAGE) + (a % PAGE)>>

InPlace(f, base) ==
    \A i \in DOMAIN f.segs : LET s == f.segs[i] IN
        /\ \A n \in 0 .. s.filesz - 1 : Byte(base + s.addr + n) = <<f.name, s.off + n>>
        /\ \A n \in s.filesz .. s.memsz - 1 : Byte(base + s.addr + n) = "zero"

\* A segment whose file part ends on a page boundary, or the first of a file that
\* can be loaded anywhere, has nowhere for the part that is not in the file.
Unloadable(f) ==
    \E i \in DOMAIN f.segs : LET s == f.segs[i] IN
        s.memsz > s.filesz /\ ((s.addr + s.filesz) % PAGE = 0 \/ (f.dyn /\ i = 1))

\* The bytes of a program and of its interpreter are where their segments say,
\* with zeros where the file has none, and stay there whatever the process maps
\* after; loading faults only for the segments named above
\* (elf_parse_executable, elf_load_interp).
ProgramInPlace ==
    /\ prog # NULL => /\ InPlace(result.file, prog.base)
                      /\ prog.lib # 0 => InPlace(Interp, prog.lib)
    /\ result.what = "fault" => Unloadable(result.file) \/ Unloadable(Interp)

\* No page is taken from what is mapped there by a call that was free to choose
\* its address, by brk or by the loader (sys_mmap, sys_brk,
\* process_allocate_mmap_region).
NothingTaken ==
    /\ lost = {}
    /\ \A q \in DOMAIN Empty :
         q * PAGE >= MmapStart /\ img.mem[q] # NULL => (q + 1) * PAGE <= img.next

\* A process has no id but those it was given or a set-id file gave it, until it
\* is given that of root (sys_setuid, sys_setresuid, sys_execve).
IdsEarned ==
    \A k \in Kind : 0 \notin earned[k] => {ids[k].r, ids[k].e, ids[k].s} \subseteq earned[k]

\* Read from the stack pointer up there is the count, the arguments in order, a
\* null, the variables in order, a null, and the pairs up to AT_NULL
\* (sys_execve, write_data, write_aux).
StackReads ==
    stack # <<>> =>
      LET argc == stack[1].n
          ends == {i \in DOMAIN stack : stack[i].kind = "NULL"}
          first == argc + 2
          second == CHOOSE i \in ends : i # first
      IN  /\ stack[1].kind = "argc" /\ first \in ends /\ Cardinality(ends) = 2
          /\ \A i \in 2 .. argc + 1 : stack[i] = Word("arg", i - 2)
          /\ second > first
          /\ \A i \in first + 1 .. second - 1 : stack[i] = Word("env", i - first - 1)
          /\ \A i \in second + 1 .. Len(stack) :
                 stack[i].kind = "AT_NULL" <=> i = Len(stack)
=============================================================================
