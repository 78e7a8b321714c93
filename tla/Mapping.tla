------------------------------ MODULE Mapping ------------------------------
(***************************************************************************)
(* Address spaces: the regions and page tables of processes                *)
(* (kernel/mapping.c, kernel/sys/map.c), the counted page frames           *)
(* (kernel/frame.c), and the pages of a file in the page cache that        *)
(* mappings share with read and write (kernel/fs/filesystem.c, inode.c,    *)
(* inoderw.c).  map_lock is held over a whole operation, so each is a      *)
(* step.  A virtual address is a page number; a page table is a function   *)
(* from pages to entries (module PageTable shows that the tree of tables   *)
(* is one); the content of a page is one value.                            *)
(***************************************************************************)
EXTENDS Integers, FiniteSets

CONSTANTS
    Proc,           \* processes
    VPages,         \* user pages, an interval of the integers
    Frame,          \* physical page frames
    FilePage,       \* pages of the one file
    Value,          \* contents of a page; 0 is a cleared page
    Kinds,          \* mappings made: [file, shared, fwrite] records
    MaxRefs,        \* bound on the references to a cached page
    MaxLen,         \* longest mapping, in pages
    Prots, NewProts, \* BOOLEANs: the PROT_WRITE of mmap and of mprotect
    NULL

VARIABLES
    maps,           \* process -> set of map_region
    pt,             \* process -> page -> NULL or [frame, write]
    frames,         \* frame -> [alloc, count, persist, dirty, data]
    cache,          \* file page -> NULL or [frame, refs, dirty]: inodepage_lru
    disk,           \* file page -> content on the device
    alive,          \* processes that exist
    mem,            \* ghost: what a page of a private mapping was last set to
    file            \* ghost: what the file was last set to

vars == <<maps, pt, frames, cache, disk, alive, mem, file>>

NoFrame == [alloc |-> FALSE, count |-> 0, persist |-> FALSE, dirty |-> FALSE, data |-> 0]
NoMaps == [v \in VPages |-> NULL]
Region(s, n, k, w, np) == [start |-> s, len |-> n, kind |-> k, write |-> w, nodepage |-> np]
Within(r) == r.start .. r.start + r.len - 1

\* __find_region
Find(p, v) == LET rs == {r \in maps[p] : v \in Within(r)}
              IN  IF rs = {} THEN NULL ELSE CHOOSE r \in rs : TRUE

\* The page of the file behind page v of region r: nodepage + (v - start).
PageOf(r, v) == r.nodepage + v - r.start

-----------------------------------------------------------------------------
(* Frames and the page cache, as functions of their state fs: [f, c, d].   *)

Fs == [f |-> frames, c |-> cache, d |-> disk]
FreeFrame(fs) == CHOOSE x \in Frame : ~fs.f[x].alloc

\* frame_allocate: cleared, the flags given, a count of 0 with ZEROCOUNT.
Allocate(fs, x, persist, data) ==
    [fs EXCEPT !.f[x] = [alloc |-> TRUE, count |-> IF persist THEN 0 ELSE 1,
                         persist |-> persist, dirty |-> FALSE, data |-> data]]

\* frame_release, n times: a frame without PERSIST is freed at zero.
Released(fr, n) ==
    IF fr.count = n /\ ~fr.persist THEN NoFrame ELSE [fr EXCEPT !.count = @ - n]

\* inode_get_page: kobj_lru_get, with _inode_page_initialize on a miss.
GetPage(fs, n) ==
    IF fs.c[n] # NULL THEN [fs EXCEPT !.c[n].refs = @ + 1]
    ELSE LET x == FreeFrame(fs)
         IN  [Allocate(fs, x, TRUE, fs.d[n]) EXCEPT
                  !.c[n] = [frame |-> x, refs |-> 1, dirty |-> FALSE]]

\* __unmap_page_if_mapped for the pages vs of p, each with its region's unmap
\* callback: _zero_unmap releases the frame; _fs_inode_unmap also gives the
\* file page back, dirty if the frame is, when the frame's count reaches 0.
UnmapPages(fs, p, vs) ==
    LET mapped == {v \in vs : pt[p][v] # NULL}
        at(x) == {v \in mapped : pt[p][v].frame = x}
        gone(n) == \E v \in mapped :
            LET r == Find(p, v) x == pt[p][v].frame
            IN  /\ r.kind.file /\ PageOf(r, v) = n
                /\ fs.f[x].persist /\ fs.f[x].count = Cardinality(at(x))
    IN  [fs EXCEPT
           !.f = [x \in Frame |-> IF at(x) = {} THEN fs.f[x]
                                  ELSE Released(fs.f[x], Cardinality(at(x)))],
           !.c = [n \in FilePage |->
                    IF gone(n) THEN [fs.c[n] EXCEPT !.refs = @ - 1,
                                                    !.dirty = @ \/ fs.f[fs.c[n].frame].dirty]
                    ELSE fs.c[n]]]

Become(fs) == frames' = fs.f /\ cache' = fs.c /\ disk' = fs.d

-----------------------------------------------------------------------------
(* The address space operations.                                           *)

Range(s, n) == (s .. s + n - 1) \cap VPages

\* map_region_remove on pages s .. s+n-1: what is left of each region.  The
\* part behind the hole starts at a later page but keeps its nodepage.
Cut(rs, s, n) ==
    UNION {IF Within(r) \cap Range(s, n) = {} THEN {r}
           ELSE {q \in {[r EXCEPT !.len = s - r.start],
                        [r EXCEPT !.start = s + n, !.len = r.start + r.len - s - n]} : q.len > 0}
           : r \in rs}

\* sys_mmap with an address, map_mmap and map_region_setup: EACCES for a
\* shared writable mapping of a file that is not open for writing.
Mmap(p, s, n, k, w, np) ==
    /\ ~(k.file /\ w /\ ~k.fwrite /\ k.shared)
    /\ Become(UnmapPages(Fs, p, Range(s, n)))
    /\ pt' = [pt EXCEPT ![p] = [v \in VPages |-> IF v \in Range(s, n) THEN NULL ELSE @[v]]]
    /\ maps' = [maps EXCEPT ![p] = Cut(@, s, n) \cup {Region(s, n, k, w, np)}]
    /\ mem' = [mem EXCEPT ![p] = [v \in VPages |-> IF v \in Range(s, n) THEN NULL ELSE @[v]]]
    /\ UNCHANGED <<alive, file>>

\* map_change_protect on a run of pages inside one region: the region is
\* split around it, and the entry of its first page is rewritten.
Mprotect(p, s, n, w) ==
    LET r == Find(p, s)
    IN  /\ r # NULL /\ (s .. s + n - 1) \subseteq Within(r)
        /\ (w => r.kind.fwrite \/ ~r.kind.file)
        /\ maps' = [maps EXCEPT ![p] = (@ \ {r}) \cup Cut({r}, s, n)
                                        \cup {[r EXCEPT !.start = s, !.len = n, !.write = w]}]
        /\ pt' = IF pt[p][s] = NULL THEN pt ELSE [pt EXCEPT ![p][s].write = w]
        /\ UNCHANGED <<frames, cache, disk, alive, mem, file>>

\* sys_mremap of a whole region to a longer one: mapping_resize in place if
\* the pages behind are not in use, else mapping_move to page "to".
Mremap(p, r, n, to) ==
    /\ r \in maps[p] /\ n > r.len
    /\ LET behind == Range(r.start + r.len, n - r.len)
           moved == [v \in VPages |->
                       IF v \in Range(to, r.len) THEN v - to + r.start ELSE v]
       IN  IF Cardinality(behind) = n - r.len /\ \A v \in behind : Find(p, v) = NULL
             THEN /\ maps' = [maps EXCEPT ![p] = (@ \ {r}) \cup {[r EXCEPT !.len = n]}]
                  /\ mem' = [mem EXCEPT ![p] = [v \in VPages |-> IF v \in behind THEN NULL ELSE @[v]]]
                  /\ UNCHANGED <<pt, frames, cache, disk>>
             ELSE /\ Cardinality(Range(to, n)) = n
                  /\ Range(to, n) \cap Within(r) = {}
                  /\ Become(UnmapPages(Fs, p, Range(to, n)))
                  /\ maps' = [maps EXCEPT ![p] = Cut(@ \ {r}, to, n)
                                                  \cup {[r EXCEPT !.start = to, !.len = n]}]
                  /\ pt' = [pt EXCEPT ![p] = [v \in VPages |->
                                IF v \in Within(r) \cup (Range(to, n) \ Range(to, r.len))
                                THEN NULL ELSE @[moved[v]]]]
                  /\ mem' = [mem EXCEPT ![p] = [v \in VPages |->
                                IF v \in Within(r) \cup (Range(to, n) \ Range(to, r.len))
                                THEN NULL ELSE @[moved[v]]]]
    /\ UNCHANGED <<alive, file>>

ParentEntry(e, r) == IF r.kind.shared THEN e ELSE [e EXCEPT !.write = FALSE]

\* process_copy_mappings: the child maps the same frames, counted once more;
\* private pages lose the right to write in both.
Fork(p, c) ==
    LET ro(v) == LET e == pt[p][v] IN IF e = NULL THEN NULL
                    ELSE [e EXCEPT !.write = @ /\ Find(p, v).kind.shared]
        kept(v) == LET e == pt[p][v] IN IF e = NULL THEN NULL ELSE ParentEntry(e, Find(p, v))
        uses(x) == Cardinality({v \in VPages : pt[p][v] # NULL /\ pt[p][v].frame = x})
    IN  /\ c \notin alive /\ alive' = alive \cup {c}
        /\ maps' = [maps EXCEPT ![c] = maps[p]]
        /\ pt' = [pt EXCEPT ![c] = [v \in VPages |-> ro(v)],
                            ![p] = [v \in VPages |-> kept(v)]]
        /\ frames' = [x \in Frame |-> IF uses(x) = 0 THEN frames[x]
                                      ELSE [frames[x] EXCEPT !.count = @ + uses(x)]]
        /\ mem' = [mem EXCEPT ![c] = mem[p]]
        /\ UNCHANGED <<cache, disk, file>>

\* process_remove_mappings, when the process exits.
Exit(p) ==
    /\ Become(UnmapPages(Fs, p, VPages))
    /\ maps' = [maps EXCEPT ![p] = {}]
    /\ pt' = [pt EXCEPT ![p] = NoMaps]
    /\ alive' = alive \ {p}
    /\ mem' = [mem EXCEPT ![p] = NoMaps]
    /\ UNCHANGED file

\* FAULT_ERROR_PRES: the frame of the page comes from the file's map
\* callback, _zero_map or _fs_inode_map; a page that must be copied or
\* marked on its first write is mapped without the right to write.
Present(fs, r, v) ==
    LET n == PageOf(r, v)
        got == GetPage(fs, n)
        x == IF r.kind.file THEN got.c[n].frame ELSE FreeFrame(fs)
        fs1 == IF r.kind.file THEN [got EXCEPT !.f[x].count = @ + 1]
               ELSE Allocate(fs, x, FALSE, 0)
        fr == fs1.f[x]
        barred == \/ ~r.kind.shared /\ (fr.persist \/ fr.count > 1)
                  \/ r.kind.shared /\ ~fr.dirty
    IN  [fs |-> fs1, e |-> [frame |-> x, write |-> r.write /\ ~barred]]

CopyOf(fr) == fr.data

\* FAULT_ERROR_PERM and FAULT_WRITE: a private page is copied to a frame of
\* its own, a shared one is marked dirty; either is then writable.
WriteFault(fs, r, e) ==
    IF r.kind.shared
      THEN [fs |-> [fs EXCEPT !.f[e.frame].dirty = TRUE], e |-> [e EXCEPT !.write = r.write]]
      ELSE LET x == FreeFrame(fs)
               copied == Allocate(fs, x, FALSE, CopyOf(fs.f[e.frame]))
           IN  [fs |-> [copied EXCEPT !.f[e.frame] = Released(@, 1)],
                e |-> [frame |-> x, write |-> r.write]]

\* What page v of process p should show: the file for a file mapping it has
\* no private copy of, else its own last store, else a cleared page.
Expected(p, v) ==
    LET r == Find(p, v)
    IN  IF mem[p][v] # NULL THEN mem[p][v]
        ELSE IF r.kind.file THEN file[PageOf(r, v)] ELSE 0

\* mm_fault_entry and mmu_mappings_handle_fault, for the fault the processor
\* raises, and for the call that clone makes with both errors set.
Fault(p, v, pres, perm, write) ==
    LET r == Find(p, v)
        e0 == pt[p][v]
        a == IF pres /\ e0 = NULL THEN Present(Fs, r, v) ELSE [fs |-> Fs, e |-> e0]
        b == IF perm /\ write THEN WriteFault(a.fs, r, a.e) ELSE a
    IN  /\ r # NULL /\ (write => r.write)
        /\ Become(b.fs) /\ pt' = [pt EXCEPT ![p][v] = b.e]
        /\ mem' = IF perm /\ write /\ ~r.kind.shared THEN [mem EXCEPT ![p][v] = Expected(p, v)] ELSE mem
        /\ UNCHANGED <<maps, alive, file>>

Access(p, v, write) ==
    \/ pt[p][v] = NULL /\ Fault(p, v, TRUE, FALSE, write)
    \/ pt[p][v] # NULL /\ write /\ ~pt[p][v].write /\ Fault(p, v, FALSE, TRUE, write)
    \/ write /\ Fault(p, v, TRUE, TRUE, TRUE)

\* A store by the program, through the entry.
Store(p, v, x) ==
    /\ pt[p][v] # NULL /\ pt[p][v].write
    /\ frames' = [frames EXCEPT ![pt[p][v].frame].data = x]
    /\ LET r == Find(p, v)
       IN  IF r.kind.shared /\ r.kind.file
             THEN file' = [file EXCEPT ![PageOf(r, v)] = x] /\ UNCHANGED mem
             ELSE mem' = [mem EXCEPT ![p][v] = x] /\ UNCHANGED file
    /\ UNCHANGED <<maps, pt, cache, disk, alive>>

\* inode_do_write_data on one page.
FileWrite(n, x) ==
    /\ LET fs == GetPage(Fs, n)
       IN  Become([fs EXCEPT !.f[fs.c[n].frame].data = x,
                             !.c[n].refs = @ - 1, !.c[n].dirty = TRUE])
    /\ file' = [file EXCEPT ![n] = x]
    /\ UNCHANGED <<maps, pt, alive, mem>>

WriteBack(c) == c.dirty
\* _inode_page_release, when the LRU reclaims a page nobody refers to.
Reclaim(n) ==
    /\ cache[n] # NULL /\ cache[n].refs = 0
    /\ disk' = IF WriteBack(cache[n]) THEN [disk EXCEPT ![n] = frames[cache[n].frame].data] ELSE disk
    /\ frames' = [frames EXCEPT ![cache[n].frame] = NoFrame]
    /\ cache' = [cache EXCEPT ![n] = NULL]
    /\ UNCHANGED <<maps, pt, alive, mem, file>>

-----------------------------------------------------------------------------
Init ==
    /\ maps = [p \in Proc |-> {}] /\ pt = [p \in Proc |-> NoMaps]
    /\ frames = [x \in Frame |-> NoFrame]
    /\ cache = [n \in FilePage |-> NULL] /\ disk = [n \in FilePage |-> 0]
    /\ \E p \in Proc : alive = {p}
    /\ mem = [p \in Proc |-> NoMaps] /\ file = [n \in FilePage |-> 0]

\* Steps are taken while two frames are free, as many as a step can need:
\* running out is a panic of the physical allocator.  The file only matters
\* where it can be mapped.
Next ==
    /\ Cardinality({x \in Frame : ~frames[x].alloc}) >= 2
    /\ \/ \E p \in alive :
            \/ \E s \in VPages, n \in 1 .. MaxLen, k \in Kinds, w \in Prots, np \in FilePage :
                 /\ s + n - 1 \in VPages
                 /\ (IF k.file THEN np + n - 1 \in FilePage ELSE \A m \in FilePage : np <= m)
                 /\ Mmap(p, s, n, k, w, np)
            \/ \E s \in VPages, n \in 1 .. MaxLen, w \in NewProts : Mprotect(p, s, n, w)
            \/ \E r \in maps[p], to \in VPages :
                 ~r.kind.file /\ r.len < MaxLen /\ Mremap(p, r, r.len + 1, to)
            \/ \E c \in Proc : Fork(p, c)
            \/ Exit(p)
            \/ /\ \A n \in FilePage : cache[n] # NULL => cache[n].refs < MaxRefs
               /\ \E v \in VPages, w \in BOOLEAN : Access(p, v, w)
            \/ \E v \in VPages, x \in Value \ {0} : Store(p, v, x)
       \/ /\ \E k \in Kinds : k.file
          /\ \E n \in FilePage : (\E x \in Value \ {0} : FileWrite(n, x)) \/ Reclaim(n)

Spec == Init /\ [][Next]_vars

-----------------------------------------------------------------------------
\* Copy-on-write cannot be observed: whatever processes sharing frames after
\* a fork map, store, remap and exit, a mapped page shows its own process's
\* last store ("allow for copy-on-write", mapping.c:178), and a page of the
\* file shows the file, through the cache, its write-back and reload.
ViewsAgree ==
    /\ \A p \in Proc, v \in VPages : pt[p][v] # NULL => frames[pt[p][v].frame].data = Expected(p, v)
    /\ \A n \in FilePage :
         file[n] = IF cache[n] = NULL THEN disk[n] ELSE frames[cache[n].frame].data

\* A frame's count is the number of page table entries that map it, so it
\* is freed when the last goes and never while one is left; and each entry
\* lies in a region (frame.c, __unmap_page_if_mapped, process_copy_mappings).
CountsMatch ==
    /\ \A x \in Frame :
         /\ frames[x].count = Cardinality({e \in Proc \X VPages :
                pt[e[1]][e[2]] # NULL /\ pt[e[1]][e[2]].frame = x})
         /\ frames[x].alloc <=> \/ frames[x].count > 0
                                \/ \E n \in FilePage : cache[n] # NULL /\ cache[n].frame = x
    /\ \A p \in Proc, v \in VPages : pt[p][v] # NULL => Find(p, v) # NULL
    /\ \A n \in FilePage : cache[n] # NULL => cache[n].refs >= 0
=============================================================================
