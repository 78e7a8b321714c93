-------------------------------- MODULE Ext2 --------------------------------
(***************************************************************************)
(* The ext2 file system: drivers/ext2/ext2.c, on a block device that       *)
(* returns what was last written (kernel/block.c keeps every block that    *)
(* was written in its cache).                                              *)
(*                                                                         *)
(* The device is not an array of bytes: the block bitmaps, the inode       *)
(* bitmaps, the group descriptors, the block pointers of the inodes, the   *)
(* indirect blocks and the data blocks are variables of their own.  One    *)
(* block is one page (_mount refuses smaller blocks).  The operations take *)
(* no lock; here they are called one after another.                        *)
(***************************************************************************)
EXTENDS Integers, Sequences, SequencesExt, FiniteSets

CONSTANTS
    NDirect,        \* direct block pointers of an inode (12 in the code)
    NPtrs,          \* pointers in an indirect block (blocksize / 4)
    NGroups,        \* ext2_sb_bgcount
    BlocksPerGroup, \* superblock.blocks_per_group
    InodesPerGroup, \* superblock.inodes_per_group
    Metadata,       \* blocks mkfs marked used: block 0, bitmaps, inode tables
    Page,           \* page numbers that are written
    Val,            \* what a page can hold
    Name,           \* directory entry names
    NameLen,        \* their lengths, a function
    MaxRecords,     \* bound: records of the directory
    MaxOps          \* bound: operations

VARIABLES
    bitmap,     \* per group, the indices set in the block bitmap
    free_blocks,\* per group, group->free_blocks
    ibitmap,    \* per group, the indices set in the inode bitmap
    free_inodes,\* per group, group->free_inodes
    blocks,     \* per inode number, eno.blocks
    ptrs,       \* per block, its content read as block pointers
    data,       \* per block, its content read as file data
    dir,        \* the records of a directory: inode and stored name
    ops,        \* operations so far, for the bound
    file,       \* history: per inode, what was last written to each page
    entries,    \* history: the names that are linked, and to what
    tainted     \* history: inodes whose pointers a short symbolic link overwrote

vars == <<bitmap, free_blocks, ibitmap, free_inodes, blocks, ptrs, data, dir, ops,
          file, entries, tainted>>

Group == 0 .. NGroups - 1
BlockNr == 0 .. NGroups * BlocksPerGroup - 1
InodeNr == 1 .. NGroups * InodesPerGroup
Pointer == 0 .. NDirect + 2
Unwritten == "unwritten"

Ext2Init ==
    /\ bitmap = [g \in Group |-> {i \in 0 .. BlocksPerGroup - 1 :
                                     g * BlocksPerGroup + i \in Metadata}]
    /\ free_blocks = [g \in Group |-> BlocksPerGroup - Cardinality(bitmap[g])]
    /\ ibitmap = [g \in Group |-> {}]
    /\ free_inodes = [g \in Group |-> InodesPerGroup]
    /\ blocks = [i \in InodeNr |-> [p \in Pointer |-> 0]]
    /\ ptrs = [b \in BlockNr |-> [e \in 0 .. NPtrs - 1 |-> 0]]
    /\ data = [b \in BlockNr |-> Unwritten]
    /\ dir = << >>
    /\ ops = 0
    /\ file = [i \in InodeNr |-> [p \in Page |-> Unwritten]]
    /\ entries = [n \in Name |-> 0]
    /\ tainted = {}

-----------------------------------------------------------------------------
(***************************************************************************)
(* Block pointers.                                                         *)
(***************************************************************************)


\* ext2_get_indirection
get_indirection(n) ==
    CASE n < NDirect                        -> [level |-> 0, direct |-> n, indirect |-> 0]
      [] n >= NDirect /\ n < NPtrs + NDirect -> [level |-> 1, direct |-> NDirect, indirect |-> n - NDirect]
      [] n >= NPtrs + NDirect /\ n < NPtrs + NDirect + NPtrs * NPtrs
             -> [level |-> 2, direct |-> NDirect + 1, indirect |-> n - NDirect - NPtrs]
      [] OTHER -> [level |-> 3, direct |-> NDirect + 2,
                   indirect |-> n - NDirect - NPtrs - NPtrs * NPtrs]

\* What one entry of an indirect block with k levels below it stands for.
Div(k) == IF k = 3 THEN NPtrs * NPtrs ELSE IF k = 2 THEN NPtrs ELSE 1

\* ext2_inode_get_block: follow k levels from block b.
RECURSIVE Follow(_, _, _, _)
Follow(pt, b, k, indirect) ==
    IF k = 0 \/ b = 0 THEN b
    ELSE Follow(pt, pt[b][indirect \div Div(k)], k - 1, indirect % Div(k))

inode_get_block(pt, eno, n) ==
    LET d == get_indirection(n) IN Follow(pt, eno[d.direct], d.level, d.indirect)

\* _read_page: the block of the page, whatever it is: a hole reads block 0.
read_page(i, p) == data[inode_get_block(ptrs, blocks[i], p)]

\* The part of the device that allocation and the pointer tree use, with the
\* inode at hand; "ok" turns FALSE on ENOSPC.
Disk(i) == [bm |-> bitmap, fb |-> free_blocks, pt |-> ptrs, eno |-> blocks[i],
            block |-> 0, ok |-> TRUE]


Mark(bm, g, i) == [bm EXCEPT ![g] = @ \cup {i}]

\* __alloc_block: the first group whose descriptor counts a free block, and in
\* it the first clear bit (__allocate_block_from_group).
alloc_block(d) ==
    LET groups == {g \in Group : d.fb[g] > 0}
        g == CHOOSE x \in groups : \A y \in groups : x <= y
        clear == (0 .. BlocksPerGroup - 1) \ d.bm[g]
        i == CHOOSE x \in clear : \A y \in clear : x <= y
    IN IF groups = {} THEN [d EXCEPT !.ok = FALSE, !.block = 0]
       ELSE IF clear = {} THEN [d EXCEPT !.block = g * BlocksPerGroup, !.ok = g # 0]
       ELSE [d EXCEPT !.bm = Mark(@, g, i), !.fb[g] = @ - 1,
                      !.block = g * BlocksPerGroup + i,
                      !.ok = g * BlocksPerGroup + i # 0]

\* The loop of ext2_inode_set_block: d.block is the block at this level, which
\* entry "prev" of block "parent" names (parent = 0: the inode does).
RECURSIVE SetLevels(_, _, _, _, _, _, _)
SetLevels(d, k, indirect, direct, parent, prev, target) ==
    IF k = 0 THEN d
    ELSE LET have == IF d.block # 0 THEN d ELSE
                     LET a == alloc_block(d) IN
                     IF ~a.ok THEN a
                     ELSE IF parent = 0 THEN [a EXCEPT !.eno[direct] = a.block]
                     ELSE [a EXCEPT !.pt[parent][prev] = a.block]
             entry == indirect \div Div(k)
             b == have.block
             next == IF k = 1 THEN [have EXCEPT !.pt[b][entry] = target] ELSE have
         IN IF ~have.ok THEN have
            ELSE SetLevels([next EXCEPT !.block = next.pt[b][entry]], k - 1,
                           indirect % Div(k), direct, b, entry, target)

inode_set_block(d, n, target) ==
    LET x == get_indirection(n) IN
    IF x.level = 0 THEN [d EXCEPT !.eno[x.direct] = target]
    ELSE SetLevels([d EXCEPT !.block = d.eno[x.direct]], x.level, x.indirect,
                   x.direct, 0, 0, target)

-----------------------------------------------------------------------------
(***************************************************************************)
(* Operations.                                                             *)
(***************************************************************************)

Op == ops < MaxOps /\ ops' = ops + 1

Allocated(i) == (i - 1) % InodesPerGroup \in ibitmap[(i - 1) \div InodesPerGroup]

\* A block that is given pointers holds no data any more.
Overwritten(pt) == [b \in BlockNr |-> IF pt[b] = ptrs[b] THEN data[b] ELSE Unwritten]

\* _write_page.  When the tree cannot grow, the block for the data stays
\* marked, and what set_block put in the inode is lost while what it put in
\* indirect blocks is not.  Pages of a short link are never written; a file
\* that gets the inode number of one would write through what the link left in
\* the pointers, and is not followed here.
write_page(i, p, v) ==
    /\ Op
    /\ Allocated(i) /\ i \notin tainted
    /\ LET old == inode_get_block(ptrs, blocks[i], p)
           a == alloc_block(Disk(i))
           s == inode_set_block(a, p, a.block) IN
       IF old # 0
       THEN /\ data' = [data EXCEPT ![old] = v]
            /\ file' = [file EXCEPT ![i][p] = v]
            /\ UNCHANGED <<bitmap, free_blocks, ptrs, blocks>>
       ELSE IF ~a.ok
       THEN /\ bitmap' = a.bm /\ free_blocks' = a.fb
            /\ UNCHANGED <<data, file, ptrs, blocks>>
       ELSE /\ bitmap' = s.bm /\ free_blocks' = s.fb /\ ptrs' = s.pt
            /\ IF s.ok
               THEN /\ blocks' = [blocks EXCEPT ![i] = s.eno]
                    /\ data' = [Overwritten(s.pt) EXCEPT ![a.block] = v]
                    /\ file' = [file EXCEPT ![i][p] = v]
               ELSE data' = Overwritten(s.pt) /\ UNCHANGED <<blocks, file>>
    /\ UNCHANGED <<ibitmap, free_inodes, dir, entries, tainted>>

FreeInodeGroups == {g \in Group : free_inodes[g] > 0}

\* _alloc_inode: the inode keeps the block pointers its number had before.
alloc_inode ==
    /\ Op
    /\ FreeInodeGroups # {}
    /\ LET g == CHOOSE x \in FreeInodeGroups : \A y \in FreeInodeGroups : x <= y
           clear == (0 .. InodesPerGroup - 1) \ ibitmap[g]
           k == CHOOSE x \in clear : \A y \in clear : x <= y IN
       /\ ibitmap' = [ibitmap EXCEPT ![g] = @ \cup {k}]
       /\ free_inodes' = [free_inodes EXCEPT ![g] = @ - 1]
    /\ UNCHANGED <<bitmap, free_blocks, blocks, ptrs, data, dir, file, entries, tainted>>

\* _release_inode: only the inode is given back (the blocks are not).
release_inode(i) ==
    LET g == (i - 1) \div InodesPerGroup IN
    /\ Op
    /\ Allocated(i)
    /\ \A n \in Name : entries[n] # i
    /\ ibitmap' = [ibitmap EXCEPT ![g] = @ \ {(i - 1) % InodesPerGroup}]
    /\ free_inodes' = [free_inodes EXCEPT ![g] = @ + 1]
    /\ UNCHANGED <<bitmap, free_blocks, blocks, ptrs, data, dir, file, entries, tainted>>

\* _writelink of a path shorter than 60 bytes: its characters replace the
\* block pointers.
writelink(i) ==
    /\ Op
    /\ Allocated(i)
    /\ blocks' = [blocks EXCEPT ![i] = [p \in Pointer |-> 1]]
    /\ tainted' = tainted \cup {i}
    /\ UNCHANGED <<bitmap, free_blocks, ibitmap, free_inodes, ptrs, data, dir, file, entries>>

-----------------------------------------------------------------------------
(***************************************************************************)
(* Directories.  A record fills a block (the code that would split one is  *)
(* disabled), so the records are a sequence, each [inode, name, len] with  *)
(* inode 0 for a free one; len is its name_len.                            *)
(***************************************************************************)

Matches(r, n) == r.inode > 0 /\ r.name = n /\ r.len = NameLen[n]

\* _lookup: the first record that matches; 0 is ENOENT.
lookup(n) ==
    LET hits == {k \in 1 .. Len(dir) : Matches(dir[k], n)} IN
    IF hits = {} THEN 0 ELSE dir[CHOOSE k \in hits : \A j \in hits : k <= j].inode

\* _link: the first free record whose old name was long enough, or a new one.
\* fs_link has looked the name up before.
link(n, i) ==
    LET rec == [inode |-> i, name |-> n, len |-> NameLen[n]]
        fit == {k \in 1 .. Len(dir) : dir[k].inode = 0 /\ dir[k].len >= NameLen[n]} IN
    /\ Op
    /\ Allocated(i)
    /\ lookup(n) = 0
    /\ IF fit # {} THEN dir' = [dir EXCEPT ![CHOOSE k \in fit : \A j \in fit : k <= j] = rec]
       ELSE Len(dir) < MaxRecords /\ dir' = Append(dir, rec)
    /\ entries' = [entries EXCEPT ![n] = i]
    /\ UNCHANGED <<bitmap, free_blocks, ibitmap, free_inodes, blocks, ptrs, data, file, tainted>>

\* _unlink: the first record that matches is freed, its name_len kept.
unlink(n) ==
    LET hits == {k \in 1 .. Len(dir) : Matches(dir[k], n)} IN
    /\ Op
    /\ hits # {}
    /\ dir' = [dir EXCEPT ![CHOOSE k \in hits : \A j \in hits : k <= j].inode = 0]
    /\ entries' = [entries EXCEPT ![n] = 0]
    /\ UNCHANGED <<bitmap, free_blocks, ibitmap, free_inodes, blocks, ptrs, data, file, tainted>>

\* _getdents with room for k entries, from record "start" (0 for the first):
\* the entries returned and the record to go on from.
RECURSIVE getdents(_, _, _)
getdents(start, k, out) ==
    IF start >= Len(dir) THEN [next |-> start, out |-> out]
    ELSE LET r == dir[start + 1] IN
         IF r.inode > 0 /\ Len(out) = k THEN [next |-> start, out |-> out]
         ELSE getdents(start + 1, k, IF r.inode > 0 THEN Append(out, r.name) ELSE out)

\* A caller that reads the directory k entries at a time until it gets none.
RECURSIVE ReadAll(_, _)
ReadAll(start, k) ==
    LET g == getdents(start, k, << >>) IN
    IF g.out = << >> THEN << >> ELSE g.out \o ReadAll(g.next, k)

Ext2Next ==
    \/ \E i \in InodeNr, p \in Page, v \in Val : write_page(i, p, v)
    \/ alloc_inode
    \/ \E i \in InodeNr : release_inode(i) \/ writelink(i)
    \/ \E n \in Name, i \in InodeNr : link(n, i)
    \/ \E n \in Name : unlink(n)

Ext2Spec == Ext2Init /\ [][Ext2Next]_vars

-----------------------------------------------------------------------------
(***************************************************************************)
(* Properties.                                                             *)
(***************************************************************************)

\* The blocks the pointers of inode i lead to, one element per way there.
Reached(i) ==
    {<<p, blocks[i][p]>> : p \in Pointer}
    \cup {<<NDirect, e, ptrs[blocks[i][NDirect]][e]>> : e \in 0 .. NPtrs - 1}
    \cup UNION {LET b == ptrs[blocks[i][NDirect + 1]][e] IN
                {<<NDirect + 1, e, b>>}
                \cup {<<NDirect + 1, e, f, ptrs[b][f]>> : f \in 0 .. NPtrs - 1}
                : e \in 0 .. NPtrs - 1}
    \cup UNION {LET b == ptrs[blocks[i][NDirect + 2]][e] IN
                {<<NDirect + 2, e, b>>}
                \cup UNION {LET c == ptrs[b][f] IN
                            {<<NDirect + 2, e, f, c>>}
                            \cup {<<NDirect + 2, e, f, h, ptrs[c][h]>> : h \in 0 .. NPtrs - 1}
                            : f \in 0 .. NPtrs - 1}
                : e \in 0 .. NPtrs - 1}


\* Reading a page that was written returns what was last written to it,
\* through every level of indirection (the assertion at the end of
\* _write_page, ext2.c:517, for all pages and at all times).
PagesReadBack ==
    \A i \in InodeNr \ tainted, p \in Page :
        file[i][p] # Unwritten =>
            read_page(i, p) = file[i][p]

\* A directory holds exactly the names linked and not unlinked, whatever
\* records were reused: _lookup finds the inode, and reading the directory
\* with a small buffer lists each name once.
DirectoryIsMap ==
    /\ \A n \in Name : lookup(n) = entries[n]
    /\ \A k \in 1 .. 2 :
          LET all == ReadAll(0, k) IN
          /\ ToSet(all) = {n \in Name : entries[n] # 0}
          /\ IsInjective(all)
=============================================================================
