------------------------------ MODULE PageCache ------------------------------
(***************************************************************************)
(* Reading and writing one regular file of ramfs: the system calls that    *)
(* move data (kernel/sys/open.c), inode_do_read_data and                   *)
(* inode_do_write_data (kernel/fs/inoderw.c) over the page cache           *)
(* (kernel/fs/inode.c), and the blocks ramfs keeps behind it.              *)
(*                                                                         *)
(* The least recently used list may drop any page nobody uses at any       *)
(* moment (module KobjLru); a dropped page is loaded again when needed.    *)
(* One thread uses the file, through one open file description.            *)
(***************************************************************************)
EXTENDS Integers, Sequences, FiniteSets

CONSTANTS
    PageSize,   \* arch_mm_page_size(0), in bytes of the model
    NPages,     \* pages of the largest file
    Byte,       \* what a byte can be, 0 included
    MaxOps,     \* bound: system calls
    NULL

VARIABLES
    block,      \* ramfs_inode.data: per page, the block behind it or NULL
    page,       \* inodepage_lru: per page, [data, dirty] or NULL
    length,     \* inode->length
    pos,        \* file->pos
    append,     \* O_APPEND in file->flags
    ops,        \* calls so far, for the bound
    content     \* history: what each byte was last given, NULL after a
                \* truncation took it away

vars == <<block, page, length, pos, append, ops, content>>

PageNr == 0 .. NPages - 1
MaxLen == NPages * PageSize
Zeros == [i \in 0 .. PageSize - 1 |-> 0]

PageCacheInit ==
    /\ block = [p \in PageNr |-> NULL]
    /\ page = [p \in PageNr |-> NULL]
    /\ length = 0
    /\ pos = 0
    /\ append \in BOOLEAN
    /\ ops = 0
    /\ content = [b \in 0 .. MaxLen - 1 |-> 0]

-----------------------------------------------------------------------------
\* _read_page: a block that is not there is allocated, cleared.
read_page(bl, p) == IF bl[p] = NULL THEN Zeros ELSE bl[p]

\* _inode_page_initialize: what is past the end of the file is cleared.
Load(bl, p, len) ==
    [i \in 0 .. PageSize - 1 |-> IF p * PageSize + i < len THEN read_page(bl, p)[i] ELSE 0]

\* _read_page leaves an empty block behind a page that had none.
Touched(bl, p, len) ==
    IF bl[p] = NULL /\ p * PageSize < len THEN [bl EXCEPT ![p] = Zeros] ELSE bl

\* inode_get_page
get_page(pg, bl, p, len) ==
    IF pg[p] # NULL THEN pg[p] ELSE [data |-> Load(bl, p, len), dirty |-> FALSE]

Stored(data) == [data |-> data, dirty |-> TRUE]

\* The pages an access to [off, off + n) goes through.
Span(off, n) == {p \in PageNr : p * PageSize < off + n /\ off < (p + 1) * PageSize}

\* inode_do_write_data of n bytes v at off: page by page, the length growing
\* with each.  Only the first page of a write can start before the old end,
\* and every page is loaded with the length reached by the pages before it.
inode_do_write_data(off, n, v) ==
    LET lenAt(p) == IF p * PageSize > off /\ p * PageSize > length THEN p * PageSize ELSE length
        bl == [p \in PageNr |-> IF p \in Span(off, n) /\ page[p] = NULL
                                THEN Touched(block, p, lenAt(p))[p] ELSE block[p]] IN
    /\ page' = [p \in PageNr |->
                  IF p \notin Span(off, n) THEN page[p]
                  ELSE Stored([i \in 0 .. PageSize - 1 |->
                                 IF p * PageSize + i \in off .. off + n - 1 THEN v
                                 ELSE get_page(page, block, p, lenAt(p)).data[i]])]
    /\ block' = bl
    /\ length' = IF off + n > length THEN off + n ELSE length
    /\ content' = [b \in 0 .. MaxLen - 1 |-> IF b \in off .. off + n - 1 THEN v ELSE content[b]]

\* How much inode_do_read_data reads.
Readable(off, n) == IF off >= length THEN 0 ELSE IF off + n > length THEN length - off ELSE n

\* inode_do_read_data: the pages it goes through are loaded.
inode_do_read_data(off, n) ==
    LET sp == IF Readable(off, n) = 0 THEN {} ELSE Span(off, Readable(off, n)) IN
    /\ page' = [p \in PageNr |-> IF p \in sp THEN get_page(page, block, p, length) ELSE page[p]]
    /\ block' = [p \in PageNr |-> IF p \in sp /\ page[p] = NULL
                                  THEN Touched(block, p, length)[p] ELSE block[p]]
    /\ UNCHANGED <<length, content>>

-----------------------------------------------------------------------------
(***************************************************************************)
(* System calls.                                                           *)
(***************************************************************************)

Call == ops < MaxOps /\ ops' = ops + 1

\* Where sys_write writes.
WriteOffset == IF append THEN length ELSE pos

\* sys_write
sys_write(n, v) ==
    /\ Call
    /\ WriteOffset + n <= MaxLen
    /\ inode_do_write_data(WriteOffset, n, v)
    /\ pos' = WriteOffset + n
    /\ UNCHANGED append

\* sys_pwrite
sys_pwrite(off, n, v) ==
    /\ Call
    /\ off + n <= MaxLen
    /\ inode_do_write_data(off, n, v)
    /\ UNCHANGED <<pos, append>>

\* sys_read
sys_read(n) ==
    /\ Call
    /\ inode_do_read_data(pos, n)
    /\ pos' = pos + Readable(pos, n)
    /\ UNCHANGED append

\* sys_pread
sys_pread(off, n) ==
    /\ Call
    /\ inode_do_read_data(off, n)
    /\ UNCHANGED <<pos, append>>

\* The calls on vectors make the call above for one vector after the other;
\* others may come between two vectors.
sys_writev(n, v) == sys_write(n, v)
sys_pwritev(off, n, v) == sys_pwrite(off, n, v)
sys_readv(n) == sys_read(n)
sys_preadv(off, n) == sys_pread(off, n)

\* sys_lseek; EINVAL leaves the position.
sys_lseek(off, whence) ==
    LET to == CASE whence = "SET" -> off
                [] whence = "CUR" -> pos + off
                [] whence = "END" -> length + off IN
    /\ Call
    /\ to <= MaxLen
    /\ pos' = IF to < 0 THEN pos ELSE to
    /\ UNCHANGED <<block, page, length, append, content>>

\* file_truncate (ftruncate, or open with O_TRUNC and len = 0): only the length
\* changes; pages and blocks keep what they hold.
file_truncate(len) ==
    /\ Call
    /\ length' = len
    /\ pos' = IF pos > len THEN len ELSE pos
    /\ content' = [b \in 0 .. MaxLen - 1 |-> IF b >= len /\ b < length THEN NULL ELSE content[b]]
    /\ UNCHANGED <<block, page, append>>

\* _inode_page_release: the least recently used list gives the page up, which
\* is written to its block (_write_page of ramfs) if it is dirty.
inode_page_release(p) ==
    /\ page[p] # NULL
    /\ block' = IF page[p].dirty THEN [block EXCEPT ![p] = page[p].data] ELSE block
    /\ page' = [page EXCEPT ![p] = NULL]
    /\ UNCHANGED <<length, pos, append, ops, content>>

PageCacheNext ==
    \/ \E n \in 1 .. PageSize + 1, v \in Byte \ {0} :
          \/ sys_write(n, v) \/ sys_writev(n, v)
          \/ \E off \in 0 .. MaxLen - 1 : sys_pwrite(off, n, v) \/ sys_pwritev(off, n, v)
    \/ \E n \in 1 .. PageSize + 1 : sys_read(n) \/ sys_readv(n)
    \/ \E off \in {0, PageSize} : sys_pread(off, MaxLen) \/ sys_preadv(off, MaxLen)
    \/ \E off \in {-1, 0, 2}, whence \in {"SET", "CUR", "END"} : sys_lseek(off, whence)
    \/ \E len \in {0, 1} : file_truncate(len)
    \/ \E p \in PageNr : inode_page_release(p)

PageCacheSpec == PageCacheInit /\ [][PageCacheNext]_vars

-----------------------------------------------------------------------------
\* What a read returns for byte b.
ReadByte(b) == get_page(page, block, b \div PageSize, length).data[b % PageSize]

\* Every byte of the file reads as what was last written to it, and as zero if
\* nothing was, whichever pages were dropped and loaded again in between.
\* Bytes that a truncation took away and a later write past the end brought
\* back are left out: the code does not clear them.
ReadsLastWritten ==
    \A b \in 0 .. length - 1 : content[b] # NULL => ReadByte(b) = content[b]
=============================================================================
