----------------------------- MODULE MCStorage -----------------------------
(***************************************************************************)
(* Storage and files for TLC: the block layer with its AHCI driver, the    *)
(* ext2 driver, the page cache behind read and write, the descriptor       *)
(* tables, the directory tree and poll, each checked on its own in one     *)
(* run.                                                                    *)
(* "which" names the part that moves; the variables of the others keep a   *)
(* dummy value.                                                            *)
(***************************************************************************)
EXTENDS Integers, TLC

CONSTANTS NULL, t1, t2, f1, f2

VARIABLES which, port, cache, calls, pc, block, keep, running, req, slots,
    req_slots, wait, woken, issued, intr, scan, release, panicked, bitmap,
    free_blocks, ibitmap, free_inodes, blocks, ptrs, data, dir, ops, file,
    entries, tainted, page, length, pos, append, content, files, cloexec,
    procfd, refs, opens, leaked, child, held, fd, to, old, crash, fs, rename,
    next, prev, list, key, lcount, count, map, got, it, used, asked, events,
    revents, bp, at, ready, limit, expired, armed, ret, rounds, changes, seen,
    overridden, badbp, state, signal

allvars == <<which, port, cache, calls, pc, block, keep, running, req, slots,
    req_slots, wait, woken, issued, intr, scan, release, panicked, bitmap,
    free_blocks, ibitmap, free_inodes, blocks, ptrs, data, dir, ops, file,
    entries, tainted, page, length, pos, append, content, files, cloexec,
    procfd, refs, opens, leaked, child, held, fd, to, old, crash, fs, rename,
    next, prev, list, key, lcount, count, map, got, it, used, asked, events,
    revents, bp, at, ready, limit, expired, armed, ret, rounds, changes, seen,
    overridden, badbp, state, signal>>

\* More command slots than requests; block 5 is past the end of the disk.
A1 == INSTANCE Ahci WITH Thread <- {t1, t2}, NSlots <- 4, Block <- {0, 5}, EndBlk <- 5,
          MaxCalls <- 1, MayHang <- FALSE
\* Fewer slots than requests: callers wait for one.
A2 == INSTANCE Ahci WITH Thread <- {t1, t2}, NSlots <- 2, Block <- {0}, EndBlk <- 5,
          MaxCalls <- 2, MayHang <- FALSE
\* The port may stay busy until the timeout resets it.
A3 == INSTANCE Ahci WITH Thread <- {t1, t2}, NSlots <- 3, Block <- {0, 5}, EndBlk <- 5,
          MaxCalls <- 1, MayHang <- TRUE

\* Two groups; one direct block and blocks of two pointers, so that the pages
\* used are behind no, one, two and three indirections.
E == INSTANCE Ext2 WITH NDirect <- 1, NPtrs <- 2, NGroups <- 2, BlocksPerGroup <- 6,
          InodesPerGroup <- 1, Metadata <- {0, 1, 6}, Page <- {0, 2, 5, 7, 9}, Val <- {"v"},
          Name <- {"a", "bb", "cc"}, NameLen <- [a |-> 1, bb |-> 2, cc |-> 2],
          MaxRecords <- 3, MaxOps <- 6

\* Files of up to two pages of two bytes.
P == INSTANCE PageCache WITH PageSize <- 2, NPages <- 2, Byte <- {0, 1, 2}, MaxOps <- 3

\* Two threads of a process.
F1 == INSTANCE Files WITH Thread <- {t1, t2}, File <- {f1, f2}, MaxFd <- 3, MaxOps <- 2,
          SelfDup <- FALSE
\* A process of one thread.
F2 == INSTANCE Files WITH Thread <- {t1}, File <- {f1, f2}, MaxFd <- 3, MaxOps <- 5,
          SelfDup <- FALSE

\* A tree of three inodes, and a file system to mount.
N1 == INSTANCE Namei WITH NInodes <- 3, Path <- {<<"a">>, <<"a", "b">>, <<"..">>, <<"..", "a">>},
          MaxDepth <- 2, MaxOps <- 4, RemoveBusy <- FALSE, None <- NULL

\* Two buckets, one of them of two keys, and a buffer that holds one or two
\* names.
H1 == INSTANCE Hash WITH NElem <- 3, Key <- 1 .. 3, Length <- 2, HashFn <- <<0, 0, 1>>, RecLen <- <<1, 2, 1>>,
          BufLen <- 2, MaxRefs <- 1, MaxChanges <- 4, MaxLists <- 4
\* Objects that several users have looked up.
H2 == INSTANCE Hash WITH NElem <- 2, Key <- 1 .. 2, Length <- 2, HashFn <- <<0, 0>>, RecLen <- <<1, 1>>,
          BufLen <- 2, MaxRefs <- 3, MaxChanges <- 5, MaxLists <- 0

\* One descriptor, of every kind.
L1 == INSTANCE Poll WITH Fds <- <<"f">>, Kinds <- {"pipe", "pty", "inode", "udp", "raw", "keyboard",
          "tcp", "unix", "none", "bad"}, Timeouts <- {"none", "zero", "some"}, MaxRounds <- 2, MaxChanges <- 2
\* Two descriptors.
L2 == INSTANCE Poll WITH Fds <- <<"f", "g">>, Kinds <- {"inode", "unix"}, Timeouts <- {"none"},
          MaxRounds <- 1, MaxChanges <- 2

\* Only the variables of Ahci are in use.
OnlyAhci == bitmap = NULL /\ free_blocks = NULL /\ ibitmap = NULL /\
    free_inodes = NULL /\ blocks = NULL /\ ptrs = NULL /\ data = NULL /\
    dir = NULL /\ ops = NULL /\ file = NULL /\ entries = NULL /\ tainted = NULL
    /\ page = NULL /\ length = NULL /\ pos = NULL /\ append = NULL /\
    content = NULL /\ files = NULL /\ cloexec = NULL /\ procfd = NULL /\
    refs = NULL /\ opens = NULL /\ leaked = NULL /\ child = NULL /\ held = NULL
    /\ fd = NULL /\ to = NULL /\ old = NULL /\ crash = NULL /\ fs = NULL /\
    rename = NULL /\ next = NULL /\ prev = NULL /\ list = NULL /\ key = NULL /\
    lcount = NULL /\ count = NULL /\ map = NULL /\ got = NULL /\ it = NULL /\
    used = NULL /\ asked = NULL /\ events = NULL /\ revents = NULL /\ bp = NULL
    /\ at = NULL /\ ready = NULL /\ limit = NULL /\ expired = NULL /\
    armed = NULL /\ ret = NULL /\ rounds = NULL /\ changes = NULL /\ seen = NULL
    /\ overridden = NULL /\ badbp = NULL /\ state = NULL /\ signal = NULL
restAhci == <<bitmap, free_blocks, ibitmap, free_inodes, blocks, ptrs, data,
    dir, ops, file, entries, tainted, page, length, pos, append, content, files,
    cloexec, procfd, refs, opens, leaked, child, held, fd, to, old, crash, fs,
    rename, next, prev, list, key, lcount, count, map, got, it, used, asked,
    events, revents, bp, at, ready, limit, expired, armed, ret, rounds, changes,
    seen, overridden, badbp, state, signal>>

\* Only the variables of Ext2 are in use.
OnlyExt2 == port = NULL /\ cache = NULL /\ calls = NULL /\ pc = NULL /\
    block = NULL /\ keep = NULL /\ running = NULL /\ req = NULL /\ slots = NULL
    /\ req_slots = NULL /\ wait = NULL /\ woken = NULL /\ issued = NULL /\
    intr = NULL /\ scan = NULL /\ release = NULL /\ panicked = NULL /\
    page = NULL /\ length = NULL /\ pos = NULL /\ append = NULL /\
    content = NULL /\ files = NULL /\ cloexec = NULL /\ procfd = NULL /\
    refs = NULL /\ opens = NULL /\ leaked = NULL /\ child = NULL /\ held = NULL
    /\ fd = NULL /\ to = NULL /\ old = NULL /\ crash = NULL /\ fs = NULL /\
    rename = NULL /\ next = NULL /\ prev = NULL /\ list = NULL /\ key = NULL /\
    lcount = NULL /\ count = NULL /\ map = NULL /\ got = NULL /\ it = NULL /\
    used = NULL /\ asked = NULL /\ events = NULL /\ revents = NULL /\ bp = NULL
    /\ at = NULL /\ ready = NULL /\ limit = NULL /\ expired = NULL /\
    armed = NULL /\ ret = NULL /\ rounds = NULL /\ changes = NULL /\ seen = NULL
    /\ overridden = NULL /\ badbp = NULL /\ state = NULL /\ signal = NULL
restExt2 == <<port, cache, calls, pc, block, keep, running, req, slots,
    req_slots, wait, woken, issued, intr, scan, release, panicked, page, length,
    pos, append, content, files, cloexec, procfd, refs, opens, leaked, child,
    held, fd, to, old, crash, fs, rename, next, prev, list, key, lcount, count,
    map, got, it, used, asked, events, revents, bp, at, ready, limit, expired,
    armed, ret, rounds, changes, seen, overridden, badbp, state, signal>>

\* Only the variables of PageCache are in use.
OnlyCache == port = NULL /\ cache = NULL /\ calls = NULL /\ pc = NULL /\
    keep = NULL /\ running = NULL /\ req = NULL /\ slots = NULL /\
    req_slots = NULL /\ wait = NULL /\ woken = NULL /\ issued = NULL /\
    intr = NULL /\ scan = NULL /\ release = NULL /\ panicked = NULL /\
    bitmap = NULL /\ free_blocks = NULL /\ ibitmap = NULL /\ free_inodes = NULL
    /\ blocks = NULL /\ ptrs = NULL /\ data = NULL /\ dir = NULL /\ file = NULL
    /\ entries = NULL /\ tainted = NULL /\ files = NULL /\ cloexec = NULL /\
    procfd = NULL /\ refs = NULL /\ opens = NULL /\ leaked = NULL /\
    child = NULL /\ held = NULL /\ fd = NULL /\ to = NULL /\ old = NULL /\
    crash = NULL /\ fs = NULL /\ rename = NULL /\ next = NULL /\ prev = NULL /\
    list = NULL /\ key = NULL /\ lcount = NULL /\ count = NULL /\ map = NULL /\
    got = NULL /\ it = NULL /\ used = NULL /\ asked = NULL /\ events = NULL /\
    revents = NULL /\ bp = NULL /\ at = NULL /\ ready = NULL /\ limit = NULL /\
    expired = NULL /\ armed = NULL /\ ret = NULL /\ rounds = NULL /\
    changes = NULL /\ seen = NULL /\ overridden = NULL /\ badbp = NULL /\
    state = NULL /\ signal = NULL
restCache == <<port, cache, calls, pc, keep, running, req, slots, req_slots,
    wait, woken, issued, intr, scan, release, panicked, bitmap, free_blocks,
    ibitmap, free_inodes, blocks, ptrs, data, dir, file, entries, tainted,
    files, cloexec, procfd, refs, opens, leaked, child, held, fd, to, old,
    crash, fs, rename, next, prev, list, key, lcount, count, map, got, it, used,
    asked, events, revents, bp, at, ready, limit, expired, armed, ret, rounds,
    changes, seen, overridden, badbp, state, signal>>

\* Only the variables of Files are in use.
OnlyFiles == port = NULL /\ cache = NULL /\ calls = NULL /\ block = NULL /\
    keep = NULL /\ running = NULL /\ req = NULL /\ slots = NULL /\
    req_slots = NULL /\ wait = NULL /\ woken = NULL /\ issued = NULL /\
    intr = NULL /\ scan = NULL /\ release = NULL /\ panicked = NULL /\
    bitmap = NULL /\ free_blocks = NULL /\ ibitmap = NULL /\ free_inodes = NULL
    /\ blocks = NULL /\ ptrs = NULL /\ data = NULL /\ dir = NULL /\ file = NULL
    /\ entries = NULL /\ tainted = NULL /\ page = NULL /\ length = NULL /\
    pos = NULL /\ append = NULL /\ content = NULL /\ fs = NULL /\ rename = NULL
    /\ next = NULL /\ prev = NULL /\ list = NULL /\ key = NULL /\ lcount = NULL
    /\ count = NULL /\ map = NULL /\ got = NULL /\ it = NULL /\ used = NULL /\
    asked = NULL /\ events = NULL /\ revents = NULL /\ bp = NULL /\ at = NULL /\
    ready = NULL /\ limit = NULL /\ expired = NULL /\ armed = NULL /\ ret = NULL
    /\ rounds = NULL /\ changes = NULL /\ seen = NULL /\ overridden = NULL /\
    badbp = NULL /\ state = NULL /\ signal = NULL
restFiles == <<port, cache, calls, block, keep, running, req, slots, req_slots,
    wait, woken, issued, intr, scan, release, panicked, bitmap, free_blocks,
    ibitmap, free_inodes, blocks, ptrs, data, dir, file, entries, tainted, page,
    length, pos, append, content, fs, rename, next, prev, list, key, lcount,
    count, map, got, it, used, asked, events, revents, bp, at, ready, limit,
    expired, armed, ret, rounds, changes, seen, overridden, badbp, state,
    signal>>

\* Only the variables of Namei are in use.
OnlyNames == port = NULL /\ cache = NULL /\ calls = NULL /\ pc = NULL /\
    block = NULL /\ keep = NULL /\ running = NULL /\ req = NULL /\ slots = NULL
    /\ req_slots = NULL /\ wait = NULL /\ woken = NULL /\ issued = NULL /\
    intr = NULL /\ scan = NULL /\ release = NULL /\ panicked = NULL /\
    bitmap = NULL /\ free_blocks = NULL /\ ibitmap = NULL /\ free_inodes = NULL
    /\ blocks = NULL /\ ptrs = NULL /\ data = NULL /\ dir = NULL /\ file = NULL
    /\ entries = NULL /\ tainted = NULL /\ page = NULL /\ length = NULL /\
    pos = NULL /\ append = NULL /\ content = NULL /\ files = NULL /\
    cloexec = NULL /\ procfd = NULL /\ refs = NULL /\ opens = NULL /\
    leaked = NULL /\ child = NULL /\ held = NULL /\ fd = NULL /\ to = NULL /\
    old = NULL /\ crash = NULL /\ next = NULL /\ prev = NULL /\ list = NULL /\
    key = NULL /\ lcount = NULL /\ count = NULL /\ map = NULL /\ got = NULL /\
    it = NULL /\ used = NULL /\ asked = NULL /\ events = NULL /\ revents = NULL
    /\ bp = NULL /\ at = NULL /\ ready = NULL /\ limit = NULL /\ expired = NULL
    /\ armed = NULL /\ ret = NULL /\ rounds = NULL /\ changes = NULL /\
    seen = NULL /\ overridden = NULL /\ badbp = NULL /\ state = NULL /\
    signal = NULL
restNames == <<port, cache, calls, pc, block, keep, running, req, slots,
    req_slots, wait, woken, issued, intr, scan, release, panicked, bitmap,
    free_blocks, ibitmap, free_inodes, blocks, ptrs, data, dir, file, entries,
    tainted, page, length, pos, append, content, files, cloexec, procfd, refs,
    opens, leaked, child, held, fd, to, old, crash, next, prev, list, key,
    lcount, count, map, got, it, used, asked, events, revents, bp, at, ready,
    limit, expired, armed, ret, rounds, changes, seen, overridden, badbp, state,
    signal>>

\* Only the variables of Hash are in use.
OnlyHash == port = NULL /\ cache = NULL /\ calls = NULL /\ pc = NULL /\
    block = NULL /\ keep = NULL /\ running = NULL /\ req = NULL /\ slots = NULL
    /\ req_slots = NULL /\ wait = NULL /\ woken = NULL /\ issued = NULL /\
    intr = NULL /\ scan = NULL /\ release = NULL /\ panicked = NULL /\
    bitmap = NULL /\ free_blocks = NULL /\ ibitmap = NULL /\ free_inodes = NULL
    /\ blocks = NULL /\ ptrs = NULL /\ data = NULL /\ ops = NULL /\ file = NULL
    /\ entries = NULL /\ tainted = NULL /\ page = NULL /\ length = NULL /\
    pos = NULL /\ append = NULL /\ content = NULL /\ files = NULL /\
    cloexec = NULL /\ procfd = NULL /\ opens = NULL /\ leaked = NULL /\
    child = NULL /\ held = NULL /\ fd = NULL /\ to = NULL /\ old = NULL /\
    crash = NULL /\ fs = NULL /\ rename = NULL /\ asked = NULL /\ events = NULL
    /\ revents = NULL /\ bp = NULL /\ at = NULL /\ ready = NULL /\ limit = NULL
    /\ expired = NULL /\ armed = NULL /\ ret = NULL /\ rounds = NULL /\
    changes = NULL /\ seen = NULL /\ overridden = NULL /\ badbp = NULL /\
    state = NULL /\ signal = NULL
restHash == <<port, cache, calls, pc, block, keep, running, req, slots,
    req_slots, wait, woken, issued, intr, scan, release, panicked, bitmap,
    free_blocks, ibitmap, free_inodes, blocks, ptrs, data, ops, file, entries,
    tainted, page, length, pos, append, content, files, cloexec, procfd, opens,
    leaked, child, held, fd, to, old, crash, fs, rename, asked, events, revents,
    bp, at, ready, limit, expired, armed, ret, rounds, changes, seen,
    overridden, badbp, state, signal>>

\* Only the variables of Poll are in use.
OnlyPoll == port = NULL /\ cache = NULL /\ calls = NULL /\ block = NULL /\
    keep = NULL /\ running = NULL /\ req = NULL /\ slots = NULL /\
    req_slots = NULL /\ wait = NULL /\ woken = NULL /\ issued = NULL /\
    intr = NULL /\ scan = NULL /\ release = NULL /\ panicked = NULL /\
    bitmap = NULL /\ free_blocks = NULL /\ ibitmap = NULL /\ free_inodes = NULL
    /\ blocks = NULL /\ ptrs = NULL /\ data = NULL /\ dir = NULL /\ ops = NULL
    /\ entries = NULL /\ tainted = NULL /\ page = NULL /\ length = NULL /\
    pos = NULL /\ append = NULL /\ content = NULL /\ files = NULL /\
    cloexec = NULL /\ procfd = NULL /\ refs = NULL /\ opens = NULL /\
    leaked = NULL /\ child = NULL /\ fd = NULL /\ to = NULL /\ old = NULL /\
    crash = NULL /\ fs = NULL /\ rename = NULL /\ next = NULL /\ prev = NULL /\
    list = NULL /\ key = NULL /\ lcount = NULL /\ count = NULL /\ map = NULL /\
    got = NULL /\ it = NULL /\ used = NULL
restPoll == <<port, cache, calls, block, keep, running, req, slots, req_slots,
    wait, woken, issued, intr, scan, release, panicked, bitmap, free_blocks,
    ibitmap, free_inodes, blocks, ptrs, data, dir, ops, entries, tainted, page,
    length, pos, append, content, files, cloexec, procfd, refs, opens, leaked,
    child, fd, to, old, crash, fs, rename, next, prev, list, key, lcount, count,
    map, got, it, used>>

MCInit ==
    \/ which = "plenty" /\ A1!AhciInit /\ OnlyAhci
    \/ which = "saturated" /\ A2!AhciInit /\ OnlyAhci
    \/ which = "hang" /\ A3!AhciInit /\ OnlyAhci
    \/ which = "ext2" /\ E!Ext2Init /\ OnlyExt2
    \/ which = "cache" /\ P!PageCacheInit /\ OnlyCache
    \/ which = "threads" /\ F1!FilesInit /\ OnlyFiles
    \/ which = "alone" /\ F2!FilesInit /\ OnlyFiles
    \/ which = "names" /\ N1!NameiInit /\ OnlyNames
    \/ which = "table" /\ H1!HashInit /\ OnlyHash
    \/ which = "idmap" /\ H2!HashInit /\ OnlyHash
    \/ which = "poll1" /\ L1!PollInit /\ OnlyPoll
    \/ which = "poll2" /\ L2!PollInit /\ OnlyPoll
MCNext ==
    /\ UNCHANGED which
    /\ \/ which = "plenty" /\ A1!AhciNext /\ UNCHANGED restAhci
       \/ which = "saturated" /\ A2!AhciNext /\ UNCHANGED restAhci
       \/ which = "hang" /\ A3!AhciNext /\ UNCHANGED restAhci
       \/ which = "ext2" /\ E!Ext2Next /\ UNCHANGED restExt2
       \/ which = "cache" /\ P!PageCacheNext /\ UNCHANGED restCache
       \/ which = "threads" /\ F1!FilesNext /\ UNCHANGED restFiles
       \/ which = "alone" /\ F2!FilesNext /\ UNCHANGED restFiles
       \/ which = "names" /\ N1!NameiNext /\ UNCHANGED restNames
       \/ which = "table" /\ H1!HashNext /\ UNCHANGED restHash
       \/ which = "idmap" /\ H2!HashNext /\ UNCHANGED restHash
       \/ which = "poll1" /\ L1!PollNext /\ UNCHANGED restPoll
       \/ which = "poll2" /\ L2!PollNext /\ UNCHANGED restPoll
MCSpec == MCInit /\ [][MCNext]_allvars

\* Module Ahci: the command of a slot belongs to the request recorded for it,
\* and a request that is answered has its data (drivers/ahci/main.c:53-72);
\* with enough slots the assertions and the panic of __do_request never fire
\* (block.c:159-168).
RequestsAnswered ==
    /\ which = "plenty" => A1!CommandOwned /\ A1!AnsweredMeansFilled
    /\ which = "saturated" => A2!CommandOwned /\ A2!AnsweredMeansFilled
    /\ which = "hang" => A3!CommandOwned /\ A3!AnsweredMeansFilled
    /\ which = "plenty" => A1!RequestWaitedFor
\* Module Files: references to files add up; for a process of one thread, open
\* and close callbacks are balanced and the links in /proc follow the
\* descriptors (file.c).
FilesAddUp ==
    /\ which = "threads" => F1!FileRefsAddUp
    /\ which = "alone" => F2!FileRefsAddUp /\ F2!OpensMatchDescriptors /\ F2!LinksFollowDescriptors
\* Module Namei: link counts count names (fs/link.c, fs/dirent.c), and while
\* nothing in use is removed ramfs finds the inodes it is asked for
\* (fs/ramfs.c).
NamesAddUp == which = "names" => N1!LinksMatchNames /\ N1!RamfsFindsInode
\* Module Hash: the lists are the map that the calls made, an iteration comes
\* to every element once, and a listing to every name once (hash.c,
\* linkedlist.c, ramfs.c:216-253).
TableFaithful ==
    /\ which = "table" => H1!TableIsMap /\ H1!IterationExact /\ H1!ListingComplete
    /\ which = "idmap" => H2!TableIsMap /\ H2!IterationExact /\ H2!ListingComplete

\* Files are interchangeable.
Symmetry == Permutations({f1, f2})
=============================================================================
