-------------------------------- MODULE Namei --------------------------------
(***************************************************************************)
(* Names: path resolution (kernel/fs/path.c), directories and links        *)
(* (kernel/fs/link.c, kernel/fs/dirent.c, kernel/fs/inode.c), the ramfs    *)
(* driver that stores them (kernel/fs/ramfs.c), mounting                   *)
(* (kernel/fs/filesystem.c) and the system calls on paths                  *)
(* (kernel/sys/path.c, kernel/sys/open.c).                                 *)
(*                                                                         *)
(* Calls of several processes with one working directory are interleaved;  *)
(* a call is one step, except rename, which is three.  The cache of        *)
(* directory entries is below its limit of 100, so nothing is evicted.     *)
(***************************************************************************)
EXTENDS Integers, FiniteSets, Sequences, SequencesExt

CONSTANTS
    NInodes,    \* bound: inodes of the root file system
    Path,       \* the paths used: sequences of names, "/" first if absolute
    MaxDepth,   \* symbolic links followed before ELOOP (64 in the code)
    MaxOps,     \* bound: system calls
    RemoveBusy, \* whether the working directory or the root of a file system
                \* may be removed
    None

VARIABLES
    fs,         \* the state of the file systems and their caches
    rename,     \* the rename in progress, or None
    ops         \* system calls so far, for the bound

vars == <<fs, rename, ops>>

Root == 1
Mounted == NInodes + 1              \* the root of the second file system
Inode == 1 .. NInodes + 1
FsOf(i) == IF i = Mounted THEN 2 ELSE 1
RootOf(f) == IF f = 2 THEN Mounted ELSE Root

\* An inode of ramfs: stored says it is in the table of its file system.
Blank == [kind |-> "none", links |-> 0, ent |-> <<>>, target |-> <<>>, stored |-> FALSE]
\* _ramfs_create: a root directory has "." and "..".
RootNode(i) ==
    [kind |-> "dir", links |-> 2, ent |-> [n \in {".", ".."} |-> i], target |-> <<>>,
     stored |-> TRUE]

NameiInit ==
    /\ fs = [node |-> [i \in Inode |-> IF i \in {Root, Mounted} THEN RootNode(i) ELSE Blank],
             next |-> 2,                       \* next_id of the root file system
             cached |-> {},                    \* dirents in dirent_lru: <<directory, name>>
             opened |-> {},                    \* dirents held by open files
             gone |-> {},                      \* inodes in use with INODE_FLAG_UNCACHED
             pinned |-> {Root},       \* inodes that are never put
             cwd |-> Root,
             mount |-> [i \in Inode |-> 0],    \* inode->mount
             up |-> [f \in {1, 2} |-> 0],      \* fs->up_mount
             lost |-> [i \in Inode |-> 0],     \* history: entries freed with their directory
             crash |-> FALSE]
    /\ rename = None
    /\ ops = 0

-----------------------------------------------------------------------------
(***************************************************************************)
(* Inodes and directory entries.  Every operator takes the state s of the  *)
(* file systems and returns the one after it.                              *)
(***************************************************************************)

Names(s, d) == DOMAIN s.node[d].ent
IsDir(s, i) == s.node[i].kind = "dir"
Crash(s) == [s EXCEPT !.crash = TRUE]

\* Op of what one step returned, for the steps that follow it.
Then(x, Op(_)) == CHOOSE y \in {Op(v) : v \in {x}} : TRUE

\* The references to the inode object of i between two system calls.
Held(s, i) ==
    \/ i \in s.pinned \/ s.cwd = i
    \/ \E n \in Names(s, i) : <<i, n>> \in s.cached
    \/ \E o \in s.opened : o.dir = i

\* _inode_put and release_inode: the inode is freed, and the entries of a
\* directory with it; the links of what they name are not counted down.
release_inode(s, i) ==
    IF ~s.node[i].stored THEN Crash(s)
    ELSE [s EXCEPT !.node[i] = [Blank EXCEPT !.kind = s.node[i].kind],
                   !.gone = @ \ {i},
                   !.lost = [j \in Inode |->
                       IF j = i THEN 0
                       ELSE @[j] + Cardinality({n \in Names(s, i) : s.node[i].ent[n] = j})]]

\* inode_put: without links the object leaves the cache, and the last
\* reference frees the inode.
inode_put(s, i) ==
    IF s.node[i].links > 0 THEN s
    ELSE IF Held(s, i) THEN [s EXCEPT !.gone = @ \cup {i}]
    ELSE release_inode(s, i)

\* _dirent_put of an unlinked entry that named i in directory d.
dirent_free(s, d, i) ==
    Then(inode_put([s EXCEPT !.node[i].links = @ - 1], i),
         LAMBDA s1 : IF d = i THEN s1 ELSE inode_put(s1, d))

\* dirent_lookup: from the cache or, with _dirent_initialize, from the driver.
\* The directory's inode is looked up by number: when its object has left the
\* cache a second one is read, and released with the same links of 0.
dirent_lookup(s, d, n) ==
    IF <<d, n>> \in s.cached THEN s
    ELSE IF ~s.node[d].stored \/ (d \in s.gone /\ n \in Names(s, d)) THEN Crash(s)
    ELSE IF d \in s.gone THEN [release_inode(s, d) EXCEPT !.gone = s.gone]
    ELSE IF n \in Names(s, d) THEN [s EXCEPT !.cached = @ \cup {<<d, n>>}]
    ELSE s

Found(s, d, n) == <<d, n>> \in s.cached

\* dirent_get_inode: what is mounted on the inode, and for ".." what the root
\* of a mounted file system is mounted on.
dirent_get_inode(s, d, n) ==
    LET i == s.node[d].ent[n]
        m == IF s.mount[i] # 0 THEN RootOf(s.mount[i]) ELSE i IN
    IF n = ".." /\ m = RootOf(FsOf(m)) /\ m # Root THEN s.up[FsOf(m)] ELSE m

-----------------------------------------------------------------------------
(***************************************************************************)
(* Links.  A result is a record of the state and the error.                *)
(***************************************************************************)

Result(s, e) == [s |-> s, err |-> e]

\* Mutant: the new name is not counted.
LinksAfter_Same(n) == n

\* target->links++
LinksAfter(n) == n + 1

\* fs_link: d/n becomes a name of t.
fs_link(s, d, n, t) ==
    IF ~IsDir(s, d) THEN Result(s, "ENOTDIR")
    ELSE IF FsOf(d) # FsOf(t) THEN Result(s, "EXDEV")
    ELSE IF ~s.node[d].stored THEN Result(Crash(s), "EIO")
    ELSE IF n \in Names(s, d) THEN Result(s, "EEXIST")
    ELSE LET s1 == [s EXCEPT !.node[d].ent = [x \in Names(s, d) \cup {n} |->
                                 IF x = n THEN t ELSE s.node[d].ent[x]]] IN
         Result([s1 EXCEPT !.node[t].links = LinksAfter(@)], "ok")

\* __unlink and the dirent_put after it: the driver forgets the name, and
\* the last holder of the dirent counts the link down.
unlink_name(s, d, n) ==
    LET i == s.node[d].ent[n]
        inuse == {o \in s.opened : o.dir = d /\ o.name = n /\ ~o.unlinked}
        s1 == [s EXCEPT !.node[d].ent = [x \in Names(s, d) \ {n} |-> s.node[d].ent[x]],
                        !.cached = @ \ {<<d, n>>},
                        !.opened = (@ \ inuse) \cup {[o EXCEPT !.unlinked = TRUE] : o \in inuse}] IN
    IF n \notin Names(s, d) THEN s
    ELSE IF inuse # {} THEN s1 ELSE Then(s1, LAMBDA v : dirent_free(v, d, i))

\* fs_unlink
fs_unlink(s, d, n) ==
    IF ~IsDir(s, d) THEN Result(s, "ENOTDIR")
    ELSE Then(dirent_lookup(s, d, n), LAMBDA s1 :
         IF s1.crash \/ ~Found(s1, d, n) THEN Result(s1, "ENOENT")
         ELSE IF IsDir(s1, dirent_get_inode(s1, d, n)) THEN Result(s1, "EISDIR")
         ELSE Result(unlink_name(s1, d, n), "ok"))

\* __directory_empty: only entries whose dirent is cached are seen.
directory_empty(s, i) == \A n \in Names(s, i) \ {".", ".."} : <<i, n>> \notin s.cached

\* fs_rmdir from where both dots of t = d/n were found: they are unlinked while
\* t is held, and then its name is.
remove_directory(s, d, n, t) ==
    Then(unlink_name([s EXCEPT !.pinned = @ \cup {t}], t, "."), LAMBDA s1 :
    Then(unlink_name(s1, t, ".."), LAMBDA s2 :
    Then(inode_put([s2 EXCEPT !.pinned = s.pinned], t), LAMBDA s3 :
         Result(unlink_name(s3, d, n), "ok"))))

\* fs_rmdir
fs_rmdir(s, d, n) ==
    IF ~IsDir(s, d) THEN Result(s, "ENOTDIR")
    ELSE Then(dirent_lookup(s, d, n), LAMBDA s1 :
         IF s1.crash \/ ~Found(s1, d, n) THEN Result(s1, "ENOENT")
         ELSE Then(dirent_get_inode(s1, d, n), LAMBDA t :
              IF ~IsDir(s1, t) THEN Result(s1, "ENOTDIR")
              ELSE Then(dirent_lookup(s1, t, ".."), LAMBDA s2 :
                   IF s2.crash \/ ~Found(s2, t, "..") THEN Result(s2, "EIO")
                   ELSE Then(dirent_lookup(s2, t, "."), LAMBDA s3 :
                        IF s3.crash \/ ~Found(s3, t, ".") THEN Result(s3, "EIO")
                        ELSE IF ~directory_empty(s3, t) THEN Result(s3, "ENOTEMPTY")
                        ELSE remove_directory(s3, d, n, t)))))

-----------------------------------------------------------------------------
(***************************************************************************)
(* Path resolution.                                                        *)
(***************************************************************************)

\* What fs_path_resolve returns: the directory and name of the dirent, the
\* inode, and whether it was created.
Resolved(s, e, d, n, i, did) == [s |-> s, err |-> e, dir |-> d, name |-> n, ino |-> i, did |-> did]
Failed(s, e) == Resolved(s, e, 0, "", 0, FALSE)

\* __create_last.  A directory gets "." and ".." before its name is linked;
\* when that fails, an inode with links stays.
create_last(s, d, n, kind) ==
    LET i == s.next
        s0 == [s EXCEPT !.next = i + 1,
                        !.node[i] = [Blank EXCEPT !.kind = kind, !.stored = TRUE]]
        Dots(s1) == Then(fs_link(s1, i, ".", i).s, LAMBDA s2 : fs_link(s2, i, "..", d).s) IN
    IF FsOf(d) = 2 \/ s.next > NInodes THEN Failed(s, "ENOSPC")     \* the bound
    ELSE Then(IF kind = "dir" THEN Then(s0, Dots) ELSE s0, LAMBDA s1 :
         Then(fs_link(s1, d, n, i), LAMBDA l :
              IF l.err # "ok" THEN Failed(inode_put(l.s, i), l.err)
              ELSE Resolved(dirent_lookup(l.s, d, n), "ok", d, n, i, TRUE)))

RECURSIVE Walk(_, _, _, _, _, _, _)

\* fs_path_resolve from inode d; flags is a subset of {"create", "nofollow"}.
fs_path_resolve(s, path, d, flags, kind, depth) ==
    LET fl == IF "create" \in flags THEN flags \cup {"nofollow"} ELSE flags IN
    IF path # <<>> /\ path[1] = "/"
    THEN Walk(s, Tail(path), Root, fl, kind, depth, <<0, "/">>)
    ELSE Walk(s, path, d, fl, kind, depth, <<0, "">>)

\* One component after the other; a symbolic link is resolved from the
\* directory it is in.
Walk(s, path, d, flags, kind, depth, at) ==
    IF path = <<>> THEN Resolved(s, "ok", at[1], at[2], d, FALSE)
    ELSE
    LET n == Head(path)
        last == Len(path) = 1 IN
    Then(IF IsDir(s, d) THEN dirent_lookup(s, d, n) ELSE s, LAMBDA s1 :
         IF s1.crash THEN Failed(s1, "EIO")
         ELSE IF ~IsDir(s, d) \/ ~Found(s1, d, n)
         THEN IF last /\ "create" \in flags THEN create_last(s1, d, n, kind)
              ELSE Failed(s1, IF IsDir(s, d) THEN "ENOENT" ELSE "ENOTDIR")
         ELSE Then(dirent_get_inode(s1, d, n), LAMBDA i :
              IF i = 0 THEN Failed(s1, "EIO")
              ELSE IF s1.node[i].kind # "lnk" \/ (last /\ "nofollow" \in flags)
              THEN Walk(s1, Tail(path), i, flags, kind, depth, <<d, n>>)
              ELSE IF depth >= MaxDepth THEN Failed(s1, "ELOOP")
              ELSE Then(fs_path_resolve(s1, s1.node[i].target, d, {}, kind, depth + 1), LAMBDA link :
                   IF link.err # "ok" THEN link
                   ELSE Walk(link.s, Tail(path), link.ino, flags, kind, depth,
                             <<link.dir, link.name>>))))

\* The part before the last '/': cutting "/a" leaves the empty path, which
\* resolves to the working directory.
Parent(path) == IF Len(path) = 2 /\ path[1] = "/" THEN <<>> ELSE Front(path)

-----------------------------------------------------------------------------
(***************************************************************************)
(* The system calls.                                                       *)
(***************************************************************************)

\* sys_unlinkat
sys_unlinkat(s, path, rmdir) ==
    Then(fs_path_resolve(s, Parent(path), s.cwd, {}, "reg", 0), LAMBDA r :
         IF r.err # "ok" THEN Result(r.s, r.err)
         ELSE IF rmdir THEN fs_rmdir(r.s, r.ino, Last(path))
         ELSE fs_unlink(r.s, r.ino, Last(path)))

\* unlinkat, and again with AT_REMOVEDIR for a directory, as rename does it.
UnlinkAny(s, path) ==
    Then(sys_unlinkat(s, path, FALSE), LAMBDA u :
         IF u.err = "EISDIR" THEN sys_unlinkat(u.s, path, TRUE) ELSE u)

\* _do_linkat: path becomes a name of what targ resolves to.
do_linkat(s, targ, path, dirs) ==
    Then(fs_path_resolve(s, Parent(path), s.cwd, {}, "reg", 0), LAMBDA p :
         IF p.err # "ok" THEN Result(p.s, p.err)
         ELSE Then(fs_path_resolve(p.s, targ, s.cwd, {}, "reg", 0), LAMBDA t :
              IF t.err # "ok" THEN Result(t.s, t.err)
              ELSE IF IsDir(t.s, t.ino) /\ ~dirs THEN Result(t.s, "EPERM")
              ELSE fs_link(t.s, p.ino, Last(path), t.ino)))

Nameable == {p \in Path : p # <<"/">>}

\* The working directory and the mounted root are not removed.
Busy(s) == s.cwd \in s.gone \/ s.node[Mounted].links = 0
Allowed(s) == RemoveBusy \/ ~Busy(s)

\* A call of its own, within the bound, that leaves the state s.
Call(s) ==
    /\ ops < MaxOps /\ ops' = ops + 1
    /\ \E t \in {s} : Allowed(t) /\ fs' = t

unlink(path) == Call(sys_unlinkat(fs, path, FALSE).s) /\ UNCHANGED rename
rmdir(path) == Call(sys_unlinkat(fs, path, TRUE).s) /\ UNCHANGED rename
sys_link(targ, path) == Call(do_linkat(fs, targ, path, FALSE).s) /\ UNCHANGED rename

\* sys_mkdir and sys_mknod: mknod only adds the device numbers.
sys_mkdir(path) ==
    Call(fs_path_resolve(fs, path, fs.cwd, {"create"}, "dir", 0).s) /\ UNCHANGED rename
sys_mknod(path) ==
    Call(fs_path_resolve(fs, path, fs.cwd, {"create"}, "reg", 0).s) /\ UNCHANGED rename

\* sys_symlink: writelink only if the name was created.
sys_symlink(target, path) ==
    \E r \in {fs_path_resolve(fs, path, fs.cwd, {"create", "nofollow"}, "lnk", 0)} :
    /\ Call(IF r.did THEN [r.s EXCEPT !.node[r.ino].target = target] ELSE r.s)
    /\ UNCHANGED rename

\* The calls that look a path up and leave names and links alone.
LookUp(path, flags) ==
    Call(fs_path_resolve(fs, path, fs.cwd, flags, "reg", 0).s) /\ UNCHANGED rename
sys_stat(path) == LookUp(path, {})
sys_faccessat(path) == LookUp(path, {})
sys_fstatat(path, flags) == LookUp(path, flags)
sys_readlink(path) == LookUp(path, {"nofollow"})
sys_fchownat(path, flags) == LookUp(path, flags)
sys_fchmodat(path) == LookUp(path, {})

\* sys_chdir
sys_chdir(path) ==
    \E r \in {fs_path_resolve(fs, path, fs.cwd, {}, "reg", 0)} :
    /\ Call(IF r.err = "ok" /\ IsDir(r.s, r.ino)
            THEN LET s1 == [r.s EXCEPT !.cwd = r.ino] IN
                 IF ~s1.crash /\ fs.cwd # r.ino /\ fs.cwd \in s1.gone
                 THEN inode_put(s1, fs.cwd) ELSE s1
            ELSE r.s)
    /\ UNCHANGED rename

\* sys_openat without O_CREAT: the file holds the dirent.
sys_openat(path) ==
    /\ fs.opened = {}                                    \* one open file
    /\ \E r \in {fs_path_resolve(fs, path, fs.cwd, {}, "reg", 0)} :
       LET o == [dir |-> r.dir, name |-> r.name, ino |-> r.s.node[r.dir].ent[r.name],
                 unlinked |-> FALSE] IN
       /\ r.err = "ok" /\ r.dir # 0
       /\ Call([r.s EXCEPT !.opened = {o}])
    /\ UNCHANGED rename

\* sys_close: the last holder of an unlinked dirent counts the link down.
sys_close(o) ==
    LET s1 == [fs EXCEPT !.opened = @ \ {o}] IN
    /\ fs' = IF o.unlinked THEN dirent_free(s1, o.dir, o.ino) ELSE s1
    /\ UNCHANGED <<rename, ops>>

\* sys_mount, of a new ramfs or, with MS_BIND, of the file system of source.
\* On success the references to both inodes are kept.
sys_mount(source, path) ==
    /\ source = None => fs.up[2] = 0                     \* one new file system
    /\ \E src \in {IF source = None THEN Resolved(fs, "ok", 0, "", Mounted, FALSE)
                   ELSE fs_path_resolve(fs, source, fs.cwd, {}, "reg", 0)} :
       \E r \in {IF src.err # "ok" THEN src
                 ELSE fs_path_resolve(src.s, path, fs.cwd, {}, "reg", 0)} :
       LET f == FsOf(src.ino)
           s1 == [r.s EXCEPT !.up[f] = r.ino] IN                  \* fs_mount
       Call(IF r.err # "ok" THEN r.s
            ELSE IF s1.mount[r.ino] # 0 THEN s1
            ELSE [s1 EXCEPT !.mount[r.ino] = f, !.pinned = @ \cup {r.ino} \cup (IF source = None THEN {} ELSE {src.ino})])
    /\ UNCHANGED rename

\* sys_renameat: unlink the new name, link it, unlink the old one.
rename_unlink_new(from, path) ==
    /\ rename = None
    /\ \E u \in {UnlinkAny(fs, path)} :
       /\ Call(u.s)
       /\ rename' = IF u.err \in {"ok", "ENOENT"} THEN [from |-> from, path |-> path, step |-> "link"]
                    ELSE None

rename_link ==
    /\ rename # None /\ rename.step = "link"
    /\ \E l \in {do_linkat(fs, rename.from, rename.path, TRUE)} :
       /\ Allowed(l.s)
       /\ fs' = l.s
       /\ rename' = IF l.err = "ok" THEN [rename EXCEPT !.step = "unlink"] ELSE None
    /\ UNCHANGED ops

rename_unlink_old ==
    /\ rename # None /\ rename.step = "unlink"
    /\ \E u \in {UnlinkAny(fs, rename.from)} :
       /\ Allowed(u.s)
       /\ fs' = u.s
    /\ rename' = None
    /\ UNCHANGED ops

NameiNext ==
    /\ ~fs.crash
    /\ \/ \E p \in Nameable :
            \/ unlink(p) \/ rmdir(p) \/ sys_mkdir(p) \/ sys_mknod(p)
            \/ \E t \in Nameable : sys_link(t, p) \/ sys_symlink(t, p) \/ rename_unlink_new(t, p)
       \/ \E p \in Path :
            \/ \E fl \in SUBSET {"nofollow"} : sys_fstatat(p, fl) \/ sys_fchownat(p, fl)
            \/ sys_stat(p) \/ sys_faccessat(p) \/ sys_readlink(p) \/ sys_fchmodat(p)
            \/ sys_chdir(p) \/ sys_openat(p)
            \/ \E src \in Path \cup {None} : sys_mount(src, p)
       \/ \E o \in fs.opened : sys_close(o)
       \/ rename_link
       \/ rename_unlink_old

NameiSpec == NameiInit /\ [][NameiNext]_vars

-----------------------------------------------------------------------------
(***************************************************************************)
(* Properties.                                                             *)
(***************************************************************************)

EntriesOf(i) ==
    Cardinality({e \in Inode \X {"a", "b", ".", ".."} :
                    e[2] \in Names(fs, e[1]) /\ fs.node[e[1]].ent[e[2]] = i})

\* The link count of an inode is the number of its names, of names unlinked
\* while a file holds them, and of names freed with the directory they were
\* in (fs_link, _dirent_put, fs_rmdir, __create_last): across mkdir, rmdir,
\* link, unlink of open files, and renames that other calls interleave with.
LinksMatchNames ==
    \A i \in Inode : fs.node[i].stored /\ ~fs.crash =>
        fs.node[i].links = EntriesOf(i) + fs.lost[i]
                           + Cardinality({o \in fs.opened : o.unlinked /\ o.ino = i})

\* The assertions of the ramfs driver that the inode it is called for is in
\* its table (ramfs.c:181, 204, 279, 355, 379).
RamfsFindsInode == ~fs.crash
=============================================================================
