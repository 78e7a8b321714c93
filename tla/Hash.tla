--------------------------------- MODULE Hash --------------------------------
(***************************************************************************)
(* Hash tables (lib/ds/hash.c) made of linked lists (lib/ds/linkedlist.c), *)
(* their iterators, the id maps of include/slab.h and the directory        *)
(* listing of kernel/fs/ramfs.c that are built on them.                    *)
(*                                                                         *)
(* A call holds the lock of the table, or the lock of its user, from its   *)
(* start to its end, so each is one step.  An iteration holds the user's   *)
(* lock over many calls: one step per element, during which the only       *)
(* change is that the loop's body deletes the element it is at (as         *)
(* _ramfs_inode_put does).  A listing takes the lock again for each call   *)
(* of getdents; links come and go in between.                              *)
(***************************************************************************)
EXTENDS Integers, Sequences, FiniteSets, FiniteSetsExt

CONSTANTS
    NElem,      \* the number of elements (struct hashelem)
    Key,
    Length,     \* the number of buckets
    HashFn,     \* __hashfn, from Key to 0 .. Length - 1
    RecLen,     \* the size of a name's record in a listing
    BufLen,     \* the size of the buffer given to getdents
    MaxRefs,    \* bound: references of an element
    MaxChanges, \* bound: insertions and deletions
    MaxLists    \* bound: calls of getdents

VARIABLES
    next, prev, \* the links of the elements and of the sentries
    list,       \* the list an element is in, or None
    key,        \* the key of an element
    lcount,     \* the count of each list
    count,      \* the count of the table
    map,        \* history: the abstract map that the calls have made
    refs,       \* references of each element: the map's and the users'
    got,        \* of those, the users'
    it,         \* the iterator and what its loop has done
    dir,        \* the open directory: offset and what has been listed
    used        \* changes and listings so far, for the bounds

hashvars == <<next, prev, list, key, lcount, count, map, refs, got, it, dir, used>>

Elem == 1 .. NElem
Bucket == 0 .. Length - 1
sentry(b) == -b
None == -Length
Node == Elem \cup {sentry(b) : b \in Bucket}

NoIter == [loop |-> "none", body |-> FALSE, bucket |-> 0, entry |-> None,
           next |-> None, visited |-> <<>>, start |-> {}, read |-> 0, rec |-> 0]

\* hash_create, and linkedlist_create for each of its lists.
HashInit ==
    /\ next = [n \in Node |-> IF n \in Elem THEN None ELSE n]
    /\ prev = [n \in Node |-> IF n \in Elem THEN None ELSE n]
    /\ list = [e \in Elem |-> None]
    /\ key = [e \in Elem |-> None]
    /\ lcount = [b \in Bucket |-> 0]
    /\ count = 0
    /\ map = [k \in Key |-> None]
    /\ refs = [e \in Elem |-> 0] /\ got = [e \in Elem |-> 0]
    /\ it = NoIter
    /\ dir = [start |-> 0, names |-> <<>>, end |-> FALSE, changed |-> FALSE]
    /\ used = [changes |-> 0, lists |-> 0]

-----------------------------------------------------------------------------
(* Lists. *)

\* linkedlist_find: the first entry from the head that has the key.
linkedlist_find(b, k) ==
    LET at[n \in 0 .. NElem] ==
            IF n = 0 THEN next[sentry(b)]
            ELSE IF at[n - 1] \in Elem THEN next[at[n - 1]] ELSE at[n - 1]
        hits == {n \in 0 .. NElem : at[n] \in Elem /\ key[at[n]] = k}
    IN  IF hits = {} THEN None ELSE at[Min(hits)]

\* linkedlist_insert: at the head.
linkedlist_insert(b, e) ==
    LET s == sentry(b) first == next[s] IN
    /\ next' = [next EXCEPT ![e] = first, ![s] = e]
    /\ prev' = [prev EXCEPT ![e] = s, ![first] = e]
    /\ list' = [list EXCEPT ![e] = b]
    /\ lcount' = [lcount EXCEPT ![b] = @ + 1]

\* linkedlist_remove.  The entry's own links keep their values.
linkedlist_remove(b, e) ==
    /\ next' = [next EXCEPT ![prev[e]] = next[e]]
    /\ prev' = [prev EXCEPT ![next[e]] = prev[e]]
    /\ list' = [list EXCEPT ![e] = None]
    /\ lcount' = [lcount EXCEPT ![b] = @ - 1]

-----------------------------------------------------------------------------
(* The table, through an id map that holds a reference of what is in it. *)

Locked == it.loop # "none"
Changes == used' = [used EXCEPT !.changes = @ + 1]
Touched == dir' = [dir EXCEPT !.changed = used.lists > 0]

\* hash_insert sets the element's key even if it then refuses it.
Taken(k) == linkedlist_find(HashFn[k], k) # None

hash_insert(k, e) ==
    /\ key' = [key EXCEPT ![e] = k]
    /\ IF Taken(k)
       THEN UNCHANGED <<next, prev, list, lcount, count, map>>
       ELSE /\ linkedlist_insert(HashFn[k], e)
            /\ count' = count + 1
            /\ map' = [map EXCEPT ![k] = e]

hash_delete(k) ==
    LET e == linkedlist_find(HashFn[k], k) IN
    IF e = None
    THEN UNCHANGED <<next, prev, list, lcount, count, map>>
    ELSE /\ linkedlist_remove(HashFn[k], e)
         /\ count' = count - 1
         /\ map' = [map EXCEPT ![k] = None]

hash_lookup(k) == linkedlist_find(HashFn[k], k)

\* An element that is in no table is given to the map by the user that made it.
kobj_idmap_insert(k, e) ==
    /\ ~Locked /\ list[e] = None /\ refs[e] = 0 /\ used.changes < MaxChanges
    /\ hash_insert(k, e)
    /\ refs' = [refs EXCEPT ![e] = IF Taken(k) THEN @ ELSE @ + 1]
    /\ Changes /\ Touched
    /\ UNCHANGED <<got, it>>

\* The user names the object that it found under the key, now or earlier: only
\* where the key is still in the map does the map have a reference to put.
kobj_idmap_delete(k, e) ==
    /\ ~Locked /\ used.changes < MaxChanges
    /\ key[e] = k /\ (map[k] = e \/ (got[e] > 0 /\ map[k] = None))
    /\ hash_delete(k)
    /\ refs' = [refs EXCEPT ![e] = IF hash_lookup(k) # None THEN @ - 1 ELSE @]
    /\ Changes /\ Touched
    /\ UNCHANGED <<key, got, it>>

kobj_idmap_lookup(k) ==
    /\ ~Locked
    /\ LET e == hash_lookup(k) IN
       /\ e # None /\ refs[e] < MaxRefs
       /\ refs' = [refs EXCEPT ![e] = @ + 1]
       /\ got' = [got EXCEPT ![e] = @ + 1]
    /\ UNCHANGED <<next, prev, list, key, lcount, count, map, it, dir, used>>

\* The user is done with what it looked up.
kobj_putref(e) ==
    /\ ~Locked /\ got[e] > 0
    /\ refs' = [refs EXCEPT ![e] = @ - 1]
    /\ got' = [got EXCEPT ![e] = @ - 1]
    /\ UNCHANGED <<next, prev, list, key, lcount, count, map, it, dir, used>>

-----------------------------------------------------------------------------
(* Iterators. *)

\* The first list from bucket b on that is not empty.  hash_iter_next also looks
\* at the count one past the table's end, and whatever it reads there it stops.
FirstUsed(b) ==
    LET some == {c \in b .. Length - 1 : lcount[c] # 0} IN
    IF some = {} THEN Length ELSE Min(some)

\* The iterator's fields where it goes on with the list of bucket b.
AtList(b) ==
    IF b >= Length THEN [it EXCEPT !.bucket = b]
    ELSE LET first == next[sentry(b)] IN
         [it EXCEPT !.bucket = b, !.entry = first, !.next = next[first]]

hash_iter_init(loop) ==
    it' = [AtList(FirstUsed(0)) EXCEPT
              !.loop = loop, !.body = TRUE, !.visited = <<>>, !.read = 0, !.rec = 0,
              !.start = {e \in Elem : list[e] # None}]

hash_iter_done == it.bucket >= Length

\* The entry that follows was read before the loop's body ran.
\* Mutant: it is read from the entry, which may be in a list no more.
Following_Late == IF list[it.entry] = None THEN sentry(it.bucket) ELSE next[it.entry]
Following == it.next

hash_iter_next ==
    /\ Locked /\ ~it.body
    /\ IF Following = sentry(it.bucket)
       THEN \E b \in {FirstUsed(it.bucket + 1)} \cup
                     (IF it.bucket + 1 = Length THEN {Length + 1} ELSE {}) :
                it' = [AtList(b) EXCEPT !.body = TRUE]
       ELSE it' = [it EXCEPT !.entry = Following, !.next = next[Following],
                             !.body = TRUE]
    /\ UNCHANGED <<next, prev, list, key, lcount, count, map, refs, got, dir, used>>

\* The bodies of the loops.  One that only looks:
Body == Locked /\ it.body /\ ~hash_iter_done
Visits(i) == [i EXCEPT !.visited = Append(@, it.entry), !.body = FALSE]

kobj_lru_proc_read ==
    /\ Body /\ it.loop = "look"
    /\ it' = Visits(it)
    /\ UNCHANGED <<next, prev, list, key, lcount, count, map, refs, got, dir, used>>

\* One that takes each element out of the table and drops it.
_ramfs_inode_put ==
    /\ Body /\ it.loop = "drain"
    /\ hash_delete(key[it.entry])
    /\ refs' = [refs EXCEPT ![it.entry] = @ - 1]
    /\ it' = Visits(it)
    /\ Touched
    /\ UNCHANGED <<key, got, used>>

\* The loop of _getdents: it steps over the records before the offset and stops
\* at the first that does not fit in what is left of the buffer.
Wanted(read) == read >= dir.start
Fits(read, k) == RecLen[k] + (read - dir.start) <= BufLen

_getdents ==
    LET k == key[it.entry] IN
    /\ Body /\ it.loop = "list"
    /\ \/ /\ Wanted(it.read) => Fits(it.read, k)
          /\ it' = [Visits(it) EXCEPT !.read = @ + RecLen[k],
                                      !.rec = IF Wanted(it.read) THEN @ + RecLen[k] ELSE @]
          /\ dir' = [dir EXCEPT !.names = IF Wanted(it.read) THEN Append(@, k) ELSE @]
       \/ /\ Wanted(it.read) /\ ~Fits(it.read, k)
          /\ it' = NoIter
          /\ dir' = [dir EXCEPT !.start = @ + it.rec, !.end = it.rec = 0]
    /\ UNCHANGED <<next, prev, list, key, lcount, count, map, refs, got, used>>

\* The loop is over; the user releases its lock.  A listing that gave nothing is
\* the end of the directory.
Done ==
    /\ Locked /\ it.body /\ hash_iter_done
    /\ it' = NoIter
    /\ dir' = IF it.loop = "list"
              THEN [dir EXCEPT !.start = @ + it.rec, !.end = it.rec = 0]
              ELSE dir
    /\ UNCHANGED <<next, prev, list, key, lcount, count, map, refs, got, used>>

Begin(loop) ==
    /\ ~Locked
    /\ loop = "drain" => used.changes < MaxChanges
    /\ loop = "list" => used.lists < MaxLists /\ ~dir.end
    /\ used' = [used EXCEPT !.changes = IF loop = "drain" THEN @ + 1 ELSE @,
                            !.lists = IF loop = "list" THEN @ + 1 ELSE @]
    /\ hash_iter_init(loop)
    /\ UNCHANGED <<next, prev, list, key, lcount, count, map, refs, got, dir>>

HashNext ==
    \/ \E k \in Key, e \in Elem : kobj_idmap_insert(k, e) \/ kobj_idmap_delete(k, e)
    \/ \E k \in Key : kobj_idmap_lookup(k)
    \/ \E e \in Elem : kobj_putref(e)
    \/ \E loop \in {"look", "drain", "list"} : Begin(loop)
    \/ hash_iter_next \/ kobj_lru_proc_read \/ _ramfs_inode_put \/ _getdents
    \/ Done

HashSpec == HashInit /\ [][HashNext]_hashvars

-----------------------------------------------------------------------------

\* The lists are the abstract map: what a lookup finds is what the last call
\* that succeeded for the key left there, links and counts agree in both
\* directions, and each element in the map is in the list of its key
\* (hash_insert, hash_delete, linkedlist_do_remove and its assertions).
TableIsMap ==
    /\ \A k \in Key : hash_lookup(k) = map[k]
    /\ \A n \in Node : n \notin Elem \/ list[n] # None =>
           prev[next[n]] = n /\ next[prev[n]] = n
    /\ \A e \in Elem : list[e] # None =>
           list[e] = HashFn[key[e]] /\ map[key[e]] = e
    /\ \A b \in Bucket : lcount[b] = Cardinality({e \in Elem : list[e] = b})
    /\ count = Cardinality({k \in Key : map[k] # None})
    /\ \A e \in Elem : refs[e] = got[e] + (IF list[e] # None THEN 1 ELSE 0)

Once(s) == \A i, j \in DOMAIN s : s[i] = s[j] => i = j
Members(s) == {s[i] : i \in DOMAIN s}

\* An iteration comes to every element that was in the table when it began, each
\* once and each while it is in the table, even if the loop deletes the
\* elements as it goes (hash_iter_init, hash_iter_next).
IterationExact ==
    Locked =>
        /\ Once(it.visited) /\ Members(it.visited) \subseteq it.start
        /\ hash_iter_done => Members(it.visited) = it.start
        /\ Body => list[it.entry] = it.bucket /\ it.entry \notin Members(it.visited)

\* Unless names were added or removed since its first call, a listing gives every
\* name of the directory once, however it is cut into calls (_getdents).
ListingComplete ==
    ~dir.changed =>
        /\ Once(dir.names)
        /\ dir.end /\ (\A k \in Key : RecLen[k] <= BufLen) =>
               Members(dir.names) = {k \in Key : map[k] # None}
=============================================================================
