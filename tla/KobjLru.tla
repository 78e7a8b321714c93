------------------------------- MODULE KobjLru -------------------------------
(***************************************************************************)
(* The object cache of kernel/kobj_lru.c with directory entries,           *)
(* kernel/fs/dirent.c, as the objects that it caches.                      *)
(*                                                                         *)
(* A cached object has one reference from the hash, one from the list it   *)
(* is on (active, or lru when nobody uses it), and one from each user.     *)
(* Objects are initialized by the first user while others wait, are        *)
(* reclaimed from the lru list, and are removed when they were unlinked.   *)
(*                                                                         *)
(* Each critical section of lru->lock is one action.  Waiting for an       *)
(* object is uninterruptible, so it ends only by blocklist_unblock_all     *)
(* (module Mutex checks this of such blockpoints).                         *)
(***************************************************************************)
EXTENDS Integers, Sequences, FiniteSets

CONSTANTS
    Thread,
    Id,         \* parent and name of directory entries
    Obj,        \* bound: the objects that kobj_allocate can return
    lru_max,    \* lru->max
    NULL

ASSUME NoObject == NULL \notin Obj /\ NULL \notin Id
ASSUME Bounded == IsFiniteSet(Thread) /\ IsFiniteSet(Obj)

VARIABLES
    hash,           \* lru->hash, from identifiers to objects
    active, lru,    \* the two lists; lru from its head to its tail
    refs,           \* _koh_refs of each object
    flags,          \* header->flags
    dflags,         \* dir->flags
    id,             \* header->id
    wait,           \* the threads that wait on header->wait
    present,        \* the names that the directory on disk contains
    links,          \* the links of the inode that each name refers to
    pc, at, want,   \* where each thread is, its object and identifier
    ref,            \* the variable ref of kobj_lru_get
    tried,          \* threads with already_tried_to_reclaim
    cached,         \* threads in kobj_lru_lookup_cached
    drops,          \* references that the thread has still to drop
    panic           \* the kernel has stopped

lruVars == <<hash, active, lru, refs, flags, id, wait>>
direntVars == <<dflags, present, links>>
locals == <<at, want, ref, tried, cached, drops>>
vars == <<lruVars, direntVars, pc, locals, panic>>

PC == {"idle", "get", "wait", "init", "mark_ready", "mark_error", "ready", "error", "putref_retry",
       "putref", "use", "uncache", "unlink", "remove", "lru_put", "reclaim", "release", "forget", "reclaim_put"}

TypeOK ==
    /\ hash \in [Id -> Obj \cup {NULL}]
    /\ active \subseteq Obj
    /\ lru \in Seq(Obj)
    /\ refs \in [Obj -> Nat]
    /\ flags \in [Obj -> SUBSET {"LRU", "INIT", "ERR", "DESTROY"}]
    /\ dflags \in [Obj -> SUBSET {"UNLINK", "UNCACHED"}]
    /\ id \in [Obj -> Id \cup {NULL}]
    /\ wait \in [Obj -> SUBSET Thread]
    /\ present \subseteq Id
    /\ links \in [Id -> Nat]
    /\ pc \in [Thread -> PC]
    /\ at \in [Thread -> Obj \cup {NULL}]
    /\ want \in [Thread -> Id \cup {NULL}]
    /\ ref \in [Thread -> Nat]
    /\ tried \subseteq Thread
    /\ cached \subseteq Thread
    /\ drops \in [Thread -> 0..3]
    /\ panic \in {"no", "double free", "assert"}

Init ==
    /\ hash = [i \in Id |-> NULL]
    /\ active = {}
    /\ lru = <<>>
    /\ refs = [o \in Obj |-> 0]
    /\ flags = [o \in Obj |-> {}]
    /\ dflags = [o \in Obj |-> {}]
    /\ id = [o \in Obj |-> NULL]
    /\ wait = [o \in Obj |-> {}]
    /\ present \in SUBSET Id
    /\ links = [i \in Id |-> IF i \in present THEN 1 ELSE 0]
    /\ pc = [t \in Thread |-> "idle"]
    /\ at = [t \in Thread |-> NULL]
    /\ want = [t \in Thread |-> NULL]
    /\ ref = [t \in Thread |-> 0]
    /\ tried = {}
    /\ cached = {}
    /\ drops = [t \in Thread |-> 0]
    /\ panic = "no"

Goto(t, from, to) ==
    /\ panic = "no"
    /\ pc[t] = from
    /\ pc' = [pc EXCEPT ![t] = to]

\* The thread returns, and its local variables are gone.
Return(t) ==
    /\ at' = [at EXCEPT ![t] = NULL]
    /\ want' = [want EXCEPT ![t] = NULL]
    /\ ref' = [ref EXCEPT ![t] = 0]
    /\ tried' = tried \ {t}
    /\ cached' = cached \ {t}
    /\ drops' = [drops EXCEPT ![t] = 0]

\* An assertion, or a panic that only a failure of the cache itself causes.
Check(ok) == panic' = IF ok THEN panic ELSE "assert"

OnLru(o) == \E k \in 1..Len(lru) : lru[k] = o
\* linkedlist_remove from the lru list.
LruWithout(o) ==
    LET k == CHOOSE k \in 1..Len(lru) : lru[k] = o
    IN  IF OnLru(o) THEN [j \in 1..(Len(lru) - 1) |-> IF j < k THEN lru[j] ELSE lru[j + 1]] ELSE lru

-----------------------------------------------------------------------------
(***************************************************************************)
(* References.                                                             *)
(***************************************************************************)

\* _dirent_put drops the link of an entry that was unlinked, once.
dirent_drop(o) ==
    /\ dflags' = [dflags EXCEPT ![o] = @ \ {"UNLINK"}]
    /\ links' = [i \in Id |-> IF i = id[o] /\ "UNLINK" \in dflags[o]
                              THEN links[i] - 1 ELSE links[i]]
    /\ UNCHANGED present

\* __kobj_putref, which calls _dirent_put for the last reference.
putref(o) ==
    /\ refs' = [refs EXCEPT ![o] = IF @ > 0 THEN @ - 1 ELSE @]
    /\ Check(refs[o] > 0)
    /\ IF refs[o] = 1 THEN dirent_drop(o) ELSE UNCHANGED direntVars
    /\ UNCHANGED <<hash, active, lru, flags, id, wait>>

-----------------------------------------------------------------------------
(***************************************************************************)
(* kobj_lru_get and kobj_lru_lookup_cached                                 *)
(***************************************************************************)

Get(t, i) ==
    /\ Goto(t, "idle", "get")
    /\ want' = [want EXCEPT ![t] = i]
    /\ cached' \in {cached, cached \cup {t}}
    /\ UNCHANGED <<lruVars, direntVars, at, ref, tried, drops, panic>>

\* An object that nobody used goes from the lru list to the active list.
Activate(o, r) ==
    IF r = 2
    THEN /\ Check(lru # <<>>)
         /\ lru' = LruWithout(o)
         /\ active' = active \cup {o}
    ELSE UNCHANGED <<lru, active, panic>>

\* The object is in the hash and initialized.
Found(t) ==
    LET o == hash[want[t]] IN
    /\ Goto(t, "get", "use")
    /\ o # NULL
    /\ "DESTROY" \notin flags[o]
    /\ "INIT" \in flags[o]
    /\ refs' = [refs EXCEPT ![o] = @ + 1]
    /\ Activate(o, refs[o])
    /\ at' = [at EXCEPT ![t] = o]
    /\ UNCHANGED <<hash, flags, id, wait, direntVars, want, ref, tried, cached, drops>>

\* The object is in the hash but its first user still initializes it.
FoundEarly(t) ==
    LET o == hash[want[t]] IN
    /\ Goto(t, "get", "wait")
    /\ o # NULL
    /\ "DESTROY" \notin flags[o]
    /\ "INIT" \notin flags[o]
    /\ refs' = [refs EXCEPT ![o] = @ + 1]
    /\ wait' = [wait EXCEPT ![o] = @ \cup {t}]
    /\ at' = [at EXCEPT ![t] = o]
    /\ ref' = [ref EXCEPT ![t] = refs[o]]
    /\ UNCHANGED <<hash, active, lru, flags, id, direntVars, want, tried, cached, drops, panic>>

\* The object is not in the hash: a new one, unless the cache has reached its
\* maximum and this call has not tried to reclaim one yet.
NotFound(t) ==
    /\ pc[t] = "get"
    /\ t \notin cached
    /\ hash[want[t]] = NULL
    /\ IF Cardinality({i \in Id : hash[i] # NULL}) >= lru_max /\ lru_max > 0 /\ t \notin tried
       THEN /\ Goto(t, "get", "reclaim")
            /\ UNCHANGED <<lruVars, direntVars, locals>>
       ELSE /\ Goto(t, "get", "init")
            /\ \E o \in Obj :
                  /\ refs[o] = 0
                  /\ refs' = [refs EXCEPT ![o] = 3]
                  /\ flags' = [flags EXCEPT ![o] = {"LRU"}]
                  /\ dflags' = [dflags EXCEPT ![o] = {}]
                  /\ wait' = [wait EXCEPT ![o] = {}]
                  /\ active' = active \cup {o}
                  /\ hash' = [hash EXCEPT ![want[t]] = o]
                  /\ at' = [at EXCEPT ![t] = o]
            /\ UNCHANGED <<lru, id, present, links, want, ref, tried, cached, drops>>
    /\ UNCHANGED panic

NotCached(t) ==
    /\ Goto(t, "get", "idle")
    /\ t \in cached
    /\ hash[want[t]] = NULL
    /\ Return(t)
    /\ UNCHANGED <<lruVars, direntVars, panic>>

\* A waiter after schedule(), with lru->lock again.
Woken(t) ==
    LET o == at[t]
        f == flags[o]
        to == CASE "LRU" \notin f -> "putref_retry"
                [] "LRU" \in f /\ "INIT" \notin f -> "wait"
                [] {"LRU", "INIT", "DESTROY"} \subseteq f -> "putref_retry"
                [] {"LRU", "INIT", "ERR"} \subseteq f /\ "DESTROY" \notin f -> "putref"
                [] OTHER -> "use"
    IN
    /\ pc[t] = "wait"
    /\ t \notin wait[o]
    /\ Goto(t, "wait", to)
    /\ IF to = "use" /\ refs[o] > 2
       THEN Activate(o, ref[t])
       ELSE Check(to \notin {"use", "wait"}) /\ UNCHANGED <<active, lru>>
    /\ drops' = [drops EXCEPT ![t] = IF to = "putref" THEN 1 ELSE 0]
    /\ ref' = [ref EXCEPT ![t] = 0]
    /\ UNCHANGED <<hash, refs, flags, id, wait, direntVars, at, want, tried, cached>>

PutrefRetry(t) ==
    /\ Goto(t, "putref_retry", "get")
    /\ putref(at[t])
    /\ at' = [at EXCEPT ![t] = NULL]
    /\ UNCHANGED <<want, ref, tried, cached, drops>>

\* References that are dropped one by one outside lru->lock.
Putref(t) ==
    /\ Goto(t, "putref", IF drops[t] = 1 THEN "idle" ELSE "putref")
    /\ putref(at[t])
    /\ IF drops[t] = 1
       THEN Return(t)
       ELSE drops' = [drops EXCEPT ![t] = @ - 1] /\ UNCHANGED <<at, want, ref, tried, cached>>

-----------------------------------------------------------------------------
(***************************************************************************)
(* _dirent_initialize                                                      *)
(***************************************************************************)

\* The lookup in the directory, under the lock of the directory's inode.
LookupName(t) ==
    /\ Goto(t, "init", IF want[t] \in present THEN "mark_ready" ELSE "mark_error")
    /\ UNCHANGED <<lruVars, direntVars, locals, panic>>

\* kobj_lru_mark_ready up to the release of the lock.
mark_ready(t) ==
    /\ Goto(t, "mark_ready", "ready")
    /\ id' = [id EXCEPT ![at[t]] = want[t]]
    /\ hash' = [hash EXCEPT ![want[t]] = at[t]]
    /\ flags' = [flags EXCEPT ![at[t]] = @ \cup {"INIT"}]
    /\ UNCHANGED <<active, lru, refs, wait, direntVars, locals, panic>>

\* kobj_lru_mark_error up to the release of the lock.
mark_error(t) ==
    /\ Goto(t, "mark_error", "error")
    /\ hash' = [hash EXCEPT ![want[t]] = NULL]
    /\ active' = active \ {at[t]}
    /\ id' = [id EXCEPT ![at[t]] = want[t]]
    /\ flags' = [flags EXCEPT ![at[t]] = @ \cup {"ERR", "INIT"}]
    /\ UNCHANGED <<lru, refs, wait, direntVars, locals, panic>>

\* blocklist_unblock_all at the end of both; after an error the references of
\* the hash, of the list and of the first user are dropped.
Wake(t) ==
    /\ \/ Goto(t, "ready", "use") /\ UNCHANGED drops
       \/ Goto(t, "error", "putref") /\ drops' = [drops EXCEPT ![t] = 3]
    /\ wait' = [wait EXCEPT ![at[t]] = {}]
    /\ UNCHANGED <<hash, active, lru, refs, flags, id, direntVars, at, want, ref, tried, cached,
                   panic>>

-----------------------------------------------------------------------------
(***************************************************************************)
(* kobj_lru_reclaim, called from kobj_lru_get                              *)
(***************************************************************************)

\* Mutant: reclaiming without the flag that keeps others away.
Reclaim_NoDestroy(t) ==
    /\ Goto(t, "reclaim", IF lru = <<>> THEN "get" ELSE "release")
    /\ IF lru = <<>>
       THEN tried' = tried \cup {t} /\ UNCHANGED <<lru, refs, at, panic>>
       ELSE LET o == lru[Len(lru)] IN
            /\ lru' = SubSeq(lru, 1, Len(lru) - 1)
            /\ Check(refs[o] = 2)
            /\ refs' = [refs EXCEPT ![o] = @ - 1]
            /\ at' = [at EXCEPT ![t] = o]
            /\ UNCHANGED tried
    /\ UNCHANGED <<hash, active, flags, id, wait, direntVars, want, ref, cached, drops>>

Reclaim(t) ==
    /\ Goto(t, "reclaim", IF lru = <<>> THEN "get" ELSE "release")
    /\ IF lru = <<>>
       THEN tried' = tried \cup {t} /\ UNCHANGED <<lru, flags, refs, at, panic>>
       ELSE LET o == lru[Len(lru)] IN
            /\ lru' = SubSeq(lru, 1, Len(lru) - 1)
            /\ Check(refs[o] = 2)
            /\ flags' = [flags EXCEPT ![o] = @ \cup {"DESTROY"}]
            /\ refs' = [refs EXCEPT ![o] = @ - 1]
            /\ at' = [at EXCEPT ![t] = o]
            /\ UNCHANGED tried
    /\ UNCHANGED <<hash, active, id, wait, direntVars, want, ref, cached, drops>>

\* lru->release, which is _dirent_release, outside the lock.
Release(t) ==
    /\ Goto(t, "release", "forget")
    /\ dirent_drop(at[t])
    /\ UNCHANGED <<lruVars, locals, panic>>

Forget(t) ==
    /\ Goto(t, "forget", "reclaim_put")
    /\ Check(hash[id[at[t]]] # NULL)
    /\ hash' = [hash EXCEPT ![id[at[t]]] = NULL]
    /\ flags' = [flags EXCEPT ![at[t]] = @ \ {"DESTROY"}]
    /\ UNCHANGED <<active, lru, refs, id, wait, direntVars, locals>>

ReclaimPut(t) ==
    /\ Goto(t, "reclaim_put", "get")
    /\ putref(at[t])
    /\ at' = [at EXCEPT ![t] = NULL]
    /\ tried' = tried \cup {t}
    /\ UNCHANGED <<want, ref, cached, drops>>

-----------------------------------------------------------------------------
(***************************************************************************)
(* Users of directory entries.                                             *)
(***************************************************************************)

\* __unlink, for a user that found the entry.
Unlink(t) ==
    /\ Goto(t, "use", "use")
    /\ dflags' = [dflags EXCEPT ![at[t]] = @ \cup {"UNLINK"}]
    /\ UNCHANGED <<lruVars, present, links, locals, panic>>

\* fs_link, which consults the directory and not the cache.
Link(i) ==
    /\ panic = "no"
    /\ i \notin present
    /\ present' = present \cup {i}
    /\ links' = [links EXCEPT ![i] = @ + 1]
    /\ UNCHANGED <<lruVars, dflags, pc, locals, panic>>

\* The tests of dirent_put.
dirent_put(t) ==
    LET f == dflags[at[t]] IN
    /\ Goto(t, "use", IF "UNCACHED" \in f THEN "putref"
                      ELSE IF "UNLINK" \in f THEN "uncache"
                      ELSE "lru_put")
    /\ drops' = [drops EXCEPT ![t] = IF "UNCACHED" \in f THEN 1 ELSE 0]
    /\ UNCHANGED <<lruVars, direntVars, at, want, ref, tried, cached, panic>>

\* atomic_fetch_or decides which of the users removes the entry.
Uncache(t) ==
    /\ Goto(t, "uncache", IF "UNCACHED" \in dflags[at[t]] THEN "putref" ELSE "unlink")
    /\ dflags' = [dflags EXCEPT ![at[t]] = @ \cup {"UNCACHED"}]
    /\ drops' = [drops EXCEPT ![t] = IF "UNCACHED" \in dflags[at[t]] THEN 1 ELSE 0]
    /\ UNCHANGED <<lruVars, present, links, at, want, ref, tried, cached, panic>>

\* The unlink operation of the file system, and the assertion on its result.
UnlinkName(t) ==
    /\ Goto(t, "unlink", "remove")
    /\ Check(id[at[t]] \in present)
    /\ present' = present \ {id[at[t]]}
    /\ UNCHANGED <<lruVars, dflags, links, locals>>

\* Mutant: kobj_lru_remove that forgets one of the two references.
kobj_lru_remove_OneRef(t) ==
    LET o == at[t] IN
    /\ Goto(t, "remove", "putref")
    /\ hash' = [hash EXCEPT ![id[o]] = NULL]
    /\ active' = active \ {o}
    /\ flags' = [flags EXCEPT ![o] = @ \ {"LRU"}]
    /\ refs' = [refs EXCEPT ![o] = @ - 1]
    /\ drops' = [drops EXCEPT ![t] = 1]
    /\ UNCHANGED <<lru, id, wait, direntVars, at, want, ref, tried, cached, panic>>

\* kobj_lru_remove; the caller's own reference is dropped next.
kobj_lru_remove(t) ==
    LET o == at[t] IN
    /\ Goto(t, "remove", "putref")
    /\ hash' = [hash EXCEPT ![id[o]] = NULL]
    /\ active' = active \ {o}
    /\ flags' = [flags EXCEPT ![o] = @ \ {"LRU"}]
    /\ refs' = [refs EXCEPT ![o] = @ - 2]
    /\ drops' = [drops EXCEPT ![t] = 1]
    /\ UNCHANGED <<lru, id, wait, direntVars, at, want, ref, tried, cached, panic>>

\* kobj_lru_put, with its panics.
kobj_lru_put(t) ==
    LET o == at[t] IN
    /\ Goto(t, "lru_put", "idle")
    /\ refs' = [refs EXCEPT ![o] = @ - 1]
    /\ IF refs[o] - 1 < 2 THEN panic' = "double free" ELSE Check("DESTROY" \notin flags[o])
    /\ IF refs[o] - 1 = 2 /\ "LRU" \in flags[o]
       THEN lru' = <<o>> \o lru /\ active' = active \ {o}
       ELSE UNCHANGED <<lru, active>>
    /\ Return(t)
    /\ UNCHANGED <<hash, flags, id, wait, direntVars>>

-----------------------------------------------------------------------------
Step(t) ==
    \/ Found(t) \/ FoundEarly(t) \/ NotFound(t) \/ NotCached(t) \/ Woken(t)
    \/ PutrefRetry(t) \/ Putref(t) 
    \/ LookupName(t) \/ mark_ready(t) \/ mark_error(t) \/ Wake(t)
    \/ Reclaim(t) \/ Release(t) \/ Forget(t) \/ ReclaimPut(t)
    \/ dirent_put(t) \/ Uncache(t) \/ UnlinkName(t) \/ kobj_lru_remove(t) \/ kobj_lru_put(t)

Next ==
    \/ \E t \in Thread : Step(t) \/ Unlink(t) \/ \E i \in Id : Get(t, i)
    \/ \E i \in Id : Link(i)

Spec == Init /\ [][Next]_vars

-----------------------------------------------------------------------------
(***************************************************************************)
(* Properties.                                                             *)
(***************************************************************************)

\* How many references a thread has to the object it works on.
Share(t) == CASE pc[t] = "error" -> 3
              [] pc[t] = "putref" -> drops[t]
              [] pc[t] \notin {"error", "putref"} -> 1

Cached(o) == \E i \in Id : hash[i] = o

Users(o) == {t \in Thread : at[t] = o}

\* The references of the users of an object, numbered.
Held(o) == {x \in Users(o) \X (1..3) : x[2] <= Share(x[1])}

\* The reference counts add up: two references from the cache to an object
\* in the hash, one from whoever reclaims it, and one from each user.
RefsAddUp ==
    panic = "no" => \A o \in Obj :
       refs[o] = Cardinality(Held(o))
                 + (IF Cached(o) /\ "DESTROY" \notin flags[o] THEN 2 ELSE 0)

\* The cached objects that nobody uses are those on the lru list, each once,
\* and the used ones are on the active list: nothing in use is ever taken by
\* kobj_lru_reclaim, and nothing unused is out of its reach.
ListsFit ==
    panic = "no" =>
    /\ \A j, k \in 1..Len(lru) : lru[j] = lru[k] => j = k
    /\ \A o \in Obj :
          /\ OnLru(o) <=> Cached(o) /\ Users(o) = {}
          /\ o \in active <=> Cached(o) /\ Users(o) # {} /\ "DESTROY" \notin flags[o]

\* Two threads that use the entry of the same name use the same object,
\* unless one of the objects was unlinked; and it is the name they asked for.
SameObject ==
    panic = "no" => \A t, u \in Thread :
       pc[t] = "use" /\ pc[u] = "use" =>
       /\ id[at[t]] = want[t]
       /\ want[t] = want[u] /\ "LRU" \in flags[at[t]] \cap flags[at[u]] => at[t] = at[u]

\* While lru->release runs without the lock, nobody else has the object and
\* no new object for the same identifier can appear.
ReleaseAlone ==
    panic = "no" => \A t \in Thread : pc[t] \in {"release", "forget"} =>
       /\ Users(at[t]) = {t}
       /\ hash[id[at[t]]] = at[t]

\* The entries of i that were removed from the directory and still have users.
Doomed(i) == {o \in Obj : /\ id[o] = i
                          /\ dflags[o] = {"UNLINK", "UNCACHED"}
                          /\ \A t \in Users(o) : pc[t] # "unlink"}

\* Every unlinked name costs its inode one link, and only when the last user
\* of the entry is gone.
LinksCount ==
    panic = "no" => \A i \in Id :
       links[i] = (IF i \in present THEN 1 ELSE 0) + Cardinality(Doomed(i))

\* None of the assertions of the cache and of dirent_put fails, other than
\* the test for a double free in kobj_lru_put.
AssertionsHold == panic # "assert"

\* "check for the KOBJ_LRU flag because we may have gotten here around the
\* time a call to lru_remove happened", says kobj_lru_put: a call that races
\* with kobj_lru_remove is expected, and must not be taken for a double free.
NoDoubleFree == panic # "double free"

\* A thread that waits for another one to initialize an object is not
\* forgotten, whether that succeeds or fails: somebody is on the way to
\* kobj_lru_mark_ready or kobj_lru_mark_error and its blocklist_unblock_all.
WaiterRemembered == \A t \in Thread :
    pc[t] = "wait" /\ t \in wait[at[t]] =>
        \E u \in Thread : /\ pc[u] \in {"init", "mark_ready", "mark_error", "ready", "error"}
                          /\ at[u] = at[t]

\* What the cache, its users and the directories count agrees.
LruAccounts == RefsAddUp /\ ListsFit /\ LinksCount

\* Users of one name share one object, release runs alone, waiters are
\* remembered, and assertions hold.
LruProtocol == SameObject /\ ReleaseAlone /\ WaiterRemembered /\ AssertionsHold

-----------------------------------------------------------------------------
(***************************************************************************)
(* The inductive invariant.                                                *)
(***************************************************************************)

Starting == {"init", "mark_ready", "mark_error"}
Using == {"ready", "use", "uncache", "unlink", "remove", "lru_put"}
Removing == {"unlink", "remove"}
Reclaiming == {"release", "forget", "reclaim_put"}

\* The local variables of a thread.
Local(t) ==
    /\ at[t] = NULL <=> pc[t] \in {"idle", "get", "reclaim"}
    /\ want[t] = NULL <=> pc[t] = "idle"
    /\ pc[t] = "putref" => drops[t] > 0
    /\ pc[t] = "wait" => ref[t] > 2

\* An object in the hash is under its identifier, or its first user still
\* initializes it.
Hashed(o) == \A i \in Id : hash[i] = o =>
    /\ "LRU" \in flags[o] /\ "ERR" \notin flags[o]
    /\ "INIT" \in flags[o] => id[o] = i
    /\ "INIT" \notin flags[o] => \E t \in Users(o) : pc[t] \in Starting /\ want[t] = i

\* The first user of an object; all others wait for it.
Started(o) == \A t \in Users(o) : pc[t] \in Starting =>
    /\ "INIT" \notin flags[o] /\ dflags[o] = {} /\ hash[want[t]] = o
    /\ \A u \in Users(o) \ {t} : pc[u] = "wait" /\ u \in wait[o] /\ want[u] = want[t]

\* What a user knows of its object.
Used(o) == \A t \in Users(o) :
    /\ pc[t] \notin Starting \cup {"wait"} => "INIT" \in flags[o]
    /\ pc[t] = "wait" /\ "INIT" \notin flags[o] => \E u \in Users(o) : pc[u] \in Starting
    /\ pc[t] \notin Reclaiming /\ "INIT" \in flags[o] =>
          /\ id[o] = want[t]
          /\ "LRU" \in flags[o] /\ "ERR" \notin flags[o] => hash[want[t]] = o
    /\ pc[t] \in Using => "ERR" \notin flags[o]
    /\ pc[t] = "error" => "ERR" \in flags[o]
    /\ pc[t] = "putref_retry" => "LRU" \notin flags[o]
    /\ pc[t] = "putref" => "ERR" \in flags[o] \/ "UNCACHED" \in dflags[o]

\* Who reclaims an object is alone with it.
Reclaimed(o) ==
    /\ "DESTROY" \in flags[o] => \E t \in Users(o) : pc[t] \in {"release", "forget"}
    /\ \A t \in Users(o) : pc[t] \in Reclaiming =>
          /\ Users(o) = {t}
          /\ "LRU" \in flags[o] /\ "ERR" \notin flags[o]
          /\ pc[t] # "reclaim_put" => "DESTROY" \in flags[o] /\ Cached(o)
          /\ pc[t] = "reclaim_put" => ~Cached(o)

\* One of the users of an unlinked entry removes it.
Unlinked(o) ==
    /\ "UNLINK" \in dflags[o] => Users(o) # {}
    /\ "UNCACHED" \in dflags[o] /\ Users(o) # {} => "UNLINK" \in dflags[o]
    /\ "LRU" \notin flags[o] /\ Users(o) # {} => "UNCACHED" \in dflags[o]
    /\ dflags[o] = {"UNLINK"} => \E t \in Users(o) : pc[t] \in {"use", "uncache"}
    /\ "UNCACHED" \in dflags[o] /\ Cached(o) => \E t \in Users(o) : pc[t] \in Removing
    /\ \A t \in Users(o) :
          /\ pc[t] = "uncache" => "UNLINK" \in dflags[o]
          /\ pc[t] \in Removing => "UNCACHED" \in dflags[o] /\ "LRU" \in flags[o]
    /\ \A t, u \in Users(o) : pc[t] \in Removing /\ pc[u] \in Removing => t = u

\* The name of a cached entry is in its directory until it is removed.
Named(o) ==
    /\ \A i \in Id : hash[i] = o /\ "INIT" \in flags[o] =>
          i \in present \/ \E t \in Users(o) : pc[t] = "remove"
    /\ \A t \in Users(o) : pc[t] = "mark_ready" => want[t] \in present

Sound(o) == Hashed(o) /\ Started(o) /\ Used(o) /\ Reclaimed(o) /\ Unlinked(o) /\ Named(o)

LruInv ==
    /\ TypeOK
    /\ \A t \in Thread : Local(t)
    /\ WaiterRemembered
    /\ panic # "assert"
    /\ panic = "no" => \A o \in Obj : Sound(o)
    /\ RefsAddUp /\ ListsFit /\ LinksCount
=============================================================================
