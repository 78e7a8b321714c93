---------------------------- MODULE KobjLruProofs ----------------------------
(***************************************************************************)
(* Proofs about the object cache of module KobjLru: its reference counts,  *)
(* its lists and the links of the names that it holds add up, and its      *)
(* users never meet an object in the wrong state.                          *)
(***************************************************************************)
EXTENDS KobjLru, TLAPS

\* The time limits of the provers, in seconds.
USE SMTT(30), ZenonT(30)

-----------------------------------------------------------------------------
(***************************************************************************)
(* The lru list.                                                           *)
(***************************************************************************)

\* No object is on the list twice.
NoTwice == \A j, k \in 1..Len(lru) : lru[j] = lru[k] => j = k

\* kobj_lru_put puts an object at the head of the list.
LEMMA LruPush ==
    ASSUME lru \in Seq(Obj), NoTwice, NEW o \in Obj, ~OnLru(o), lru' = <<o>> \o lru
    PROVE  /\ lru' \in Seq(Obj) /\ NoTwice'
           /\ \A p : OnLru(p)' <=> p = o \/ OnLru(p)
  <1>1. /\ lru' \in Seq(Obj) /\ Len(lru) \in Nat
        /\ Len(lru') = Len(lru) + 1
        /\ lru'[1] = o
        /\ \A j \in 1..Len(lru) : lru'[j + 1] = lru[j]
    OBVIOUS
  <1>2. ASSUME NEW j \in 1..Len(lru'), j # 1
        PROVE  j - 1 \in 1..Len(lru) /\ lru'[j] = lru[j - 1]
    <2>1. j - 1 \in 1..Len(lru) /\ (j - 1) + 1 = j
      BY <1>1, <1>2
    <2>2. QED
      BY <1>1, <2>1
  <1>3. NoTwice'
    <2> SUFFICES ASSUME NEW i \in 1..Len(lru'), NEW j \in 1..Len(lru'), lru'[i] = lru'[j], i # j
                 PROVE  FALSE
      BY DEF NoTwice
    <2>1. CASE i # 1 /\ j # 1
      <3>1. i - 1 \in 1..Len(lru) /\ j - 1 \in 1..Len(lru) /\ lru[i - 1] = lru[j - 1]
        BY <1>2, <2>1
      <3>2. i - 1 = j - 1
        BY <3>1, ZenonT(40) DEF NoTwice
      <3>3. QED
        BY <1>1, <3>2
    <2>2. CASE i = 1
      BY <1>1, <1>2, <2>2 DEF OnLru
    <2>3. CASE j = 1
      BY <1>1, <1>2, <2>3 DEF OnLru
    <2>4. QED
      BY <2>1, <2>2, <2>3
  <1>4. ASSUME NEW p PROVE OnLru(p)' <=> p = o \/ OnLru(p)
    <2>1. CASE p = o
      <3>1. 1 \in 1..Len(lru')
        BY <1>1
      <3>2. QED
        BY <1>1, <2>1, <3>1 DEF OnLru
    <2>2. ASSUME NEW j \in 1..Len(lru), lru[j] = p PROVE OnLru(p)'
      <3>1. j + 1 \in 1..Len(lru') /\ lru'[j + 1] = p
        BY <1>1, <2>2
      <3>2. QED
        BY <3>1 DEF OnLru
    <2>3. ASSUME NEW j \in 1..Len(lru'), lru'[j] = p, p # o PROVE OnLru(p)
      BY <1>1, <1>2, <2>3 DEF OnLru
    <2>4. QED
      BY <2>1, <2>2, <2>3, ZenonT(40) DEF OnLru
  <1>5. QED
    BY <1>1, <1>3, <1>4, ZenonT(40)

\* kobj_lru_reclaim takes the object at its tail.
LEMMA LruPop ==
    ASSUME lru \in Seq(Obj), NoTwice, lru # <<>>, lru' = SubSeq(lru, 1, Len(lru) - 1)
    PROVE  /\ lru' \in Seq(Obj) /\ NoTwice'
           /\ lru[Len(lru)] \in Obj /\ OnLru(lru[Len(lru)])
           /\ \A p : OnLru(p)' <=> OnLru(p) /\ p # lru[Len(lru)]
  <1>0. Len(lru) \in Nat /\ Len(lru) # 0
    OBVIOUS
  <1>1. /\ lru' \in Seq(Obj) /\ Len(lru) \in Nat \ {0}
        /\ Len(lru') = Len(lru) - 1
        /\ \A j \in 1..(Len(lru) - 1) : lru'[j] = lru[j]
    <2>1. ASSUME NEW n \in 1..Len(lru)
          PROVE  /\ SubSeq(lru, 1, n - 1) \in Seq(Obj)
                 /\ Len(SubSeq(lru, 1, n - 1)) = n - 1
                 /\ \A j \in 1..(n - 1) : SubSeq(lru, 1, n - 1)[j] = lru[j]
      OBVIOUS
    <2>2. Len(lru) \in 1..Len(lru)
      BY <1>0
    <2>3. QED
      BY <1>0, <2>1, <2>2, ZenonT(40)
  <1>2. Len(lru) \in 1..Len(lru) /\ lru[Len(lru)] \in Obj
    BY <1>1
  <1>3. NoTwice'
    BY <1>1 DEF NoTwice
  <1>4. ASSUME NEW p PROVE OnLru(p)' <=> OnLru(p) /\ p # lru[Len(lru)]
    BY <1>1, <1>2 DEF OnLru, NoTwice
  <1>5. QED
    BY <1>1, <1>2, <1>3, <1>4, ZenonT(40) DEF OnLru

\* kobj_lru_get takes an object from the middle.
LEMMA LruDrop ==
    ASSUME lru \in Seq(Obj), NoTwice, NEW o \in Obj, OnLru(o), lru' = LruWithout(o)
    PROVE  /\ lru' \in Seq(Obj) /\ NoTwice'
           /\ \A p : OnLru(p)' <=> OnLru(p) /\ p # o
  <1> DEFINE new(k) == [j \in 1..(Len(lru) - 1) |-> IF j < k THEN lru[j] ELSE lru[j + 1]]
  <1>1. PICK k \in 1..Len(lru) : lru[k] = o /\ lru' = new(k)
    BY ZenonT(40) DEF OnLru, LruWithout
  <1>2. /\ lru' \in Seq(Obj) /\ Len(lru) \in Nat \ {0}
        /\ Len(lru') = Len(lru) - 1
    BY <1>1
  <1>3. \A j \in 1..(Len(lru) - 1) : lru'[j] = IF j < k THEN lru[j] ELSE lru[j + 1]
    BY <1>1
  <1> HIDE DEF new
  <1>4. NoTwice'
    <2> SUFFICES ASSUME NEW i \in 1..Len(lru'), NEW j \in 1..Len(lru'), lru'[i] = lru'[j]
                 PROVE  i = j
      BY DEF NoTwice
    <2>1. /\ (IF i < k THEN i ELSE i + 1) \in 1..Len(lru)
          /\ (IF j < k THEN j ELSE j + 1) \in 1..Len(lru)
      BY <1>1, <1>2
    <2>2. (IF i < k THEN i ELSE i + 1) = (IF j < k THEN j ELSE j + 1)
      BY <1>2, <1>3, <2>1, ZenonT(40) DEF NoTwice
    <2>3. QED
      BY <1>1, <1>2, <2>2
  <1>5. ASSUME NEW p PROVE OnLru(p)' <=> OnLru(p) /\ p # o
    <2>1. ASSUME NEW j \in 1..Len(lru'), lru'[j] = p PROVE OnLru(p) /\ p # o
      <3>1. \E i \in 1..Len(lru) : i # k /\ lru[i] = p
        BY <1>1, <1>2, <1>3, <2>1
      <3>2. QED
        BY <1>1, <3>1 DEF OnLru, NoTwice
    <2>2. ASSUME NEW j \in 1..Len(lru), lru[j] = p, p # o PROVE OnLru(p)'
      <3>1. \E i \in 1..Len(lru') : lru'[i] = p
        <4>1. CASE j < k
          BY <1>1, <1>2, <1>3, <2>2, <4>1
        <4>2. CASE ~(j < k)
          <5>1. j # k /\ j - 1 \in 1..Len(lru') /\ ~(j - 1 < k)
            BY <1>1, <1>2, <2>2, <4>2
          <5>2. lru'[j - 1] = p
            BY <1>2, <1>3, <2>2, <5>1
          <5>3. QED
            BY <5>1, <5>2, ZenonT(40)
        <4>3. QED
          BY <4>1, <4>2
      <3>2. QED
        BY <3>1, ZenonT(40) DEF OnLru
    <2>3. QED
      BY <2>1, <2>2 DEF OnLru
  <1>6. QED
    BY <1>2, <1>4, <1>5

-----------------------------------------------------------------------------
(***************************************************************************)
(* The invariant, object by object.                                        *)
(***************************************************************************)

\* What the steps need of the theory of finite sets.  The lemmas on single
\* steps have it as a part of Whole, and LEMMA SetTheory proves it.
SubsetFinite == \A S, T : IsFiniteSet(S) /\ T \subseteq S => IsFiniteSet(T)

ProductFinite == \A S : IsFiniteSet(S) => IsFiniteSet(S \X (1..3))

Sizes == \A S : IsFiniteSet(S) =>
    /\ Cardinality(S) \in Nat
    /\ Cardinality(S) = 0 <=> S = {}
    /\ Cardinality(S) = 1 => \E x : S = {x}

OneElement == \A x : Cardinality({x}) = 1

AddOne == \A S, x : IsFiniteSet(S) /\ x \notin S =>
    IsFiniteSet(S \cup {x}) /\ Cardinality(S \cup {x}) = Cardinality(S) + 1

RemoveOne == \A S, x : IsFiniteSet(S) =>
    /\ IsFiniteSet(S \ {x})
    /\ Cardinality(S \ {x}) = IF x \in S THEN Cardinality(S) - 1 ELSE Cardinality(S)

SetFacts == SubsetFinite /\ ProductFinite /\ Sizes /\ OneElement /\ AddOne /\ RemoveOne

\* The parts of LruInv that speak of one object.
Count(o) == refs[o] = Cardinality(Held(o))
                      + (IF Cached(o) /\ "DESTROY" \notin flags[o] THEN 2 ELSE 0)

Listed(o) ==
    /\ OnLru(o) <=> Cached(o) /\ Users(o) = {}
    /\ o \in active <=> Cached(o) /\ Users(o) # {} /\ "DESTROY" \notin flags[o]

Waited(o) == \A t \in Users(o) : pc[t] = "wait" /\ t \in wait[o] =>
    \E u \in Users(o) : pc[u] \in Starting \cup {"ready", "error"}

Fine(o) == Sound(o) /\ Count(o) /\ Listed(o) /\ Waited(o)

\* The invariant of a kernel that has not stopped.
Whole ==
    /\ SetFacts
    /\ TypeOK /\ panic = "no"
    /\ \A t \in Thread : Local(t)
    /\ \A o \in Obj : Fine(o)
    /\ NoTwice
    /\ LinksCount

\* What a thread t that works on object o leaves alone: the other threads...
ThreadsApart(t) == \A u \in Thread \ {t} :
    /\ pc'[u] = pc[u] /\ at'[u] = at[u] /\ want'[u] = want[u]
    /\ ref'[u] = ref[u] /\ drops'[u] = drops[u]

\* ... and the other objects.
ObjectsApart(t, o) ==
    /\ at[t] \in {NULL, o} /\ at'[t] \in {NULL, o}
    /\ \A p \in Obj \ {o} :
          /\ refs'[p] = refs[p] /\ flags'[p] = flags[p] /\ dflags'[p] = dflags[p]
          /\ id'[p] = id[p] /\ wait'[p] = wait[p]
          /\ p \in active' <=> p \in active
          /\ OnLru(p)' <=> OnLru(p)
    /\ \A i \in Id : hash'[i] = hash[i] \/ (hash[i] \in {NULL, o} /\ hash'[i] \in {NULL, o})
    /\ \A i \in present : i \in present' \/ hash[i] = o

\* Objects that a step of t leaves alone stay as they are.
LEMMA OthersFine ==
    ASSUME Whole, NEW t \in Thread, NEW o, ThreadsApart(t), ObjectsApart(t, o),
           NEW p \in Obj, p # o
    PROVE  Fine(p)'
  <1>0. p # NULL /\ Fine(p)
    BY NoObject, ZenonT(40) DEF Whole
  <1>1. Users(p)' = Users(p)
    BY <1>0 DEF Users, ThreadsApart, ObjectsApart
  <1>2. ASSUME NEW u \in Users(p)
        PROVE  /\ pc'[u] = pc[u] /\ want'[u] = want[u] /\ drops'[u] = drops[u]
               /\ want[u] \in Id /\ u \in Thread
    <2>1. u \in Thread /\ at[u] = p /\ u # t
      BY <1>0 DEF Users, ObjectsApart
    <2>2. want[u] \in Id
      BY <1>0, <2>1, ZenonT(40) DEF Whole, TypeOK, Local
    <2>3. QED
      BY <2>1, <2>2, ZenonT(40) DEF ThreadsApart
  <1>3. \A i \in Id : hash'[i] = p <=> hash[i] = p
    BY <1>0 DEF ObjectsApart
  <1>4. Cached(p)' <=> Cached(p)
    BY <1>3, ZenonT(40) DEF Cached
  <1>5. /\ refs'[p] = refs[p] /\ flags'[p] = flags[p] /\ dflags'[p] = dflags[p]
        /\ id'[p] = id[p] /\ wait'[p] = wait[p]
        /\ p \in active' <=> p \in active
        /\ OnLru(p)' <=> OnLru(p)
    BY ZenonT(40) DEF ObjectsApart
  <1>6. Hashed(p)'
    BY <1>0, <1>1, <1>2, <1>3, <1>5 DEF Fine, Sound, Hashed
  <1>7. Started(p)'
    BY <1>0, <1>1, <1>2, <1>3, <1>5 DEF Fine, Sound, Started
  <1>8. Used(p)'
    BY <1>0, <1>1, <1>2, <1>3, <1>5, ZenonT(40) DEF Fine, Sound, Used
  <1>9. Reclaimed(p)'
    BY <1>0, <1>1, <1>2, <1>4, <1>5, ZenonT(40) DEF Fine, Sound, Reclaimed
  <1>10. Unlinked(p)'
    BY <1>0, <1>1, <1>2, <1>4, <1>5, ZenonT(40) DEF Fine, Sound, Unlinked
  <1>11. Named(p)'
    <2>1. ASSUME NEW i \in Id, hash'[i] = p, "INIT" \in flags'[p]
          PROVE  i \in present' \/ \E u \in Users(p)' : pc'[u] = "remove"
      BY <1>0, <1>1, <1>2, <1>3, <1>5, <2>1, ZenonT(40) DEF Fine, Sound, Named, ObjectsApart
    <2>2. ASSUME NEW u \in Users(p)', pc'[u] = "mark_ready" PROVE want'[u] \in present'
      <3>1. want[u] \in present /\ hash[want[u]] = p
        BY <1>0, <1>1, <1>2, <2>2, ZenonT(40) DEF Fine, Sound, Named, Started, Starting
      <3>2. QED
        BY <1>1, <1>2, <3>1, ZenonT(40) DEF ObjectsApart
    <2>3. QED
      BY <2>1, <2>2, ZenonT(40) DEF Named
  <1>12. Waited(p)'
    BY <1>0, <1>1, <1>2, <1>5, ZenonT(40) DEF Fine, Waited
  <1>13. Listed(p)'
    BY <1>0, <1>1, <1>4, <1>5, ZenonT(40) DEF Fine, Listed
  <1>14. Count(p)'
    <2>1. \A u \in Users(p) : Share(u)' = Share(u)
      BY <1>2, ZenonT(40) DEF Share
    <2>2. Held(p)' = Held(p)
      BY <1>1, <2>1, ZenonT(40) DEF Held
    <2>3. QED
      BY <1>0, <1>4, <1>5, <2>2, ZenonT(40) DEF Fine, Count
  <1>15. QED
    BY <1>6, <1>7, <1>8, <1>9, <1>10, <1>11, <1>12, <1>13, <1>14, ZenonT(40) DEF Fine, Sound

\* A step of t on o keeps the invariant when it keeps it of t and o.
LEMMA Combine ==
    ASSUME Whole, NEW t \in Thread, NEW o, ThreadsApart(t), ObjectsApart(t, o),
           TypeOK', panic' = "no", Local(t)', o \in Obj => Fine(o)', NoTwice', LinksCount'
    PROVE  LruInv'
  <1>1. \A p \in Obj : Fine(p)'
    BY OthersFine, ZenonT(40)
  <1>2. \A u \in Thread : Local(u)'
    <2> SUFFICES ASSUME NEW u \in Thread, u # t PROVE Local(u)'
      OBVIOUS
    <2>1. Local(u)
      BY ZenonT(40) DEF Whole
    <2>2. QED
      BY <2>1 DEF Local, ThreadsApart
  <1>3. WaiterRemembered'
    <2> SUFFICES ASSUME NEW u \in Thread, pc'[u] = "wait", u \in wait'[at'[u]]
                 PROVE  \E v \in Thread :
                          /\ pc'[v] \in {"init", "mark_ready", "mark_error", "ready", "error"}
                          /\ at'[v] = at'[u]
      BY ZenonT(40) DEF WaiterRemembered
    <2>1. at'[u] \in Obj
      BY <1>2, ZenonT(40) DEF TypeOK, Local
    <2>2. \E v \in Users(at[u])' : pc'[v] \in Starting \cup {"ready", "error"}
      BY <1>1, <2>1, ZenonT(40) DEF Fine, Waited, Users
    <2>3. QED
      BY <2>2, ZenonT(40) DEF Users, Starting
  <1>4. RefsAddUp'
    BY <1>1, ZenonT(40) DEF RefsAddUp, Fine, Count
  <1>5. ListsFit'
    BY <1>1, ZenonT(40) DEF ListsFit, Fine, Listed, NoTwice
  <1>6. \A p \in Obj : Sound(p)'
    BY <1>1 DEF Fine
  <1>7. QED
    BY <1>2, <1>3, <1>4, <1>5, <1>6, ZenonT(40) DEF LruInv

-----------------------------------------------------------------------------
(***************************************************************************)
(* Counting references.                                                    *)
(***************************************************************************)

\* The references that the users of an object have are finitely many.
LEMMA HeldFinite ==
    ASSUME Whole, NEW o
    PROVE  /\ IsFiniteSet(Held(o)) /\ Cardinality(Held(o)) \in Nat
           /\ (Cardinality(Held(o)) = 0 <=> Held(o) = {})
  <1>1. SubsetFinite /\ ProductFinite /\ Sizes
    BY ZenonT(40) DEF Whole, SetFacts
  <1>2. IsFiniteSet(Users(o))
    BY <1>1, Bounded, ZenonT(40) DEF Users, SubsetFinite
  <1>3. IsFiniteSet(Users(o) \X (1..3))
    BY <1>1, <1>2, ZenonT(40) DEF ProductFinite
  <1>4. IsFiniteSet(Held(o))
    BY <1>1, <1>3, ZenonT(40) DEF Held, SubsetFinite
  <1>5. QED
    BY <1>1, <1>4, ZenonT(40) DEF Sizes

\* A user has at least one reference.
LEMMA ShareRange ==
    ASSUME TypeOK, NEW t \in Thread, Local(t)
    PROVE  Share(t) \in 1..3
  <1>1. CASE pc[t] = "error"
    BY <1>1 DEF Share
  <1>2. CASE pc[t] = "putref"
    <2>1. drops[t] \in 0..3 /\ drops[t] > 0
      BY <1>2, ZenonT(40) DEF TypeOK, Local
    <2>2. Share(t) = drops[t]
      BY <1>2, ZenonT(40) DEF Share
    <2>3. QED
      BY <2>1, <2>2
  <1>3. CASE pc[t] \notin {"error", "putref"}
    BY <1>3 DEF Share
  <1>4. QED
    BY <1>1, <1>2, <1>3, ZenonT(40)

\* The references of a user are in Held.
LEMMA HeldElement ==
    ASSUME TypeOK, NEW t \in Thread, Local(t), NEW o, at[t] = o, NEW d \in 1..Share(t)
    PROVE  <<t, d>> \in Held(o)
  BY ShareRange DEF Held, Users

\* The last reference to an object is that of its last user.
LEMMA LastRef ==
    ASSUME Whole, NEW t \in Thread, NEW o \in Obj, at[t] = o, Cardinality(Held(o)) = 1
    PROVE  Users(o) = {t} /\ Share(t) = 1
  <1>1. PICK x : Held(o) = {x}
    BY HeldFinite, ZenonT(40) DEF Whole, SetFacts, Sizes
  <1>2. TypeOK /\ \A u \in Thread : Local(u) /\ Share(u) \in 1..3
    BY ShareRange, ZenonT(40) DEF Whole
  <1>3. ASSUME NEW u \in Users(o) PROVE <<u, 1>> = x
    <2>1. u \in Thread /\ at[u] = o /\ 1 \in 1..Share(u)
      BY <1>2 DEF Users
    <2>2. <<u, 1>> \in Held(o)
      BY <1>2, <2>1, HeldElement
    <2>3. QED
      BY <1>1, <2>2
  <1>4. x = <<t, 1>> /\ \A u \in Users(o) : u = t
    BY <1>3 DEF Users
  <1>5. Share(t) = 1
    <2> SUFFICES ASSUME Share(t) # 1 PROVE FALSE
      OBVIOUS
    <2>0. 2 \in 1..Share(t)
      BY <1>2
    <2>1. <<t, 2>> \in Held(o) /\ <<t, 2>> = x
      BY <1>1, <1>2, <2>0, HeldElement, ZenonT(40)
    <2>2. QED
      BY <1>4, <2>1
  <1>6. QED
    BY <1>4, <1>5 DEF Users

\* What the reference count says of the users.
LEMMA CountMeans ==
    ASSUME Whole, NEW o \in Obj
    PROVE  /\ Cardinality(Held(o)) \in Nat
           /\ (Cardinality(Held(o)) = 0) <=> (Users(o) = {})
           /\ Cached(o) /\ "DESTROY" \notin flags[o] => refs[o] = Cardinality(Held(o)) + 2
           /\ ~(Cached(o) /\ "DESTROY" \notin flags[o]) => refs[o] = Cardinality(Held(o))
  <1>1. Count(o)
    BY ZenonT(40) DEF Whole, Fine
  <1>2. TypeOK /\ \A u \in Thread : Local(u) /\ Share(u) \in 1..3
    BY ShareRange DEF Whole
  <1>3. ASSUME NEW u \in Users(o) PROVE Held(o) # {}
    <2>1. u \in Thread /\ at[u] = o /\ 1 \in 1..Share(u)
      BY <1>2 DEF Users
    <2>2. QED
      BY <1>2, <2>1, HeldElement, ZenonT(40)
  <1>4. Users(o) = {} => Held(o) = {}
    BY DEF Held
  <1>5. QED
    BY <1>1, <1>3, <1>4, HeldFinite DEF Count

\* The references of t do not change.
LEMMA HeldSame ==
    ASSUME NEW t \in Thread, ThreadsApart(t), NEW o, at'[t] = o <=> at[t] = o,
           at[t] = o => Share(t)' = Share(t)
    PROVE  Held(o)' = Held(o)
  <1>1. \A u \in Thread : at'[u] = o <=> at[u] = o
    BY ZenonT(40) DEF ThreadsApart
  <1>2. \A u \in Thread \ {t} : Share(u)' = Share(u)
    BY DEF ThreadsApart, Share
  <1>3. Users(o)' = Users(o)
    BY <1>1, ZenonT(40) DEF Users
  <1>4. \A u \in Users(o) : Share(u)' = Share(u)
    BY <1>2 DEF Users
  <1>5. QED
    BY <1>3, <1>4, ZenonT(40) DEF Held

\* t gets a reference.
LEMMA HeldMore ==
    ASSUME Whole, NEW t \in Thread, ThreadsApart(t), NEW o, at[t] # o, at'[t] = o, Share(t)' = 1
    PROVE  /\ Users(o)' = Users(o) \cup {t}
           /\ Cardinality(Held(o)') = Cardinality(Held(o)) + 1
  <1>1. \A u \in Thread \ {t} : at'[u] = at[u] /\ Share(u)' = Share(u)
    BY ZenonT(40) DEF ThreadsApart, Share
  <1>2. Users(o)' = Users(o) \cup {t} /\ t \notin Users(o)
    BY <1>1 DEF Users
  <1>3. Held(o)' = Held(o) \cup {<<t, 1>>}
    <2>1. ASSUME NEW u \in Thread, NEW d \in 1..3
          PROVE  <<u, d>> \in Held(o)' <=> <<u, d>> \in Held(o) \/ <<u, d>> = <<t, 1>>
      <3>1. CASE u = t
        BY <1>2, <3>1 DEF Held
      <3>2. CASE u # t
        BY <1>1, <1>2, <3>2, ZenonT(40) DEF Held, Users
      <3>3. QED
        BY <3>1, <3>2, ZenonT(40)
    <2>2. Held(o) \subseteq Thread \X (1..3) /\ Held(o)' \subseteq Thread \X (1..3)
      BY DEF Held, Users
    <2>3. ASSUME NEW x \in Thread \X (1..3)
          PROVE  x \in Held(o)' <=> x \in Held(o) \/ x = <<t, 1>>
      <3>1. PICK u \in Thread, e \in 1..3 : x = <<u, e>>
        OBVIOUS
      <3>2. QED
        BY <2>1, <3>1, ZenonT(40)
    <2>4. <<t, 1>> \in Thread \X (1..3)
      OBVIOUS
    <2>5. QED
      BY <2>2, <2>3, <2>4, ZenonT(40)
  <1>4. <<t, 1>> \notin Held(o)
    BY <1>2 DEF Held
  <1>5. QED
    BY <1>2, <1>3, <1>4, HeldFinite, ZenonT(40) DEF Whole, SetFacts, AddOne

\* t drops a reference, its last one or one of several.
LEMMA HeldLess ==
    ASSUME Whole, NEW t \in Thread, ThreadsApart(t), NEW o, at[t] = o, NEW d \in 1..3, Share(t) = d,
           (d = 1 /\ at'[t] # o) \/ (d > 1 /\ at'[t] = o /\ Share(t)' = d - 1)
    PROVE  Cardinality(Held(o)') = Cardinality(Held(o)) - 1
  <1>1. \A u \in Thread \ {t} : at'[u] = at[u] /\ Share(u)' = Share(u)
    BY DEF ThreadsApart, Share
  <1>2. Held(o)' = Held(o) \ {<<t, d>>}
    <2>1. ASSUME NEW u \in Thread, NEW e \in 1..3
          PROVE  <<u, e>> \in Held(o)' <=> <<u, e>> \in Held(o) /\ <<u, e>> # <<t, d>>
      <3>1. CASE u = t
        BY <3>1 DEF Held, Users
      <3>2. CASE u # t
        BY <1>1, <3>2, ZenonT(40) DEF Held, Users
      <3>3. QED
        BY <3>1, <3>2, ZenonT(40)
    <2>2. Held(o) \subseteq Thread \X (1..3) /\ Held(o)' \subseteq Thread \X (1..3)
      BY DEF Held, Users
    <2>3. ASSUME NEW x \in Thread \X (1..3)
          PROVE  x \in Held(o)' <=> x \in Held(o) /\ x # <<t, d>>
      <3>1. PICK u \in Thread, e \in 1..3 : x = <<u, e>>
        OBVIOUS
      <3>2. QED
        BY <2>1, <3>1, ZenonT(40)
    <2>4. QED
      BY <2>2, <2>3, ZenonT(40)
  <1>3. <<t, d>> \in Held(o)
    BY DEF Held, Users
  <1>4. QED
    BY <1>2, <1>3, HeldFinite, ZenonT(40) DEF Whole, SetFacts, RemoveOne

\* The only user of an object, with one reference.
LEMMA OnlyUser ==
    ASSUME Whole, NEW t, NEW o, Users(o) = {t}, Share(t) = 1
    PROVE  Cardinality(Held(o)) = 1
  <1>1. Held(o) = {<<t, 1>>}
    BY DEF Held
  <1>2. QED
    BY <1>1, ZenonT(40) DEF Whole, SetFacts, OneElement

-----------------------------------------------------------------------------
(***************************************************************************)
(* Counting links.                                                         *)
(***************************************************************************)

\* The unlinked entries of an inode are finitely many.
LEMMA DoomedFinite ==
    ASSUME Whole, NEW i
    PROVE  IsFiniteSet(Doomed(i)) /\ Cardinality(Doomed(i)) \in Nat
  <1>1. IsFiniteSet(Doomed(i))
    BY Bounded, ZenonT(40) DEF Doomed, Whole, SetFacts, SubsetFinite
  <1>2. QED
    BY <1>1, ZenonT(40) DEF Whole, SetFacts, Sizes

\* A step on one object leaves the other unlinked entries as they are.
LEMMA DoomedOthers ==
    ASSUME Whole, NEW t \in Thread, NEW o, ThreadsApart(t), ObjectsApart(t, o),
           NEW p \in Obj, p # o, NEW i
    PROVE  p \in Doomed(i)' <=> p \in Doomed(i)
  <1>1. id'[p] = id[p] /\ dflags'[p] = dflags[p]
    BY ZenonT(40) DEF ObjectsApart
  <1>2. at[t] # p /\ at'[t] # p
    BY NoObject, ZenonT(40) DEF ObjectsApart
  <1>3. \A u \in Thread : at'[u] = p /\ pc'[u] = "unlink" <=> at[u] = p /\ pc[u] = "unlink"
    BY <1>2, ZenonT(40) DEF ThreadsApart
  <1>4. QED
    BY <1>1, <1>3, ZenonT(40) DEF Doomed, Users

\* A step that does not unlink, or that is not the last to use an entry.
LEMMA LinksKept ==
    ASSUME Whole, NEW t \in Thread, NEW o, ThreadsApart(t), ObjectsApart(t, o),
           links' = links, present' = present,
           \A i \in Id : o \in Doomed(i)' <=> o \in Doomed(i)
    PROVE  LinksCount'
  <1>1. ASSUME NEW i \in Id PROVE Doomed(i)' = Doomed(i)
    <2>1. \A p \in Obj : p \in Doomed(i)' <=> p \in Doomed(i)
      BY DoomedOthers, ZenonT(40)
    <2>2. Doomed(i) \subseteq Obj /\ Doomed(i)' \subseteq Obj
      BY ZenonT(40) DEF Doomed
    <2>3. QED
      BY <2>1, <2>2, ZenonT(40)
  <1>2. QED
    BY <1>1 DEF LinksCount, Whole

\* A step that does not unlink, and does not end an unlinked entry.
LEMMA LinksSame ==
    ASSUME Whole, NEW t \in Thread, NEW o, ThreadsApart(t), ObjectsApart(t, o),
           links' = links, present' = present,
           \/ o \notin Obj
           \/ /\ dflags[o] # {"UNLINK", "UNCACHED"} /\ dflags'[o] # {"UNLINK", "UNCACHED"}
           \/ /\ id'[o] = id[o] /\ dflags'[o] = dflags[o]
              /\ pc[t] # "unlink" /\ pc'[t] # "unlink"
    PROVE  LinksCount'
  <1>1. ASSUME NEW i \in Id PROVE o \in Doomed(i)' <=> o \in Doomed(i)
    <2>1. CASE o \notin Obj
      BY <2>1, ZenonT(40) DEF Doomed
    <2>2. CASE dflags[o] # {"UNLINK", "UNCACHED"} /\ dflags'[o] # {"UNLINK", "UNCACHED"}
      BY <2>2, ZenonT(40) DEF Doomed
    <2>3. CASE /\ id'[o] = id[o] /\ dflags'[o] = dflags[o]
               /\ pc[t] # "unlink" /\ pc'[t] # "unlink"
      <3>1. \A u \in Thread : at'[u] = o /\ pc'[u] = "unlink" <=> at[u] = o /\ pc[u] = "unlink"
        BY <2>3, ZenonT(40) DEF ThreadsApart
      <3>2. QED
        BY <2>3, <3>1, ZenonT(40) DEF Doomed, Users
    <2>4. QED
      BY <2>1, <2>2, <2>3, ZenonT(40)
  <1>2. QED
    BY <1>1, LinksKept, ZenonT(40)

\* The last user of an unlinked entry drops the link of its inode.
LEMMA LinksDrop ==
    ASSUME Whole, NEW t \in Thread, NEW o \in Obj, ThreadsApart(t), ObjectsApart(t, o),
           Users(o) = {t}, pc[t] \in {"putref", "putref_retry", "reclaim_put"},
           dirent_drop(o), id' = id
    PROVE  LinksCount' /\ links' \in [Id -> Nat]
  <1>0. /\ dflags[o] \in SUBSET {"UNLINK", "UNCACHED"} /\ dflags'[o] = dflags[o] \ {"UNLINK"}
        /\ links \in [Id -> Nat] /\ LinksCount /\ panic = "no"
    BY ZenonT(40) DEF Whole, TypeOK, dirent_drop
  <1>1. "UNLINK" \in dflags[o] => dflags[o] = {"UNLINK", "UNCACHED"}
    <2>1. dflags[o] # {"UNLINK"}
      BY ZenonT(40) DEF Whole, Fine, Sound, Unlinked
    <2>2. QED
      BY <1>0, <2>1, ZenonT(40)
  <1>2. ASSUME NEW i \in Id
        PROVE  /\ o \in Doomed(i) <=> i = id[o] /\ "UNLINK" \in dflags[o]
               /\ Doomed(i)' = Doomed(i) \ {o}
    <2>1. o \in Doomed(i) <=> i = id[o] /\ "UNLINK" \in dflags[o]
      BY <1>1, ZenonT(40) DEF Doomed
    <2>2. o \notin Doomed(i)'
      BY <1>0, ZenonT(40) DEF Doomed
    <2>3. \A p \in Obj \ {o} : p \in Doomed(i)' <=> p \in Doomed(i)
      BY DoomedOthers, ZenonT(40)
    <2>4. Doomed(i) \subseteq Obj /\ Doomed(i)' \subseteq Obj
      BY ZenonT(40) DEF Doomed
    <2>5. QED
      BY <2>1, <2>2, <2>3, <2>4, ZenonT(40)
  <1>3. ASSUME NEW i \in Id
        PROVE  /\ links'[i] \in Nat
               /\ links'[i] = (IF i \in present' THEN 1 ELSE 0) + Cardinality(Doomed(i)')
    <2>1. links[i] = (IF i \in present THEN 1 ELSE 0) + Cardinality(Doomed(i)) /\ links[i] \in Nat
      BY <1>0, ZenonT(40) DEF LinksCount
    <2>2. IsFiniteSet(Doomed(i)) /\ Cardinality(Doomed(i)) \in Nat
      BY DoomedFinite
    <2>3. Cardinality(Doomed(i) \ {o}) =
              IF o \in Doomed(i) THEN Cardinality(Doomed(i)) - 1 ELSE Cardinality(Doomed(i))
      BY <2>2, ZenonT(40) DEF Whole, SetFacts, RemoveOne
    <2>4. Cardinality(Doomed(i) \ {o}) \in Nat
      BY <2>2, ZenonT(40) DEF Whole, SetFacts, RemoveOne, Sizes
    <2>5. /\ links'[i] = IF i = id[o] /\ "UNLINK" \in dflags[o] THEN links[i] - 1 ELSE links[i]
          /\ present' = present
      BY ZenonT(40) DEF dirent_drop
    <2>6. Cardinality(Doomed(i)') = Cardinality(Doomed(i) \ {o})
      BY <1>2, ZenonT(40)
    <2>7. CASE o \in Doomed(i)
      <3>1. links'[i] = links[i] - 1 /\ Cardinality(Doomed(i)') = Cardinality(Doomed(i)) - 1
        BY <1>2, <2>3, <2>5, <2>6, <2>7, ZenonT(40)
      <3>2. QED
        BY <2>1, <2>2, <2>4, <2>5, <2>6, <3>1
    <2>8. CASE o \notin Doomed(i)
      <3>1. links'[i] = links[i] /\ Cardinality(Doomed(i)') = Cardinality(Doomed(i))
        BY <1>2, <2>3, <2>5, <2>6, <2>8, ZenonT(40)
      <3>2. QED
        BY <2>1, <2>5, <3>1, ZenonT(40)
    <2>9. QED
      BY <2>7, <2>8, ZenonT(40)
  <1>4. links' \in [Id -> Nat]
    BY <1>3, ZenonT(40) DEF dirent_drop
  <1>5. QED
    BY <1>3, <1>4, ZenonT(40) DEF LinksCount

-----------------------------------------------------------------------------
(***************************************************************************)
(* Steps that drop a reference.                                            *)
(***************************************************************************)

\* kobj_putref by a user of the object: the count stays that of the users, and
\* the last user of an unlinked entry takes the link from its inode.
LEMMA DropRef ==
    ASSUME Whole, NEW t \in Thread, NEW o \in Obj, at[t] = o,
           pc[t] \in {"putref", "putref_retry", "reclaim_put"}, putref(o), ThreadsApart(t),
           \/ Share(t) = 1 /\ at'[t] = NULL
           \/ /\ pc[t] = "putref" /\ pc'[t] = "putref" /\ at'[t] = o /\ want'[t] = want[t]
              /\ drops[t] > 1 /\ drops'[t] = drops[t] - 1
    PROVE  /\ panic' = "no" /\ ObjectsApart(t, o) /\ Fine(o)' /\ LinksCount'
           /\ refs' \in [Obj -> Nat] /\ links' \in [Id -> Nat]
           /\ dflags' \in [Obj -> SUBSET {"UNLINK", "UNCACHED"}]
  <1>1. TypeOK /\ Local(t) /\ Fine(o) /\ t \in Users(o) /\ panic = "no" /\ o # NULL
    BY NoObject, ZenonT(40) DEF Whole, Users
  <1>2. /\ hash' = hash /\ active' = active /\ lru' = lru /\ flags' = flags /\ id' = id
        /\ wait' = wait /\ present' = present
    BY DEF putref, dirent_drop, direntVars
  <1>3. dflags'[o] = IF refs[o] = 1 THEN dflags[o] \ {"UNLINK"} ELSE dflags[o]
    BY <1>1, ZenonT(40) DEF putref, dirent_drop, direntVars, TypeOK
  <1>4. "INIT" \in flags[o]
    BY <1>1, ZenonT(40) DEF Fine, Sound, Used, Starting
  <1>5. Cached(o) => \E v \in Users(o) \ {t} : pc[v] \in Removing
    <2>1. pc[t] = "reclaim_put" => ~Cached(o)
      BY <1>1, ZenonT(40) DEF Fine, Sound, Reclaimed, Reclaiming
    <2>2. pc[t] = "putref_retry" => ~Cached(o)
      BY <1>1, ZenonT(40) DEF Fine, Sound, Used, Hashed, Cached
    <2>3. pc[t] = "putref" /\ Cached(o) => "UNCACHED" \in dflags[o]
      BY <1>1, ZenonT(40) DEF Fine, Sound, Used, Hashed, Cached
    <2>4. pc[t] = "putref" /\ Cached(o) => \E v \in Users(o) : pc[v] \in Removing
      BY <1>1, <2>3, ZenonT(40) DEF Fine, Sound, Unlinked
    <2>5. pc[t] \notin Removing
      BY ZenonT(40) DEF Removing
    <2>6. QED
      BY <2>1, <2>2, <2>4, <2>5
  <1>6. ObjectsApart(t, o)
    BY <1>2, ZenonT(40) DEF ObjectsApart, putref, dirent_drop, direntVars, OnLru, Whole, TypeOK
  <1>7. Cardinality(Held(o)') = Cardinality(Held(o)) - 1
    <2>1. CASE Share(t) = 1 /\ at'[t] = NULL
      BY <1>1, <2>1, HeldLess
    <2>2. CASE /\ pc[t] = "putref" /\ pc'[t] = "putref" /\ at'[t] = o
               /\ drops[t] > 1 /\ drops'[t] = drops[t] - 1
      <3>1. Share(t) = drops[t] /\ Share(t)' = drops[t] - 1 /\ drops[t] \in 1..3
        BY <1>1, <2>2 DEF Share, TypeOK
      <3>2. QED
        BY <2>2, <3>1, HeldLess, ZenonT(40)
    <2>3. QED
      BY <2>1, <2>2, ZenonT(40)
  <1>8. Users(o)' = {} => Users(o) = {t} /\ Share(t) = 1
    BY DEF Users, ThreadsApart
  <1>9. /\ refs[o] > 0 /\ refs'[o] = refs[o] - 1 /\ refs[o] \in Nat
        /\ refs[o] = 1 => Cardinality(Held(o)) = 1
    <2>1. refs[o] \in Nat
      BY <1>1 DEF TypeOK
    <2>2. Cardinality(Held(o)) \in Nat \ {0} /\ refs[o] >= Cardinality(Held(o))
      BY <1>1, CountMeans
    <2>3. refs'[o] = IF refs[o] > 0 THEN refs[o] - 1 ELSE refs[o]
      BY <1>1, ZenonT(40) DEF putref, TypeOK
    <2>4. QED
      BY <2>1, <2>2, <2>3
  <1>10. panic' = "no"
    BY <1>1, <1>9, ZenonT(40) DEF putref, Check
  <1>11. refs[o] = 1 => Users(o) = {t} /\ at'[t] = NULL /\ Users(o)' = {}
    <2> SUFFICES ASSUME refs[o] = 1 PROVE Users(o) = {t} /\ at'[t] = NULL /\ Users(o)' = {}
      OBVIOUS
    <2>1. Users(o) = {t} /\ Share(t) = 1
      BY <1>9, LastRef, ZenonT(40)
    <2>2. at'[t] = NULL
      BY <2>1 DEF Share
    <2>3. QED
      BY <1>1, <2>1, <2>2 DEF Users, ThreadsApart
  <1>12. Users(o)' = {} => refs[o] = 1
    <2> SUFFICES ASSUME Users(o)' = {} PROVE refs[o] = 1
      OBVIOUS
    <2>1. Cardinality(Held(o)) = 1
      BY <1>8, OnlyUser, ZenonT(40)
    <2>2. ~Cached(o)
      BY <1>5, <1>8, ZenonT(40)
    <2>3. QED
      BY <2>1, <2>2, CountMeans, ZenonT(40)
  <1>13. /\ \A u \in Users(o)' : u \in Users(o) /\ pc'[u] = pc[u] /\ want'[u] = want[u]
         /\ \A u \in Users(o) \ {t} : u \in Users(o)'
    BY <1>1 DEF Users, ThreadsApart
  <1>14. Hashed(o)' /\ Started(o)'
    BY <1>1, <1>2, <1>4, <1>13, ZenonT(40) DEF Fine, Sound, Hashed, Started
  <1>15. Used(o)'
    <2>1. Used(o) /\ (dflags'[o] = dflags[o] \/ dflags'[o] = dflags[o] \ {"UNLINK"})
      BY <1>1, <1>3, ZenonT(40) DEF Fine, Sound
    <2>2. "UNCACHED" \in dflags'[o] <=> "UNCACHED" \in dflags[o]
      BY <2>1, ZenonT(40)
    <2>3. flags' = flags /\ hash' = hash /\ id' = id /\ "INIT" \in flags[o]
      BY <1>2, <1>4, ZenonT(40)
    <2>4. \A u \in Users(o)' : u \in Users(o) /\ pc'[u] = pc[u] /\ want'[u] = want[u]
      BY <1>13, ZenonT(40)
    <2>5. ASSUME NEW u \in Users(o)'
          PROVE  /\ pc'[u] \notin Reclaiming =>
                       /\ id'[o] = want'[u]
                       /\ "LRU" \in flags'[o] /\ "ERR" \notin flags'[o] => hash'[want'[u]] = o
                 /\ pc'[u] \in Using => "ERR" \notin flags'[o]
                 /\ pc'[u] = "error" => "ERR" \in flags'[o]
                 /\ pc'[u] = "putref_retry" => "LRU" \notin flags'[o]
                 /\ pc'[u] = "putref" => "ERR" \in flags'[o] \/ "UNCACHED" \in dflags'[o]
      <3>1. u \in Users(o) /\ pc'[u] = pc[u] /\ want'[u] = want[u]
        BY <2>4, ZenonT(40)
      <3>2. QED
        BY <2>1, <2>2, <2>3, <3>1, ZenonT(40) DEF Used
    <2>6. QED
      BY <2>3, <2>5, ZenonT(40) DEF Used
  <1>16. Reclaimed(o)'
    <2>1. Cached(o)' <=> Cached(o)
      BY <1>2, ZenonT(40) DEF Cached
    <2>2. Reclaimed(o)
      BY <1>1, ZenonT(40) DEF Fine, Sound
    <2>3. "DESTROY" \in flags'[o] => \E u \in Users(o)' : pc'[u] \in {"release", "forget"}
      <3>1. pc[t] \notin {"release", "forget"}
        BY ZenonT(40)
      <3>2. QED
        BY <1>2, <1>13, <2>2, <3>1, ZenonT(40) DEF Reclaimed
    <2>4. ASSUME NEW u \in Users(o)', pc'[u] \in Reclaiming
          PROVE  /\ Users(o)' = {u}
                 /\ "LRU" \in flags'[o] /\ "ERR" \notin flags'[o]
                 /\ pc'[u] # "reclaim_put" => "DESTROY" \in flags'[o] /\ Cached(o)'
                 /\ pc'[u] = "reclaim_put" => ~Cached(o)'
      <3>1. u \in Users(o) /\ pc'[u] = pc[u] /\ \A v \in Users(o)' : v \in Users(o)
        BY <1>13, ZenonT(40)
      <3>2. Users(o) = {u}
        BY <2>2, <2>4, <3>1, ZenonT(40) DEF Reclaimed
      <3>3. Users(o)' = {u}
        BY <3>1, <3>2, ZenonT(40)
      <3>4. QED
        BY <1>2, <2>1, <2>2, <2>4, <3>1, <3>3, ZenonT(40) DEF Reclaimed
    <2>5. QED
      BY <2>3, <2>4, ZenonT(40) DEF Reclaimed
  <1>17. Unlinked(o)'
    <2>1. Cached(o)' <=> Cached(o)
      BY <1>2, ZenonT(40) DEF Cached
    <2>2. CASE refs[o] = 1
      <3>1. Users(o)' = {} /\ "UNLINK" \notin dflags'[o]
        BY <1>3, <1>11, <2>2, ZenonT(40)
      <3>2. ~Cached(o)
        BY <1>5, <1>11, <2>2, ZenonT(40)
      <3>3. QED
        BY <2>1, <3>1, <3>2, ZenonT(40) DEF Unlinked
    <2>3. CASE refs[o] # 1
      <3>1. Users(o)' # {} /\ Users(o) # {} /\ dflags'[o] = dflags[o]
        BY <1>1, <1>3, <1>12, <2>3, ZenonT(40)
      <3>2. pc[t] \notin Removing \cup {"use", "uncache"}
        BY DEF Removing
      <3>3. QED
        BY <1>1, <1>2, <1>13, <2>1, <3>1, <3>2, ZenonT(40) DEF Fine, Sound, Unlinked
    <2>4. QED
      BY <2>2, <2>3
  <1>18. Named(o)'
    BY <1>1, <1>2, <1>13, ZenonT(40) DEF Fine, Sound, Named
  <1>19. Waited(o)'
    BY <1>1, <1>2, <1>13, ZenonT(40) DEF Fine, Waited, Starting
  <1>20. Listed(o)'
    <2>1. Cached(o)' <=> Cached(o)
      BY <1>2, ZenonT(40) DEF Cached
    <2>2. Cached(o) => Users(o) # {} /\ Users(o)' # {}
      BY <1>5, <1>13, ZenonT(40)
    <2>3. OnLru(o)' <=> OnLru(o)
      BY <1>2, ZenonT(40) DEF OnLru
    <2>4. QED
      BY <1>1, <1>2, <2>1, <2>2, <2>3, ZenonT(40) DEF Fine, Listed
  <1>21. Count(o)'
    <2>1. Cached(o)' <=> Cached(o)
      BY <1>2, ZenonT(40) DEF Cached
    <2>2. Cardinality(Held(o)) \in Nat
      BY HeldFinite, ZenonT(40)
    <2>3. QED
      BY <1>1, <1>2, <1>7, <1>9, <2>1, <2>2 DEF Fine, Count
  <1>22. refs' \in [Obj -> Nat] /\ dflags' \in [Obj -> SUBSET {"UNLINK", "UNCACHED"}]
    <2>1. refs' \in [Obj -> Nat]
      <3>1. refs' = [refs EXCEPT ![o] = refs'[o]] /\ refs'[o] \in Nat
        BY <1>1, <1>9 DEF putref, TypeOK
      <3>2. QED
        BY <1>1, <3>1, ZenonT(40) DEF TypeOK
    <2>2. dflags' = dflags \/ dflags' = [dflags EXCEPT ![o] = dflags[o] \ {"UNLINK"}]
      BY ZenonT(40) DEF putref, dirent_drop, direntVars
    <2>3. dflags \in [Obj -> SUBSET {"UNLINK", "UNCACHED"}]
      BY <1>1, ZenonT(40) DEF TypeOK
    <2>4. QED
      BY <2>1, <2>2, <2>3, ZenonT(40)
  <1>23. LinksCount' /\ links' \in [Id -> Nat]
    <2>1. CASE refs[o] = 1
      BY <1>2, <1>6, <1>11, <2>1, LinksDrop, ZenonT(40) DEF putref
    <2>2. CASE refs[o] # 1
      <3>1. links' = links /\ dflags' = dflags
        BY <2>2, ZenonT(40) DEF putref, direntVars
      <3>2. (pc[t] # "unlink" /\ pc'[t] # "unlink") \/ at'[t] = NULL
        OBVIOUS
      <3>3. \A u \in Thread : at'[u] = o /\ pc'[u] = "unlink" <=> at[u] = o /\ pc[u] = "unlink"
        BY <1>1, <3>2, ZenonT(40) DEF ThreadsApart
      <3>4. \A i \in Id : o \in Doomed(i)' <=> o \in Doomed(i)
        BY <1>2, <3>1, <3>3, ZenonT(40) DEF Doomed, Users
      <3>5. QED
        BY <1>1, <1>2, <1>6, <3>1, <3>4, LinksKept, ZenonT(40) DEF TypeOK
    <2>3. QED
      BY <2>1, <2>2, ZenonT(40)
  <1>24. QED
    BY <1>6, <1>10, <1>14, <1>15, <1>16, <1>17, <1>18, <1>19, <1>20, <1>21, <1>22, <1>23, ZenonT(40)
       DEF Fine, Sound

\* kobj_lru_get gives back an object that was removed while it waited.
LEMMA PutrefRetryInv ==
    ASSUME Whole, NEW t \in Thread, PutrefRetry(t)
    PROVE  LruInv'
  <1>1. TypeOK /\ Local(t)
    BY ZenonT(40) DEF Whole
  <1>2. PICK o \in Obj : at[t] = o
    BY <1>1, ZenonT(40) DEF PutrefRetry, Goto, Local, TypeOK
  <1>3. /\ pc[t] = "putref_retry" /\ pc' = [pc EXCEPT ![t] = "get"]
        /\ at' = [at EXCEPT ![t] = NULL] /\ UNCHANGED <<want, ref, tried, cached, drops>>
        /\ putref(o)
    BY <1>2 DEF PutrefRetry, Goto
  <1>4. ThreadsApart(t) /\ at'[t] = NULL /\ Share(t) = 1
    BY <1>1, <1>3, ZenonT(40) DEF ThreadsApart, TypeOK, Share
  <1>5. /\ panic' = "no" /\ ObjectsApart(t, o) /\ Fine(o)' /\ LinksCount'
        /\ refs' \in [Obj -> Nat] /\ links' \in [Id -> Nat]
        /\ dflags' \in [Obj -> SUBSET {"UNLINK", "UNCACHED"}]
    BY <1>2, <1>3, <1>4, DropRef, ZenonT(40)
  <1>6. /\ UNCHANGED <<hash, active, lru, flags, id, wait, present>>
    BY <1>3 DEF putref, dirent_drop, direntVars
  <1>7. TypeOK'
    BY <1>1, <1>3, <1>5, <1>6, ZenonT(40) DEF TypeOK, PC
  <1>8. Local(t)'
    BY <1>1, <1>3, ZenonT(40) DEF TypeOK, Local
  <1>9. NoTwice'
    BY <1>6, ZenonT(40) DEF NoTwice, Whole
  <1>10. QED
    BY <1>4, <1>5, <1>7, <1>8, <1>9, Combine, ZenonT(40)

\* kobj_lru_reclaim drops the last reference.
LEMMA ReclaimPutInv ==
    ASSUME Whole, NEW t \in Thread, ReclaimPut(t)
    PROVE  LruInv'
  <1>1. TypeOK /\ Local(t)
    BY ZenonT(40) DEF Whole
  <1>2. PICK o \in Obj : at[t] = o
    BY <1>1, ZenonT(40) DEF ReclaimPut, Goto, Local, TypeOK
  <1>3. /\ pc[t] = "reclaim_put" /\ pc' = [pc EXCEPT ![t] = "get"]
        /\ at' = [at EXCEPT ![t] = NULL] /\ tried' = tried \cup {t}
        /\ UNCHANGED <<want, ref, cached, drops>>
        /\ putref(o)
    BY <1>2 DEF ReclaimPut, Goto
  <1>4. ThreadsApart(t) /\ at'[t] = NULL /\ Share(t) = 1
    BY <1>1, <1>3, ZenonT(40) DEF ThreadsApart, TypeOK, Share
  <1>5. /\ panic' = "no" /\ ObjectsApart(t, o) /\ Fine(o)' /\ LinksCount'
        /\ refs' \in [Obj -> Nat] /\ links' \in [Id -> Nat]
        /\ dflags' \in [Obj -> SUBSET {"UNLINK", "UNCACHED"}]
    BY <1>2, <1>3, <1>4, DropRef, ZenonT(40)
  <1>6. /\ UNCHANGED <<hash, active, lru, flags, id, wait, present>>
    BY <1>3 DEF putref, dirent_drop, direntVars
  <1>7. TypeOK'
    BY <1>1, <1>3, <1>5, <1>6, ZenonT(40) DEF TypeOK, PC
  <1>8. Local(t)'
    BY <1>1, <1>3, ZenonT(40) DEF TypeOK, Local
  <1>9. NoTwice'
    BY <1>6, ZenonT(40) DEF NoTwice, Whole
  <1>10. QED
    BY <1>4, <1>5, <1>7, <1>8, <1>9, Combine

\* A user that failed drops its references, one after the other.
LEMMA PutrefInv ==
    ASSUME Whole, NEW t \in Thread, Putref(t)
    PROVE  LruInv'
  <1>1. TypeOK /\ Local(t)
    BY ZenonT(40) DEF Whole
  <1>2. PICK o \in Obj : at[t] = o
    BY <1>1 DEF Putref, Goto, Local, TypeOK
  <1>3. /\ pc[t] = "putref" /\ pc' = [pc EXCEPT ![t] = IF drops[t] = 1 THEN "idle" ELSE "putref"]
        /\ putref(o) /\ drops[t] \in 1..3 /\ Share(t) = drops[t]
    <2>1. drops[t] \in 0..3 /\ pc[t] = "putref"
      BY <1>1, ZenonT(40) DEF Putref, Goto, TypeOK
    <2>2. drops[t] > 0
      BY <1>1, <2>1, ZenonT(40) DEF Local
    <2>3. QED
      BY <1>2, <2>1, <2>2 DEF Putref, Goto, Share
  <1>4. \/ drops[t] = 1 /\ Return(t) /\ pc'[t] = "idle"
        \/ /\ drops[t] - 1 \in 1..2 /\ drops' = [drops EXCEPT ![t] = drops[t] - 1] /\ pc'[t] = "putref"
           /\ UNCHANGED <<at, want, ref, tried, cached>>
    <2>1. pc'[t] = IF drops[t] = 1 THEN "idle" ELSE "putref"
      BY <1>1, <1>3, ZenonT(40) DEF TypeOK
    <2>2. QED
      BY <1>3, <2>1 DEF Putref
  <1>5. ThreadsApart(t)
    BY <1>1, <1>3, <1>4, ZenonT(40) DEF ThreadsApart, TypeOK, Return
  <1>6. \/ Share(t) = 1 /\ at'[t] = NULL
        \/ /\ pc[t] = "putref" /\ pc'[t] = "putref" /\ at'[t] = o /\ want'[t] = want[t]
           /\ drops[t] > 1 /\ drops'[t] = drops[t] - 1
    <2>1. CASE drops[t] = 1 /\ Return(t)
      BY <1>1, <1>3, <2>1, ZenonT(40) DEF TypeOK, Return
    <2>2. CASE /\ drops[t] - 1 \in 1..2 /\ drops' = [drops EXCEPT ![t] = drops[t] - 1]
               /\ pc'[t] = "putref" /\ UNCHANGED <<at, want>>
      <3>1. drops'[t] = drops[t] - 1
        BY <1>1, <2>2, ZenonT(40) DEF TypeOK
      <3>2. drops[t] > 1
        BY <1>3, <2>2
      <3>3. QED
        BY <1>2, <1>3, <2>2, <3>1, <3>2, ZenonT(40)
    <2>3. QED
      BY <1>4, <2>1, <2>2, ZenonT(40)
  <1>7. /\ panic' = "no" /\ ObjectsApart(t, o) /\ Fine(o)' /\ LinksCount'
        /\ refs' \in [Obj -> Nat] /\ links' \in [Id -> Nat]
        /\ dflags' \in [Obj -> SUBSET {"UNLINK", "UNCACHED"}]
    BY <1>2, <1>3, <1>5, <1>6, DropRef, ZenonT(40)
  <1>8. /\ UNCHANGED <<hash, active, lru, flags, id, wait, present>>
    BY <1>3, ZenonT(40) DEF putref, dirent_drop, direntVars
  <1>9. /\ pc' \in [Thread -> PC] /\ at' \in [Thread -> Obj \cup {NULL}]
        /\ want' \in [Thread -> Id \cup {NULL}] /\ ref' \in [Thread -> Nat]
        /\ tried' \subseteq Thread /\ cached' \subseteq Thread /\ drops' \in [Thread -> 0..3]
    <2>1. drops' \in [Thread -> 0..3]
      <3>1. drops' = [drops EXCEPT ![t] = 0] \/ drops' = [drops EXCEPT ![t] = drops[t] - 1]
        BY <1>4 DEF Return
      <3>2. drops \in [Thread -> 0..3]
        BY <1>1, ZenonT(40) DEF TypeOK
      <3>3. drops[t] - 1 \in 0..3 /\ 0 \in 0..3
        BY <1>3
      <3>4. QED
        BY <3>1, <3>2, <3>3, ZenonT(40)
    <2>2. pc' \in [Thread -> PC]
      BY <1>1, <1>3, ZenonT(40) DEF TypeOK, PC
    <2>3. CASE Return(t)
      BY <1>1, <2>1, <2>2, <2>3, ZenonT(40) DEF TypeOK, Return
    <2>4. CASE UNCHANGED <<at, want, ref, tried, cached>>
      BY <1>1, <2>1, <2>2, <2>4, ZenonT(40) DEF TypeOK
    <2>5. QED
      BY <1>4, <2>3, <2>4, ZenonT(40)
  <1>10. TypeOK'
    BY <1>1, <1>7, <1>8, <1>9, ZenonT(40) DEF TypeOK
  <1>11. Local(t)'
    <2>1. CASE pc'[t] = "idle" /\ Return(t)
      BY <1>1, <2>1, ZenonT(40) DEF TypeOK, Local, Return
    <2>2. CASE /\ drops[t] - 1 \in 1..2 /\ drops' = [drops EXCEPT ![t] = drops[t] - 1]
               /\ pc'[t] = "putref" /\ UNCHANGED <<at, want>>
      <3>0. drops'[t] = drops[t] - 1
        BY <1>1, <2>2, ZenonT(40) DEF TypeOK
      <3>1. drops'[t] > 0
        BY <2>2, <3>0
      <3>2. at'[t] = o /\ want'[t] # NULL
        BY <1>1, <1>2, <1>3, <2>2, ZenonT(40) DEF Local
      <3>3. QED
        BY <2>2, <3>1, <3>2, NoObject, ZenonT(40) DEF Local
    <2>3. QED
      BY <1>4, <2>1, <2>2, ZenonT(40)
  <1>12. NoTwice'
    BY <1>8, ZenonT(40) DEF NoTwice, Whole
  <1>13. QED
    BY <1>5, <1>7, <1>10, <1>11, <1>12, Combine, ZenonT(40)

-----------------------------------------------------------------------------
(***************************************************************************)
(* Steps that touch no object.                                             *)
(***************************************************************************)

\* A lookup begins.
LEMMA GetInv ==
    ASSUME Whole, NEW t \in Thread, NEW i \in Id, Get(t, i)
    PROVE  LruInv'
  <1>1. TypeOK /\ Local(t) /\ panic = "no"
    BY ZenonT(40) DEF Whole
  <1>2. /\ pc[t] = "idle" /\ pc' = [pc EXCEPT ![t] = "get"] /\ want' = [want EXCEPT ![t] = i]
        /\ cached' \in {cached, cached \cup {t}}
        /\ UNCHANGED <<lruVars, direntVars, at, ref, tried, drops, panic>>
    BY ZenonT(40) DEF Get, Goto
  <1>3. ThreadsApart(t)
    BY <1>1, <1>2 DEF ThreadsApart, TypeOK
  <1>4. ObjectsApart(t, NULL)
    BY <1>1, <1>2, ZenonT(40) DEF ObjectsApart, Local, lruVars, direntVars, OnLru
  <1>5. TypeOK'
    BY <1>1, <1>2, ZenonT(40) DEF TypeOK, PC, lruVars, direntVars
  <1>6. Local(t)'
    BY <1>1, <1>2, NoObject DEF TypeOK, Local
  <1>7. LinksCount'
    BY <1>2, <1>3, <1>4, NoObject, LinksSame, ZenonT(40) DEF direntVars
  <1>8. NoTwice'
    BY <1>2, ZenonT(40) DEF NoTwice, Whole, lruVars
  <1>9. QED
    BY <1>1, <1>2, <1>3, <1>4, <1>5, <1>6, <1>7, <1>8, NoObject, Combine, ZenonT(40)

\* A lookup that only asks the cache finds nothing.
LEMMA NotCachedInv ==
    ASSUME Whole, NEW t \in Thread, NotCached(t)
    PROVE  LruInv'
  <1>1. TypeOK /\ Local(t) /\ panic = "no"
    BY ZenonT(40) DEF Whole
  <1>2. /\ pc[t] = "get" /\ pc' = [pc EXCEPT ![t] = "idle"] /\ Return(t)
        /\ UNCHANGED <<lruVars, direntVars, panic>>
    BY ZenonT(40) DEF NotCached, Goto
  <1>3. ThreadsApart(t)
    BY <1>1, <1>2, ZenonT(40) DEF ThreadsApart, TypeOK, Return
  <1>4. ObjectsApart(t, NULL)
    BY <1>1, <1>2, ZenonT(40) DEF ObjectsApart, Local, TypeOK, Return, lruVars, direntVars, OnLru
  <1>5. TypeOK'
    BY <1>1, <1>2 DEF TypeOK, PC, Return, lruVars, direntVars
  <1>6. Local(t)'
    BY <1>1, <1>2 DEF TypeOK, Local, Return
  <1>7. LinksCount'
    BY <1>2, <1>3, <1>4, NoObject, LinksSame, ZenonT(40) DEF direntVars
  <1>8. NoTwice'
    BY <1>2 DEF NoTwice, Whole, lruVars
  <1>9. QED
    BY <1>1, <1>2, <1>3, <1>4, <1>5, <1>6, <1>7, <1>8, NoObject, Combine, ZenonT(40)

-----------------------------------------------------------------------------
(***************************************************************************)
(* Steps of a thread that goes on with its object.                         *)
(***************************************************************************)

LocalTypes ==
    /\ pc \in [Thread -> PC] /\ at \in [Thread -> Obj \cup {NULL}]
    /\ want \in [Thread -> Id \cup {NULL}] /\ ref \in [Thread -> Nat]
    /\ tried \subseteq Thread /\ cached \subseteq Thread /\ drops \in [Thread -> 0..3]
    /\ panic \in {"no", "double free", "assert"}

ObjectTypes ==
    /\ hash \in [Id -> Obj \cup {NULL}] /\ active \subseteq Obj /\ lru \in Seq(Obj)
    /\ refs \in [Obj -> Nat] /\ flags \in [Obj -> SUBSET {"LRU", "INIT", "ERR", "DESTROY"}]
    /\ dflags \in [Obj -> SUBSET {"UNLINK", "UNCACHED"}]
    /\ id \in [Obj -> Id \cup {NULL}] /\ wait \in [Obj -> SUBSET Thread]
    /\ present \subseteq Id /\ links \in [Id -> Nat]

\* t goes on with o, to the place "to".
Goes(t, o, to) ==
    /\ at[t] = o /\ pc' = [pc EXCEPT ![t] = to] /\ panic' = "no"
    /\ UNCHANGED <<at, want, tried, cached>>
    /\ ref' = ref \/ ref' = [ref EXCEPT ![t] = 0]
    /\ drops' = drops \/ \E d \in 0..3 : drops' = [drops EXCEPT ![t] = d]
    /\ to \in PC \ {"idle", "get", "reclaim", "wait"}
    /\ to = "putref" => drops'[t] > 0

\* What such a step means for t and for the users of o.
LEMMA Going ==
    ASSUME Whole, NEW t \in Thread, NEW o \in Obj, NEW to, Goes(t, o, to)
    PROVE  /\ ThreadsApart(t) /\ at'[t] = o /\ pc'[t] = to /\ want'[t] = want[t] /\ want[t] \in Id
           /\ Local(t)' /\ LocalTypes'
           /\ Users(o)' = Users(o) /\ t \in Users(o)
           /\ \A u \in Users(o) : want'[u] = want[u]
           /\ \A u \in Users(o) \ {t} : pc'[u] = pc[u]
  <1>1. LocalTypes /\ Local(t) /\ o # NULL /\ at[t] = o
    BY NoObject, ZenonT(40) DEF Whole, TypeOK, LocalTypes, Goes
  <1>2. /\ pc'[t] = to /\ pc' \in [Thread -> PC]
        /\ \A u \in Thread \ {t} : pc'[u] = pc[u]
    BY <1>1, ZenonT(40) DEF LocalTypes, Goes
  <1>3. drops' \in [Thread -> 0..3] /\ \A u \in Thread \ {t} : drops'[u] = drops[u]
    BY <1>1, ZenonT(40) DEF LocalTypes, Goes
  <1>4. ref' \in [Thread -> Nat] /\ \A u \in Thread \ {t} : ref'[u] = ref[u]
    <2>1. 0 \in Nat
      OBVIOUS
    <2>2. QED
      BY <1>1, <2>1, ZenonT(40) DEF LocalTypes, Goes
  <1>5. UNCHANGED <<at, want, tried, cached>> /\ panic' = "no"
    BY DEF Goes
  <1>6. ThreadsApart(t)
    BY <1>2, <1>3, <1>4, <1>5, ZenonT(40) DEF ThreadsApart
  <1>7. LocalTypes'
    BY <1>1, <1>2, <1>3, <1>4, <1>5, ZenonT(40) DEF LocalTypes
  <1>8. want[t] # NULL /\ want[t] \in Id
    BY <1>1, ZenonT(40) DEF Local, LocalTypes
  <1>9. Local(t)'
    BY <1>1, <1>2, <1>5, <1>8, ZenonT(40) DEF Local, Goes
  <1>10. Users(o)' = Users(o) /\ t \in Users(o)
    BY <1>1, <1>5, ZenonT(40) DEF Users
  <1>11. QED
    BY <1>1, <1>2, <1>5, <1>6, <1>7, <1>8, <1>9, <1>10, ZenonT(40) DEF Users

\* A step of t that goes on with its object keeps the invariant of all when it
\* keeps that of the object.
LEMMA GoneOn ==
    ASSUME Whole, NEW t \in Thread, NEW o \in Obj, NEW to, Goes(t, o, to),
           ObjectsApart(t, o), ObjectTypes', Fine(o)', NoTwice', LinksCount'
    PROVE  LruInv'
  <1>1. ThreadsApart(t) /\ Local(t)' /\ LocalTypes' /\ panic' = "no"
    BY Going, ZenonT(40) DEF Goes
  <1>2. TypeOK'
    BY <1>1, ZenonT(40) DEF TypeOK, LocalTypes, ObjectTypes
  <1>3. QED
    BY <1>1, <1>2, Combine, ZenonT(40)

\* A step of t that goes on with its object, and keeps its references.
LEMMA CountKept ==
    ASSUME Whole, NEW t \in Thread, NEW o \in Obj, at[t] = o, at'[t] = o, ThreadsApart(t),
           Share(t)' = Share(t), refs'[o] = refs[o],
           Cached(o)' /\ "DESTROY" \notin flags'[o] <=> Cached(o) /\ "DESTROY" \notin flags[o]
    PROVE  Count(o)'
  <1>1. Held(o)' = Held(o)
    BY HeldSame, ZenonT(40)
  <1>2. Count(o)
    BY ZenonT(40) DEF Whole, Fine
  <1>3. QED
    BY <1>1, <1>2, ZenonT(40) DEF Count

\* A step of a user that neither initializes nor reclaims, and that leaves the
\* cache as it is.
QuietStep(t, o, to) ==
    /\ Goes(t, o, to) /\ Share(t)' = Share(t)
    /\ pc[t] \notin Starting \cup Reclaiming /\ (pc[t] = "wait" => "INIT" \in flags[o])
    /\ to \notin Starting \cup Reclaiming \cup {"wait"}
    /\ UNCHANGED <<hash, refs, active, lru, flags, id>>
    /\ \A p \in Obj \ {o} : dflags'[p] = dflags[p] /\ wait'[p] = wait[p]
    /\ \A i \in present : i \in present' \/ hash[i] = o

\* What a step leaves alone that only changes where t is.
LEMMA Quiet ==
    ASSUME Whole, NEW t \in Thread, NEW o \in Obj, NEW to, QuietStep(t, o, to)
    PROVE  /\ ObjectsApart(t, o) /\ (Cached(o)' <=> Cached(o))
           /\ Hashed(o)' /\ Started(o)' /\ Reclaimed(o)' /\ Listed(o)' /\ Count(o)' /\ NoTwice'
           /\ "INIT" \in flags[o]
           /\ \A u \in Users(o) : pc[u] \notin Starting \cup Reclaiming
  <1>0. Goes(t, o, to)
    BY ZenonT(40) DEF QuietStep
  <1>1. /\ Goes(t, o, to) /\ Share(t)' = Share(t) /\ at[t] = o
        /\ pc[t] \notin Starting \cup Reclaiming /\ (pc[t] = "wait" => "INIT" \in flags[o])
        /\ to \notin Starting \cup Reclaiming \cup {"wait"}
        /\ UNCHANGED <<hash, refs, active, lru, flags, id>>
    BY ZenonT(40) DEF QuietStep, Goes
  <1>2. Fine(o) /\ NoTwice
    BY ZenonT(40) DEF Whole
  <1>3. /\ ThreadsApart(t) /\ at'[t] = o /\ pc'[t] = to
        /\ Users(o)' = Users(o) /\ t \in Users(o)
        /\ \A u \in Users(o) : want'[u] = want[u]
        /\ \A u \in Users(o) \ {t} : pc'[u] = pc[u]
    BY <1>0, Going, ZenonT(40)
  <1>4. (Cached(o)' <=> Cached(o)) /\ NoTwice' /\ \A p : OnLru(p)' <=> OnLru(p)
    BY <1>1, <1>2, ZenonT(40) DEF Cached, NoTwice, OnLru
  <1>5. ObjectsApart(t, o)
    BY <1>1, <1>3, <1>4, ZenonT(40) DEF ObjectsApart, QuietStep
  <1>6. "INIT" \in flags[o]
    <2>1. pc[t] \notin Starting \cup {"wait"} => "INIT" \in flags[o]
      BY <1>2, <1>3, ZenonT(40) DEF Fine, Sound, Used
    <2>2. QED
      BY <1>1, <2>1, ZenonT(40)
  <1>7. \A u \in Users(o) : pc[u] \notin Starting \cup Reclaiming /\ pc'[u] \notin Starting \cup Reclaiming
    <2>1. \A u \in Users(o) : pc[u] \notin Starting
      BY <1>2, <1>6, ZenonT(40) DEF Fine, Sound, Started
    <2>2. \A u \in Users(o) : pc[u] \notin Reclaiming
      BY <1>1, <1>2, <1>3, ZenonT(40) DEF Fine, Sound, Reclaimed
    <2>3. QED
      BY <1>1, <1>3, <2>1, <2>2, ZenonT(40)
  <1>8. Hashed(o)'
    BY <1>1, <1>2, <1>6, ZenonT(40) DEF Fine, Sound, Hashed
  <1>9. Started(o)'
    BY <1>3, <1>7, ZenonT(40) DEF Started
  <1>10. Reclaimed(o)'
    <2>1. "DESTROY" \notin flags[o]
      BY <1>2, <1>7, ZenonT(40) DEF Fine, Sound, Reclaimed, Reclaiming
    <2>2. QED
      BY <1>1, <1>3, <1>7, <2>1, ZenonT(40) DEF Reclaimed
  <1>11. Listed(o)'
    BY <1>1, <1>2, <1>3, <1>4, ZenonT(40) DEF Fine, Listed
  <1>12. Count(o)'
    BY <1>1, <1>3, <1>4, CountKept, ZenonT(40)
  <1>13. QED
    BY <1>4, <1>5, <1>6, <1>7, <1>8, <1>9, <1>10, <1>11, <1>12, ZenonT(40)

-----------------------------------------------------------------------------
(***************************************************************************)
(* Users of directory entries.                                             *)
(***************************************************************************)

\* The end of such a step.
LEMMA QuietInv ==
    ASSUME Whole, NEW t \in Thread, NEW o \in Obj, NEW to, QuietStep(t, o, to), ObjectTypes',
           Used(o)', Unlinked(o)', Named(o)', Waited(o)', LinksCount'
    PROVE  LruInv'
  <1>1. /\ ObjectsApart(t, o)
        /\ Hashed(o)' /\ Started(o)' /\ Reclaimed(o)' /\ Listed(o)' /\ Count(o)' /\ NoTwice'
    BY Quiet, ZenonT(40)
  <1>2. Fine(o)'
    BY <1>1, ZenonT(40) DEF Fine, Sound
  <1>3. QED
    BY <1>1, <1>2, GoneOn, ZenonT(40) DEF QuietStep

\* blocklist_unblock_all after initialization: the first user is now a user
\* like the others, or drops its references.
LEMMA WakeInv ==
    ASSUME Whole, NEW t \in Thread, Wake(t)
    PROVE  LruInv'
  <1>1. LocalTypes /\ ObjectTypes /\ Local(t) /\ panic = "no" /\ pc[t] \in {"ready", "error"}
    BY ZenonT(40) DEF Whole, TypeOK, LocalTypes, ObjectTypes, Wake, Goto
  <1>2. PICK o \in Obj : at[t] = o /\ Fine(o)
    BY <1>1, ZenonT(40) DEF Local, LocalTypes, Whole
  <1>3. /\ wait' = [wait EXCEPT ![o] = {}]
        /\ UNCHANGED <<hash, active, lru, refs, flags, id, dflags, present, links>>
        /\ UNCHANGED <<at, want, ref, tried, cached, panic>>
    BY <1>2, ZenonT(40) DEF Wake, direntVars
  <1>4. PICK to \in {"use", "putref"} :
          /\ pc' = [pc EXCEPT ![t] = to]
          /\ to = "use" => pc[t] = "ready" /\ drops' = drops
          /\ to = "putref" => pc[t] = "error" /\ drops' = [drops EXCEPT ![t] = 3]
    BY ZenonT(40) DEF Wake, Goto
  <1>5. to = "putref" => drops'[t] = 3
    BY <1>1, <1>4, ZenonT(40) DEF LocalTypes
  <1>6. Goes(t, o, to)
    <2>1. 3 \in 0..3 /\ 3 > 0
      OBVIOUS
    <2>2. QED
      BY <1>1, <1>2, <1>3, <1>4, <1>5, <2>1, ZenonT(40) DEF Goes, PC
  <1>7. /\ at'[t] = o /\ pc'[t] = to /\ ThreadsApart(t)
        /\ Users(o)' = Users(o) /\ t \in Users(o)
        /\ \A u \in Users(o) : want'[u] = want[u]
        /\ \A u \in Users(o) \ {t} : pc'[u] = pc[u]
    BY <1>6, Going, ZenonT(40)
  <1>8. Share(t)' = Share(t)
    BY <1>4, <1>5, <1>7 DEF Share
  <1>9. QuietStep(t, o, to)
    BY <1>1, <1>3, <1>4, <1>6, <1>8, ZenonT(40) DEF QuietStep, Starting, Reclaiming, ObjectTypes
  <1>10. (Cached(o)' <=> Cached(o)) /\ "INIT" \in flags[o] /\ ObjectsApart(t, o)
    BY <1>9, Quiet, ZenonT(40)
  <1>11. ObjectTypes'
    BY <1>1, <1>3, ZenonT(40) DEF ObjectTypes
  <1>12. Used(o)'
    BY <1>2, <1>3, <1>4, <1>7, <1>10, ZenonT(40) DEF Fine, Sound, Used, Using, Reclaiming, Starting
  <1>13. Unlinked(o)'
    BY <1>2, <1>3, <1>4, <1>7, <1>10, ZenonT(40) DEF Fine, Sound, Unlinked, Removing
  <1>14. Named(o)'
    BY <1>2, <1>3, <1>4, <1>7, ZenonT(40) DEF Fine, Sound, Named
  <1>15. Waited(o)'
    BY <1>1, <1>3, ZenonT(40) DEF Waited, ObjectTypes
  <1>16. LinksCount'
    BY <1>3, <1>4, <1>7, <1>10, LinksSame, ZenonT(40)
  <1>17. QED
    BY <1>9, <1>11, <1>12, <1>13, <1>14, <1>15, <1>16, QuietInv, ZenonT(40)

\* A user marks its entry as unlinked.
LEMMA UnlinkInv ==
    ASSUME Whole, NEW t \in Thread, Unlink(t)
    PROVE  LruInv'
  <1>1. LocalTypes /\ ObjectTypes /\ Local(t) /\ panic = "no" /\ pc[t] = "use"
    BY ZenonT(40) DEF Whole, TypeOK, LocalTypes, ObjectTypes, Unlink, Goto
  <1>2. PICK o \in Obj : at[t] = o /\ Fine(o)
    BY <1>1, ZenonT(40) DEF Local, LocalTypes, Whole
  <1>3. /\ pc' = [pc EXCEPT ![t] = "use"]
        /\ dflags' = [dflags EXCEPT ![o] = dflags[o] \cup {"UNLINK"}]
        /\ UNCHANGED <<hash, active, lru, refs, flags, id, wait, present, links>>
        /\ UNCHANGED <<at, want, ref, tried, cached, drops, panic>>
    BY <1>2, ZenonT(40) DEF Unlink, Goto, lruVars, locals
  <1>4. /\ dflags'[o] = dflags[o] \cup {"UNLINK"} /\ dflags[o] \in SUBSET {"UNLINK", "UNCACHED"}
    BY <1>1, <1>3, ZenonT(40) DEF ObjectTypes
  <1>5. Goes(t, o, "use")
    BY <1>1, <1>2, <1>3, ZenonT(40) DEF Goes, PC
  <1>6. /\ at'[t] = o /\ pc'[t] = "use" /\ ThreadsApart(t)
        /\ Users(o)' = Users(o) /\ t \in Users(o)
        /\ \A u \in Users(o) : want'[u] = want[u] /\ pc'[u] = pc[u]
    <2>1. /\ at'[t] = o /\ pc'[t] = "use" /\ ThreadsApart(t)
          /\ Users(o)' = Users(o) /\ t \in Users(o)
          /\ \A u \in Users(o) : want'[u] = want[u]
          /\ \A u \in Users(o) \ {t} : pc'[u] = pc[u]
      BY <1>5, Going, ZenonT(40)
    <2>2. QED
      BY <1>1, <2>1, ZenonT(40)
  <1>7. Share(t)' = Share(t)
    BY <1>1, <1>6 DEF Share
  <1>8. QuietStep(t, o, "use")
    BY <1>1, <1>3, <1>5, <1>7, ZenonT(40) DEF QuietStep, Starting, Reclaiming, ObjectTypes
  <1>9. (Cached(o)' <=> Cached(o)) /\ "INIT" \in flags[o] /\ ObjectsApart(t, o)
    BY <1>8, Quiet, ZenonT(40)
  <1>10. ObjectTypes'
    BY <1>1, <1>3, <1>4, ZenonT(40) DEF ObjectTypes
  <1>11. Used(o)'
    <2>1. "UNCACHED" \in dflags'[o] <=> "UNCACHED" \in dflags[o]
      BY <1>4, ZenonT(40)
    <2>2. QED
      BY <1>2, <1>3, <1>6, <2>1, ZenonT(40) DEF Fine, Sound, Used
  <1>12. Unlinked(o)'
    <2>1. "UNCACHED" \in dflags'[o] <=> "UNCACHED" \in dflags[o]
      BY <1>4, ZenonT(40)
    <2>2. "UNLINK" \in dflags'[o]
      BY <1>4, ZenonT(40)
    <2>3. QED
      BY <1>1, <1>2, <1>3, <1>6, <1>9, <2>1, <2>2, ZenonT(40) DEF Fine, Sound, Unlinked
  <1>13. Named(o)'
    BY <1>2, <1>3, <1>6, ZenonT(40) DEF Fine, Sound, Named
  <1>14. Waited(o)'
    BY <1>2, <1>3, <1>6, ZenonT(40) DEF Fine, Waited
  <1>15. LinksCount'
    <2>1. CASE "UNLINK" \in dflags[o]
      <3>1. dflags'[o] = dflags[o]
        BY <1>4, <2>1
      <3>2. QED
        BY <1>1, <1>3, <1>6, <1>9, <3>1, LinksSame, ZenonT(40)
    <2>2. CASE "UNLINK" \notin dflags[o]
      <3>1. "UNCACHED" \notin dflags[o]
        BY <1>2, <1>6, <2>2, ZenonT(40) DEF Fine, Sound, Unlinked
      <3>2. dflags[o] # {"UNLINK", "UNCACHED"} /\ dflags'[o] # {"UNLINK", "UNCACHED"}
        BY <1>4, <3>1, ZenonT(40)
      <3>3. QED
        BY <1>3, <1>6, <1>9, <3>2, LinksSame, ZenonT(40)
    <2>3. QED
      BY <2>1, <2>2
  <1>16. QED
    BY <1>8, <1>10, <1>11, <1>12, <1>13, <1>14, <1>15, QuietInv, ZenonT(40)

\* dirent_put decides by the flags what its user does next.
LEMMA DirentPutInv ==
    ASSUME Whole, NEW t \in Thread, dirent_put(t)
    PROVE  LruInv'
  <1>1. LocalTypes /\ ObjectTypes /\ Local(t) /\ panic = "no" /\ pc[t] = "use"
    BY ZenonT(40) DEF Whole, TypeOK, LocalTypes, ObjectTypes, dirent_put, Goto
  <1>2. PICK o \in Obj : at[t] = o /\ Fine(o)
    BY <1>1, ZenonT(40) DEF Local, LocalTypes, Whole
  <1>3. /\ UNCHANGED <<hash, active, lru, refs, flags, id, wait, dflags, present, links>>
        /\ UNCHANGED <<at, want, ref, tried, cached, panic>>
    BY ZenonT(40) DEF dirent_put, lruVars, direntVars
  <1>4. PICK to \in {"putref", "uncache", "lru_put"} :
          /\ pc' = [pc EXCEPT ![t] = to]
          /\ to = "putref" <=> "UNCACHED" \in dflags[o]
          /\ to = "uncache" <=> "UNCACHED" \notin dflags[o] /\ "UNLINK" \in dflags[o]
    <2>1. CASE "UNCACHED" \in dflags[o]
      BY <1>2, <2>1, ZenonT(40) DEF dirent_put, Goto
    <2>2. CASE "UNCACHED" \notin dflags[o] /\ "UNLINK" \in dflags[o]
      BY <1>2, <2>2, ZenonT(40) DEF dirent_put, Goto
    <2>3. CASE "UNCACHED" \notin dflags[o] /\ "UNLINK" \notin dflags[o]
      BY <1>2, <2>3 DEF dirent_put, Goto
    <2>4. QED
      BY <2>1, <2>2, <2>3
  <1>5. PICK d \in {0, 1} : drops' = [drops EXCEPT ![t] = d] /\ (to = "putref" => d = 1)
    BY <1>2, <1>4, ZenonT(40) DEF dirent_put
  <1>6. to = "putref" => drops'[t] = 1
    BY <1>1, <1>5, ZenonT(40) DEF LocalTypes
  <1>7. Goes(t, o, to)
    <2>1. 0 \in 0..3 /\ 1 \in 0..3 /\ 1 > 0
      OBVIOUS
    <2>2. QED
      BY <1>1, <1>2, <1>3, <1>4, <1>5, <1>6, <2>1, ZenonT(40) DEF Goes, PC
  <1>8. /\ at'[t] = o /\ pc'[t] = to /\ ThreadsApart(t)
        /\ Users(o)' = Users(o) /\ t \in Users(o)
        /\ \A u \in Users(o) : want'[u] = want[u]
        /\ \A u \in Users(o) \ {t} : pc'[u] = pc[u]
    BY <1>7, Going, ZenonT(40)
  <1>9. Share(t)' = Share(t)
    BY <1>1, <1>4, <1>6, <1>8 DEF Share
  <1>10. QuietStep(t, o, to)
    BY <1>1, <1>3, <1>4, <1>7, <1>9, ZenonT(40) DEF QuietStep, Starting, Reclaiming, ObjectTypes
  <1>11. (Cached(o)' <=> Cached(o)) /\ "INIT" \in flags[o] /\ ObjectsApart(t, o)
    BY <1>10, Quiet, ZenonT(40)
  <1>12. ObjectTypes'
    BY <1>1, <1>3, ZenonT(40) DEF ObjectTypes
  <1>13. Used(o)'
    BY <1>1, <1>2, <1>3, <1>4, <1>8, <1>11, ZenonT(40) DEF Fine, Sound, Used, Using, Reclaiming, Starting
  <1>14. Unlinked(o)'
    <2>1. dflags[o] = {"UNLINK"} => \E u \in Users(o)' : pc'[u] \in {"use", "uncache"}
      <3>1. dflags[o] = {"UNLINK"} => to = "uncache"
        BY <1>4
      <3>2. QED
        BY <1>8, <3>1, ZenonT(40)
    <2>2. pc[t] \notin Removing /\ pc'[t] \notin Removing
      BY <1>1, <1>4, <1>8, ZenonT(40) DEF Removing
    <2>3. pc'[t] = "uncache" => "UNLINK" \in dflags[o]
      BY <1>4, <1>8, ZenonT(40)
    <2>4. QED
      BY <1>2, <1>3, <1>8, <1>11, <2>1, <2>2, <2>3, ZenonT(40) DEF Fine, Sound, Unlinked
  <1>15. Named(o)'
    BY <1>1, <1>2, <1>3, <1>4, <1>8, ZenonT(40) DEF Fine, Sound, Named
  <1>16. Waited(o)'
    BY <1>1, <1>2, <1>3, <1>4, <1>8, ZenonT(40) DEF Fine, Waited, Starting
  <1>17. LinksCount'
    BY <1>1, <1>3, <1>4, <1>8, <1>11, LinksSame, ZenonT(40)
  <1>18. QED
    BY <1>10, <1>12, <1>13, <1>14, <1>15, <1>16, <1>17, QuietInv, ZenonT(40)

\* The first user that sets the flag removes the entry from its directory.
LEMMA UncacheInv ==
    ASSUME Whole, NEW t \in Thread, Uncache(t)
    PROVE  LruInv'
  <1>1. LocalTypes /\ ObjectTypes /\ Local(t) /\ panic = "no" /\ pc[t] = "uncache"
    BY ZenonT(40) DEF Whole, TypeOK, LocalTypes, ObjectTypes, Uncache, Goto
  <1>2. PICK o \in Obj : at[t] = o /\ Fine(o)
    BY <1>1, ZenonT(40) DEF Local, LocalTypes, Whole
  <1>3. /\ dflags' = [dflags EXCEPT ![o] = dflags[o] \cup {"UNCACHED"}]
        /\ UNCHANGED <<hash, active, lru, refs, flags, id, wait, present, links>>
        /\ UNCHANGED <<at, want, ref, tried, cached, panic>>
    BY <1>2, ZenonT(40) DEF Uncache, lruVars
  <1>4. PICK to \in {"putref", "unlink"} :
          /\ pc' = [pc EXCEPT ![t] = to] /\ (to = "putref" <=> "UNCACHED" \in dflags[o])
          /\ drops' = [drops EXCEPT ![t] = IF to = "putref" THEN 1 ELSE 0]
    <2>1. CASE "UNCACHED" \in dflags[o]
      BY <1>2, <2>1, ZenonT(40) DEF Uncache, Goto
    <2>2. CASE "UNCACHED" \notin dflags[o]
      BY <1>2, <2>2, ZenonT(40) DEF Uncache, Goto
    <2>3. QED
      BY <2>1, <2>2, ZenonT(40)
  <1>5. to = "putref" => drops'[t] = 1
    BY <1>1, <1>4, ZenonT(40) DEF LocalTypes
  <1>6. Goes(t, o, to)
    <2>1. 0 \in 0..3 /\ 1 \in 0..3 /\ 1 > 0
      OBVIOUS
    <2>2. \E d \in 0..3 : drops' = [drops EXCEPT ![t] = d]
      BY <1>4, <2>1, ZenonT(40)
    <2>3. QED
      BY <1>1, <1>2, <1>3, <1>4, <1>5, <2>1, <2>2, ZenonT(40) DEF Goes, PC
  <1>7. /\ at'[t] = o /\ pc'[t] = to /\ ThreadsApart(t)
        /\ Users(o)' = Users(o) /\ t \in Users(o)
        /\ \A u \in Users(o) : want'[u] = want[u]
        /\ \A u \in Users(o) \ {t} : pc'[u] = pc[u]
    BY <1>6, Going, ZenonT(40)
  <1>8. Share(t)' = Share(t)
    BY <1>1, <1>4, <1>5, <1>7 DEF Share
  <1>9. QuietStep(t, o, to)
    BY <1>1, <1>3, <1>4, <1>6, <1>8, ZenonT(40) DEF QuietStep, Starting, Reclaiming, ObjectTypes
  <1>10. (Cached(o)' <=> Cached(o)) /\ "INIT" \in flags[o] /\ ObjectsApart(t, o)
    BY <1>9, Quiet, ZenonT(40)
  <1>11. /\ dflags'[o] = {"UNLINK", "UNCACHED"} /\ "UNLINK" \in dflags[o]
         /\ dflags[o] \in SUBSET {"UNLINK", "UNCACHED"}
    <2>1. "UNLINK" \in dflags[o]
      BY <1>1, <1>2, <1>7, ZenonT(40) DEF Fine, Sound, Unlinked
    <2>2. dflags'[o] = dflags[o] \cup {"UNCACHED"} /\ dflags[o] \in SUBSET {"UNLINK", "UNCACHED"}
      BY <1>1, <1>3, ZenonT(40) DEF ObjectTypes
    <2>3. QED
      BY <2>1, <2>2, ZenonT(40)
  <1>12. ObjectTypes'
    <2>1. dflags' \in [Obj -> SUBSET {"UNLINK", "UNCACHED"}]
      BY <1>1, <1>3, ZenonT(40) DEF ObjectTypes
    <2>2. QED
      BY <1>1, <1>3, <2>1, ZenonT(40) DEF ObjectTypes
  <1>13. Used(o)'
    <2>1. "UNCACHED" \in dflags'[o]
      BY <1>11, ZenonT(40)
    <2>2. QED
      BY <1>1, <1>2, <1>3, <1>4, <1>7, <1>10, <2>1, ZenonT(40)
         DEF Fine, Sound, Used, Using, Reclaiming, Starting
  <1>14. Unlinked(o)'
    <2>1. "UNLINK" \in dflags'[o] /\ "UNCACHED" \in dflags'[o] /\ dflags'[o] # {"UNLINK"}
      BY <1>11, ZenonT(40)
    <2>2. to = "unlink" => "LRU" \in flags[o] /\ \A u \in Users(o) : pc[u] \notin Removing
      BY <1>2, <1>4, <1>7, ZenonT(40) DEF Fine, Sound, Unlinked
    <2>3. pc[t] \notin Removing /\ (to \in Removing <=> to = "unlink") /\ to # "uncache"
      BY <1>1, <1>4, ZenonT(40) DEF Removing
    <2>4. Cached(o) => \E u \in Users(o) : pc'[u] \in Removing
      BY <1>2, <1>4, <1>7, <2>3, ZenonT(40) DEF Fine, Sound, Unlinked
    <2>5. \A u \in Users(o) : pc'[u] \in Removing => "LRU" \in flags[o]
      BY <1>2, <1>7, <2>2, <2>3, ZenonT(40) DEF Fine, Sound, Unlinked
    <2>6. \A u, v \in Users(o) : pc'[u] \in Removing /\ pc'[v] \in Removing => u = v
      <3>1. \A u, v \in Users(o) : pc[u] \in Removing /\ pc[v] \in Removing => u = v
        BY <1>2, ZenonT(40) DEF Fine, Sound, Unlinked
      <3>2. CASE to = "unlink"
        BY <1>7, <2>2, <3>2, ZenonT(40)
      <3>3. CASE to # "unlink"
        BY <1>7, <2>3, <3>1, <3>3, ZenonT(40)
      <3>4. QED
        BY <3>2, <3>3, ZenonT(40)
    <2>7. /\ Users(o)' = Users(o) /\ Users(o) # {} /\ (Cached(o)' <=> Cached(o))
          /\ flags'[o] = flags[o]
      BY <1>3, <1>7, <1>10, ZenonT(40)
    <2>8. QED
      BY <2>1, <2>4, <2>5, <2>6, <2>7, ZenonT(40) DEF Unlinked
  <1>15. Named(o)'
    BY <1>1, <1>2, <1>3, <1>4, <1>7, ZenonT(40) DEF Fine, Sound, Named
  <1>16. Waited(o)'
    BY <1>1, <1>2, <1>3, <1>4, <1>7, ZenonT(40) DEF Fine, Waited, Starting
  <1>17. LinksCount'
    <2>1. CASE to = "putref"
      <3>1. dflags'[o] = dflags[o]
        BY <1>4, <1>11, <2>1, ZenonT(40)
      <3>2. QED
        BY <1>1, <1>3, <1>7, <1>10, <2>1, <3>1, LinksSame, ZenonT(40)
    <2>2. CASE to = "unlink"
      <3>1. \A i \in Id : o \notin Doomed(i)
        BY <1>4, <2>2, ZenonT(40) DEF Doomed
      <3>2. \A i \in Id : o \notin Doomed(i)'
        BY <1>7, <2>2, ZenonT(40) DEF Doomed
      <3>3. QED
        BY <1>3, <1>7, <1>10, <3>1, <3>2, LinksKept, ZenonT(40)
    <2>3. QED
      BY <1>4, <2>1, <2>2, ZenonT(40)
  <1>18. QED
    BY <1>9, <1>12, <1>13, <1>14, <1>15, <1>16, <1>17, QuietInv, ZenonT(40)

\* A name that leaves its directory costs its inode nothing yet.
LEMMA LinksMove ==
    ASSUME Whole, NEW t \in Thread, NEW o \in Obj, ThreadsApart(t), ObjectsApart(t, o),
           NEW n \in Id, n \in present, present' = present \ {n}, links' = links,
           \A i \in Id : o \notin Doomed(i), \A i \in Id : o \in Doomed(i)' <=> i = n
    PROVE  LinksCount'
  <1> SUFFICES ASSUME NEW i \in Id
               PROVE  links'[i] = (IF i \in present' THEN 1 ELSE 0) + Cardinality(Doomed(i)')
    BY ZenonT(40) DEF LinksCount
  <1>1. links[i] = (IF i \in present THEN 1 ELSE 0) + Cardinality(Doomed(i))
    BY ZenonT(40) DEF Whole, LinksCount
  <1>2. \A p \in Obj \ {o} : p \in Doomed(i)' <=> p \in Doomed(i)
    BY DoomedOthers, ZenonT(40)
  <1>3. Doomed(i) \subseteq Obj /\ Doomed(i)' \subseteq Obj
    BY ZenonT(40) DEF Doomed
  <1>4. IsFiniteSet(Doomed(i)) /\ Cardinality(Doomed(i)) \in Nat
    BY DoomedFinite, ZenonT(40)
  <1>5. CASE i = n
    <2>1. Doomed(i)' = Doomed(i) \cup {o} /\ o \notin Doomed(i)
      BY <1>2, <1>3, <1>5, ZenonT(40)
    <2>2. Cardinality(Doomed(i) \cup {o}) = Cardinality(Doomed(i)) + 1
      BY <1>4, <2>1, ZenonT(40) DEF Whole, SetFacts, AddOne
    <2>3. Cardinality(Doomed(i)') = Cardinality(Doomed(i)) + 1
      BY <2>1, <2>2, ZenonT(40)
    <2>4. links[i] = 1 + Cardinality(Doomed(i)) /\ i \notin present' /\ links'[i] = links[i]
      BY <1>1, <1>5, ZenonT(40)
    <2>5. QED
      BY <1>4, <2>3, <2>4
  <1>6. CASE i # n
    <2>0. o \notin Doomed(i)' /\ o \notin Doomed(i)
      BY <1>6, ZenonT(40)
    <2>1. Doomed(i)' = Doomed(i)
      <3>1. \A p \in Obj : p \in Doomed(i)' <=> p \in Doomed(i)
        BY <1>2, <2>0, ZenonT(40)
      <3>2. QED
        BY <1>3, <3>1, ZenonT(40)
    <2>2. i \in present' <=> i \in present
      BY <1>6, ZenonT(40)
    <2>3. QED
      BY <1>1, <2>1, <2>2, ZenonT(40)
  <1>7. QED
    BY <1>5, <1>6, ZenonT(40)

\* The unlink operation of the file system finds the name of the entry.
LEMMA UnlinkNameInv ==
    ASSUME Whole, NEW t \in Thread, UnlinkName(t)
    PROVE  LruInv'
  <1>1. LocalTypes /\ ObjectTypes /\ Local(t) /\ panic = "no" /\ pc[t] = "unlink"
    BY ZenonT(40) DEF Whole, TypeOK, LocalTypes, ObjectTypes, UnlinkName, Goto
  <1>2. PICK o \in Obj : at[t] = o /\ Fine(o)
    BY <1>1, ZenonT(40) DEF Local, LocalTypes, Whole
  <1>3. /\ pc' = [pc EXCEPT ![t] = "remove"] /\ present' = present \ {id[o]}
        /\ Check(id[o] \in present)
        /\ UNCHANGED <<hash, active, lru, refs, flags, id, wait, dflags, links>>
        /\ UNCHANGED <<at, want, ref, tried, cached, drops>>
    BY <1>2, ZenonT(40) DEF UnlinkName, Goto, lruVars, locals
  <1>4. t \in Users(o) /\ want[t] \in Id
    BY <1>1, <1>2, ZenonT(40) DEF Users, Local, LocalTypes
  <1>5. id[o] = want[t] /\ hash[want[t]] = o /\ "INIT" \in flags[o] /\ "LRU" \in flags[o]
    <2>1. "INIT" \in flags[o] /\ "ERR" \notin flags[o]
      BY <1>1, <1>2, <1>4, ZenonT(40) DEF Fine, Sound, Used, Starting, Using
    <2>2. "LRU" \in flags[o]
      BY <1>1, <1>2, <1>4, ZenonT(40) DEF Fine, Sound, Unlinked, Removing
    <2>3. pc[t] \notin Reclaiming
      BY <1>1, ZenonT(40) DEF Reclaiming
    <2>4. QED
      BY <1>2, <1>4, <2>1, <2>2, <2>3, ZenonT(40) DEF Fine, Sound, Used
  <1>6. \A u \in Users(o) : pc[u] \in Removing => u = t
    BY <1>1, <1>2, <1>4, ZenonT(40) DEF Fine, Sound, Unlinked, Removing
  <1>7. id[o] \in present
    <2>1. want[t] \in present \/ \E u \in Users(o) : pc[u] = "remove"
      BY <1>2, <1>4, <1>5, ZenonT(40) DEF Fine, Sound, Named
    <2>2. \A u \in Users(o) : pc[u] # "remove"
      BY <1>1, <1>6, ZenonT(40) DEF Removing
    <2>3. QED
      BY <1>5, <2>1, <2>2, ZenonT(40)
  <1>8. panic' = "no"
    BY <1>1, <1>3, <1>7, ZenonT(40) DEF Check
  <1>9. Goes(t, o, "remove")
    BY <1>1, <1>2, <1>3, <1>8, ZenonT(40) DEF Goes, PC
  <1>10. /\ at'[t] = o /\ pc'[t] = "remove" /\ ThreadsApart(t)
         /\ Users(o)' = Users(o)
         /\ \A u \in Users(o) : want'[u] = want[u]
         /\ \A u \in Users(o) \ {t} : pc'[u] = pc[u]
    BY <1>9, Going, ZenonT(40)
  <1>11. Share(t)' = Share(t)
    BY <1>1, <1>10 DEF Share
  <1>12. QuietStep(t, o, "remove")
    BY <1>1, <1>3, <1>5, <1>9, <1>11, ZenonT(40) DEF QuietStep, Starting, Reclaiming, ObjectTypes
  <1>13. /\ (Cached(o)' <=> Cached(o)) /\ ObjectsApart(t, o)
         /\ \A u \in Users(o) : pc[u] \notin Starting
    BY <1>12, Quiet, ZenonT(40)
  <1>14. ObjectTypes'
    <2>1. present' \subseteq Id
      BY <1>1, <1>3, ZenonT(40) DEF ObjectTypes
    <2>2. QED
      BY <1>1, <1>3, <2>1, ZenonT(40) DEF ObjectTypes
  <1>15. Used(o)'
    <2>1. "ERR" \notin flags[o]
      BY <1>1, <1>2, <1>4, ZenonT(40) DEF Fine, Sound, Used, Using
    <2>2. \A u \in Users(o) \ {t} : pc'[u] = pc[u] /\ want'[u] = want[u]
      BY <1>10, ZenonT(40)
    <2>3. pc'[t] \notin Reclaiming \cup {"wait", "error", "putref_retry", "putref"} /\ want'[t] = want[t]
      BY <1>4, <1>10, ZenonT(40) DEF Reclaiming
    <2>4. QED
      BY <1>2, <1>3, <1>5, <1>10, <2>1, <2>2, <2>3, ZenonT(40) DEF Fine, Sound, Used
  <1>16. Unlinked(o)'
    <2>1. \A u \in Users(o) : pc'[u] \in Removing <=> pc[u] \in Removing
      BY <1>1, <1>10, ZenonT(40) DEF Removing
    <2>2. \A u \in Users(o) : pc'[u] \in {"use", "uncache"} <=> pc[u] \in {"use", "uncache"}
      BY <1>1, <1>10, ZenonT(40)
    <2>3. \A u \in Users(o) : pc'[u] = "uncache" <=> pc[u] = "uncache"
      BY <1>1, <1>10, ZenonT(40)
    <2>4. dflags'[o] = dflags[o] /\ flags'[o] = flags[o] /\ Users(o)' = Users(o)
      BY <1>3, <1>10, ZenonT(40)
    <2>5. Unlinked(o)
      BY <1>2, ZenonT(40) DEF Fine, Sound
    <2>6. \A u, v \in Users(o)' : pc'[u] \in Removing /\ pc'[v] \in Removing => u = v
      BY <2>1, <2>4, <2>5, ZenonT(40) DEF Unlinked
    <2>7. \A u \in Users(o)' : /\ pc'[u] = "uncache" => "UNLINK" \in dflags'[o]
                               /\ pc'[u] \in Removing => "UNCACHED" \in dflags'[o] /\ "LRU" \in flags'[o]
      BY <2>1, <2>3, <2>4, <2>5, ZenonT(40) DEF Unlinked
    <2>8. \E u \in Users(o)' : pc'[u] \in Removing
      BY <1>4, <1>10, <2>4, ZenonT(40) DEF Removing
    <2>9. dflags'[o] = {"UNLINK"} => \E u \in Users(o)' : pc'[u] \in {"use", "uncache"}
      BY <2>2, <2>4, <2>5, ZenonT(40) DEF Unlinked
    <2>10. /\ "UNLINK" \in dflags'[o] => Users(o)' # {}
           /\ "UNCACHED" \in dflags'[o] /\ Users(o)' # {} => "UNLINK" \in dflags'[o]
           /\ "LRU" \notin flags'[o] /\ Users(o)' # {} => "UNCACHED" \in dflags'[o]
      <3>1. /\ "UNLINK" \in dflags[o] => Users(o) # {}
            /\ "UNCACHED" \in dflags[o] /\ Users(o) # {} => "UNLINK" \in dflags[o]
            /\ "LRU" \notin flags[o] /\ Users(o) # {} => "UNCACHED" \in dflags[o]
        BY <2>5, ZenonT(40) DEF Unlinked
      <3>2. QED
        BY <2>4, <3>1, ZenonT(40)
    <2>11. QED
      BY <2>6, <2>7, <2>8, <2>9, <2>10, ZenonT(40) DEF Unlinked
  <1>17. Named(o)'
    <2>1. \E u \in Users(o)' : pc'[u] = "remove"
      BY <1>4, <1>10, ZenonT(40)
    <2>2. \A u \in Users(o)' : pc'[u] # "mark_ready"
      BY <1>10, <1>13, ZenonT(40) DEF Starting
    <2>3. QED
      BY <2>1, <2>2, ZenonT(40) DEF Named
  <1>18. Waited(o)'
    BY <1>1, <1>2, <1>3, <1>10, ZenonT(40) DEF Fine, Waited, Starting
  <1>19. LinksCount'
    <2>1. \A i \in Id : o \notin Doomed(i)
      BY <1>1, <1>4, ZenonT(40) DEF Doomed
    <2>2. dflags[o] = {"UNLINK", "UNCACHED"}
      <3>1. "UNLINK" \in dflags[o] /\ "UNCACHED" \in dflags[o]
        BY <1>1, <1>2, <1>4, ZenonT(40) DEF Fine, Sound, Unlinked, Removing
      <3>2. dflags[o] \in SUBSET {"UNLINK", "UNCACHED"}
        BY <1>1, ZenonT(40) DEF ObjectTypes
      <3>3. QED
        BY <3>1, <3>2, ZenonT(40)
    <2>3. \A u \in Users(o)' : pc'[u] # "unlink"
      BY <1>6, <1>10, ZenonT(40) DEF Removing
    <2>4. \A i \in Id : o \in Doomed(i)' <=> i = id[o]
      BY <1>3, <2>2, <2>3, ZenonT(40) DEF Doomed
    <2>5. QED
      BY <1>3, <1>4, <1>5, <1>7, <1>10, <1>13, <2>1, <2>4, LinksMove, ZenonT(40)
  <1>20. QED
    BY <1>12, <1>14, <1>15, <1>16, <1>17, <1>18, <1>19, QuietInv, ZenonT(40)

-----------------------------------------------------------------------------
(***************************************************************************)
(* Initialization.                                                         *)
(***************************************************************************)

\* The object of a thread that initializes it.
LEMMA FirstUser ==
    ASSUME Whole, NEW t \in Thread, NEW o \in Obj, at[t] = o, pc[t] \in Starting
    PROVE  /\ t \in Users(o) /\ want[t] \in Id /\ hash[want[t]] = o /\ dflags[o] = {}
           /\ "INIT" \notin flags[o] /\ "DESTROY" \notin flags[o]
           /\ "LRU" \in flags[o] /\ "ERR" \notin flags[o]
           /\ \A u \in Users(o) \ {t} : pc[u] = "wait" /\ u \in wait[o] /\ want[u] = want[t]
           /\ \A i \in Id : hash[i] = o <=> i = want[t]
  <1>1. LocalTypes /\ Local(t) /\ Fine(o) /\ t \in Users(o)
    BY ZenonT(40) DEF Whole, TypeOK, LocalTypes, Users
  <1>2. want[t] \in Id
    BY <1>1, ZenonT(40) DEF Local, LocalTypes, Starting
  <1>3. /\ hash[want[t]] = o /\ dflags[o] = {} /\ "INIT" \notin flags[o]
        /\ \A u \in Users(o) \ {t} : pc[u] = "wait" /\ u \in wait[o] /\ want[u] = want[t]
    BY <1>1, ZenonT(40) DEF Fine, Sound, Started
  <1>4. "LRU" \in flags[o] /\ "ERR" \notin flags[o]
    BY <1>1, <1>2, <1>3, ZenonT(40) DEF Fine, Sound, Hashed
  <1>5. "DESTROY" \notin flags[o]
    <2>1. \A u \in Users(o) : pc[u] \notin {"release", "forget"}
      BY <1>3, ZenonT(40) DEF Starting
    <2>2. QED
      BY <1>1, <2>1, ZenonT(40) DEF Fine, Sound, Reclaimed
  <1>6. ASSUME NEW i \in Id, hash[i] = o PROVE i = want[t]
    <2>1. PICK u \in Users(o) : pc[u] \in Starting /\ want[u] = i
      BY <1>1, <1>3, <1>6, ZenonT(40) DEF Fine, Sound, Hashed
    <2>2. u = t
      BY <1>3, <2>1, ZenonT(40) DEF Starting
    <2>3. QED
      BY <2>1, <2>2, ZenonT(40)
  <1>7. QED
    BY <1>1, <1>2, <1>3, <1>4, <1>5, <1>6, ZenonT(40)

\* The lookup in the directory.
LEMMA LookupNameInv ==
    ASSUME Whole, NEW t \in Thread, LookupName(t)
    PROVE  LruInv'
  <1>1. LocalTypes /\ ObjectTypes /\ Local(t) /\ panic = "no" /\ pc[t] = "init" /\ NoTwice
    BY ZenonT(40) DEF Whole, TypeOK, LocalTypes, ObjectTypes, LookupName, Goto
  <1>2. PICK o \in Obj : at[t] = o /\ Fine(o)
    BY <1>1, ZenonT(40) DEF Local, LocalTypes, Whole
  <1>3. /\ UNCHANGED <<hash, active, lru, refs, flags, id, wait, dflags, present, links>>
        /\ UNCHANGED <<at, want, ref, tried, cached, drops, panic>>
    BY ZenonT(40) DEF LookupName, lruVars, direntVars, locals
  <1>4. PICK to \in {"mark_ready", "mark_error"} :
            pc' = [pc EXCEPT ![t] = to] /\ (to = "mark_ready" => want[t] \in present)
    BY ZenonT(40) DEF LookupName, Goto
  <1>5. Goes(t, o, to)
    BY <1>1, <1>2, <1>3, <1>4, ZenonT(40) DEF Goes, PC
  <1>6. /\ at'[t] = o /\ pc'[t] = to /\ ThreadsApart(t)
        /\ Users(o)' = Users(o) /\ t \in Users(o)
        /\ \A u \in Users(o) : want'[u] = want[u]
        /\ \A u \in Users(o) \ {t} : pc'[u] = pc[u]
    BY <1>5, Going, ZenonT(40)
  <1>7. pc[t] \in Starting /\ pc'[t] \in Starting
    BY <1>1, <1>4, <1>6, ZenonT(40) DEF Starting
  <1>8. /\ hash[want[t]] = o /\ "INIT" \notin flags[o] /\ dflags[o] = {}
        /\ "DESTROY" \notin flags[o] /\ "LRU" \in flags[o]
        /\ \A u \in Users(o) \ {t} : pc[u] = "wait" /\ u \in wait[o] /\ want[u] = want[t]
    BY <1>2, <1>7, FirstUser
  <1>9. (Cached(o)' <=> Cached(o)) /\ NoTwice' /\ \A p : OnLru(p)' <=> OnLru(p)
    BY <1>1, <1>3, ZenonT(40) DEF Cached, NoTwice, OnLru
  <1>10. ObjectsApart(t, o)
    BY <1>2, <1>3, <1>6, <1>9, ZenonT(40) DEF ObjectsApart
  <1>11. Hashed(o)'
    BY <1>2, <1>3, <1>6, <1>7, ZenonT(40) DEF Fine, Sound, Hashed
  <1>12. Started(o)'
    <2>1. \A u \in Users(o) \ {t} : pc'[u] \notin Starting
      BY <1>6, <1>8, ZenonT(40) DEF Starting
    <2>2. \A u \in Users(o) \ {t} : pc'[u] = "wait" /\ u \in wait'[o] /\ want'[u] = want'[t]
      BY <1>3, <1>6, <1>8, ZenonT(40)
    <2>3. "INIT" \notin flags'[o] /\ dflags'[o] = {} /\ hash'[want'[t]] = o
      BY <1>3, <1>8, ZenonT(40)
    <2>4. QED
      BY <1>6, <2>1, <2>2, <2>3, ZenonT(40) DEF Started
  <1>13. Used(o)'
    <2>1. pc'[t] \notin {"wait", "error", "putref_retry", "putref"} /\ pc'[t] \notin Using
      BY <1>4, <1>6, ZenonT(40) DEF Using
    <2>2. QED
      BY <1>2, <1>3, <1>6, <1>7, <1>8, <2>1, ZenonT(40) DEF Fine, Sound, Used
  <1>14. Reclaimed(o)'
    <2>1. \A u \in Users(o)' : pc'[u] \notin Reclaiming
      BY <1>4, <1>6, <1>8, ZenonT(40) DEF Reclaiming
    <2>2. QED
      BY <1>3, <1>8, <2>1, ZenonT(40) DEF Reclaimed
  <1>15. Unlinked(o)'
    <2>1. \A u \in Users(o)' : pc'[u] \notin Removing /\ pc'[u] # "uncache"
      BY <1>4, <1>6, <1>8, ZenonT(40) DEF Removing
    <2>2. QED
      BY <1>3, <1>8, <2>1, ZenonT(40) DEF Unlinked
  <1>16. Named(o)'
    BY <1>3, <1>4, <1>6, <1>8, ZenonT(40) DEF Named
  <1>17. Waited(o)'
    BY <1>6, <1>7, ZenonT(40) DEF Waited
  <1>18. Listed(o)'
    BY <1>2, <1>3, <1>6, <1>9, ZenonT(40) DEF Fine, Listed
  <1>19. Count(o)'
    <2>1. Share(t)' = Share(t)
      BY <1>1, <1>4, <1>6, ZenonT(40) DEF Share
    <2>2. QED
      BY <1>2, <1>3, <1>6, <1>9, <2>1, CountKept, ZenonT(40)
  <1>20. ObjectTypes'
    BY <1>1, <1>3, ZenonT(40) DEF ObjectTypes
  <1>21. LinksCount'
    <2>1. dflags[o] # {"UNLINK", "UNCACHED"} /\ dflags'[o] # {"UNLINK", "UNCACHED"}
      BY <1>3, <1>8, ZenonT(40)
    <2>2. QED
      BY <1>3, <1>6, <1>10, <2>1, LinksSame, ZenonT(40)
  <1>22. Fine(o)'
    BY <1>11, <1>12, <1>13, <1>14, <1>15, <1>16, <1>17, <1>18, <1>19, ZenonT(40) DEF Fine, Sound
  <1>23. QED
    BY <1>5, <1>9, <1>10, <1>20, <1>21, <1>22, GoneOn, ZenonT(40)

\* kobj_lru_mark_ready.
LEMMA MarkReadyInv ==
    ASSUME Whole, NEW t \in Thread, mark_ready(t)
    PROVE  LruInv'
  <1>1. LocalTypes /\ ObjectTypes /\ Local(t) /\ panic = "no" /\ pc[t] = "mark_ready" /\ NoTwice
    BY ZenonT(40) DEF Whole, TypeOK, LocalTypes, ObjectTypes, mark_ready, Goto
  <1>2. PICK o \in Obj : at[t] = o /\ Fine(o)
    BY <1>1, ZenonT(40) DEF Local, LocalTypes, Whole
  <1>3. /\ t \in Users(o) /\ want[t] \in Id /\ hash[want[t]] = o /\ dflags[o] = {}
        /\ "DESTROY" \notin flags[o] /\ "LRU" \in flags[o] /\ "ERR" \notin flags[o]
        /\ \A u \in Users(o) \ {t} : pc[u] = "wait" /\ u \in wait[o] /\ want[u] = want[t]
        /\ \A i \in Id : hash[i] = o <=> i = want[t]
    <2>1. pc[t] \in Starting
      BY <1>1, ZenonT(40) DEF Starting
    <2>2. QED
      BY <1>2, <2>1, FirstUser
  <1>4. /\ pc' = [pc EXCEPT ![t] = "ready"] /\ id' = [id EXCEPT ![o] = want[t]]
        /\ flags' = [flags EXCEPT ![o] = flags[o] \cup {"INIT"}]
        /\ hash' = [hash EXCEPT ![want[t]] = o]
        /\ UNCHANGED <<active, lru, refs, wait, dflags, present, links>>
        /\ UNCHANGED <<at, want, ref, tried, cached, drops, panic>>
    BY <1>2, ZenonT(40) DEF mark_ready, Goto, direntVars, locals
  <1>5. hash' = hash
    BY <1>1, <1>3, <1>4, ZenonT(40) DEF ObjectTypes
  <1>6. id'[o] = want[t] /\ flags'[o] = flags[o] \cup {"INIT"}
    BY <1>1, <1>4, ZenonT(40) DEF ObjectTypes
  <1>7. /\ "INIT" \in flags'[o] /\ "LRU" \in flags'[o]
        /\ "ERR" \notin flags'[o] /\ "DESTROY" \notin flags'[o]
    BY <1>3, <1>6, ZenonT(40)
  <1>8. Goes(t, o, "ready")
    BY <1>1, <1>2, <1>4, ZenonT(40) DEF Goes, PC
  <1>9. /\ at'[t] = o /\ pc'[t] = "ready" /\ ThreadsApart(t) /\ Users(o)' = Users(o)
        /\ \A u \in Users(o) : want'[u] = want[t]
        /\ \A u \in Users(o) \ {t} : pc'[u] = "wait"
    <2>1. /\ at'[t] = o /\ pc'[t] = "ready" /\ ThreadsApart(t) /\ Users(o)' = Users(o)
          /\ \A u \in Users(o) : want'[u] = want[u]
          /\ \A u \in Users(o) \ {t} : pc'[u] = pc[u]
      BY <1>8, Going, ZenonT(40)
    <2>2. QED
      BY <1>3, <2>1, ZenonT(40)
  <1>10. (Cached(o)' <=> Cached(o)) /\ NoTwice' /\ \A p : OnLru(p)' <=> OnLru(p)
    BY <1>1, <1>4, <1>5, ZenonT(40) DEF Cached, NoTwice, OnLru
  <1>11. ObjectsApart(t, o)
    BY <1>1, <1>2, <1>4, <1>5, <1>9, <1>10, ZenonT(40) DEF ObjectsApart, ObjectTypes
  <1>12. Hashed(o)'
    BY <1>3, <1>5, <1>6, <1>7, ZenonT(40) DEF Hashed
  <1>13. Started(o)'
    BY <1>9, ZenonT(40) DEF Started, Starting
  <1>14. Used(o)'
    <2>1. \A u \in Users(o)' : pc'[u] \in {"ready", "wait"} /\ want'[u] = want[t]
      BY <1>9, ZenonT(40)
    <2>2. QED
      BY <1>3, <1>5, <1>6, <1>7, <2>1, ZenonT(40) DEF Used
  <1>15. Reclaimed(o)'
    BY <1>7, <1>9, ZenonT(40) DEF Reclaimed, Reclaiming
  <1>16. Unlinked(o)'
    <2>1. \A u \in Users(o)' : pc'[u] \notin Removing /\ pc'[u] # "uncache"
      BY <1>9, ZenonT(40) DEF Removing
    <2>2. dflags'[o] = {}
      BY <1>3, <1>4, ZenonT(40)
    <2>3. QED
      BY <1>7, <2>1, <2>2, ZenonT(40) DEF Unlinked
  <1>17. Named(o)'
    <2>1. want[t] \in present
      BY <1>1, <1>2, <1>3, ZenonT(40) DEF Fine, Sound, Named
    <2>2. QED
      BY <1>3, <1>4, <1>5, <1>9, <2>1, ZenonT(40) DEF Named
  <1>18. Waited(o)'
    BY <1>3, <1>9, ZenonT(40) DEF Waited
  <1>19. Listed(o)'
    BY <1>2, <1>3, <1>4, <1>7, <1>9, <1>10, ZenonT(40) DEF Fine, Listed
  <1>20. Count(o)'
    <2>1. Share(t)' = Share(t)
      BY <1>1, <1>9, ZenonT(40) DEF Share
    <2>2. refs'[o] = refs[o]
      BY <1>4, ZenonT(40)
    <2>3. QED
      BY <1>2, <1>3, <1>7, <1>9, <1>10, <2>1, <2>2, CountKept, ZenonT(40)
  <1>21. ObjectTypes'
    <2>1. id' \in [Obj -> Id \cup {NULL}]
      BY <1>1, <1>3, <1>4, ZenonT(40) DEF ObjectTypes
    <2>2. flags' \in [Obj -> SUBSET {"LRU", "INIT", "ERR", "DESTROY"}]
      BY <1>1, <1>4, ZenonT(40) DEF ObjectTypes
    <2>3. QED
      BY <1>1, <1>4, <1>5, <2>1, <2>2, ZenonT(40) DEF ObjectTypes
  <1>22. LinksCount'
    <2>1. dflags[o] # {"UNLINK", "UNCACHED"} /\ dflags'[o] # {"UNLINK", "UNCACHED"}
      BY <1>3, <1>4, ZenonT(40)
    <2>2. QED
      BY <1>4, <1>9, <1>11, <2>1, LinksSame, ZenonT(40)
  <1>23. Fine(o)'
    BY <1>12, <1>13, <1>14, <1>15, <1>16, <1>17, <1>18, <1>19, <1>20, ZenonT(40) DEF Fine, Sound
  <1>24. QED
    BY <1>8, <1>10, <1>11, <1>21, <1>22, <1>23, GoneOn, ZenonT(40)

\* After an error the first user also has the references of the hash and of
\* the list.
LEMMA HeldError ==
    ASSUME Whole, NEW t \in Thread, ThreadsApart(t), NEW o, at[t] = o, at'[t] = o,
           Share(t) = 1, Share(t)' = 3
    PROVE  Cardinality(Held(o)') = Cardinality(Held(o)) + 2
  <1>1. \A u \in Thread \ {t} : at'[u] = at[u] /\ Share(u)' = Share(u)
    BY ZenonT(40) DEF ThreadsApart, Share
  <1>2. Held(o)' = (Held(o) \cup {<<t, 2>>}) \cup {<<t, 3>>}
    <2>1. ASSUME NEW u \in Thread, NEW d \in 1..3
          PROVE  <<u, d>> \in Held(o)' <=> <<u, d>> \in Held(o) \/ <<u, d>> = <<t, 2>> \/ <<u, d>> = <<t, 3>>
      <3>1. CASE u = t
        BY <3>1 DEF Held, Users
      <3>2. CASE u # t
        BY <1>1, <3>2, ZenonT(40) DEF Held, Users
      <3>3. QED
        BY <3>1, <3>2, ZenonT(40)
    <2>2. Held(o) \subseteq Thread \X (1..3) /\ Held(o)' \subseteq Thread \X (1..3)
      BY DEF Held, Users
    <2>3. ASSUME NEW x \in Thread \X (1..3)
          PROVE  x \in Held(o)' <=> x \in Held(o) \/ x = <<t, 2>> \/ x = <<t, 3>>
      <3>1. PICK u \in Thread, e \in 1..3 : x = <<u, e>>
        OBVIOUS
      <3>2. QED
        BY <2>1, <3>1, ZenonT(40)
    <2>4. <<t, 2>> \in Thread \X (1..3) /\ <<t, 3>> \in Thread \X (1..3)
      OBVIOUS
    <2>5. QED
      BY <2>2, <2>3, <2>4, ZenonT(40)
  <1>3. <<t, 2>> \notin Held(o) /\ <<t, 3>> \notin Held(o) \cup {<<t, 2>>}
    BY DEF Held
  <1>4. /\ IsFiniteSet(Held(o) \cup {<<t, 2>>})
        /\ Cardinality(Held(o) \cup {<<t, 2>>}) = Cardinality(Held(o)) + 1
    BY <1>3, HeldFinite, ZenonT(40) DEF Whole, SetFacts, AddOne
  <1>5. Cardinality((Held(o) \cup {<<t, 2>>}) \cup {<<t, 3>>}) = Cardinality(Held(o) \cup {<<t, 2>>}) + 1
    BY <1>3, <1>4, ZenonT(40) DEF Whole, SetFacts, AddOne
  <1>6. Cardinality(Held(o)) \in Nat
    BY HeldFinite, ZenonT(40)
  <1>7. Cardinality(Held(o)') = Cardinality(Held(o) \cup {<<t, 2>>}) + 1
    BY <1>2, <1>5, ZenonT(40)
  <1>8. QED
    BY <1>4, <1>6, <1>7

\* kobj_lru_mark_error.
LEMMA MarkErrorInv ==
    ASSUME Whole, NEW t \in Thread, mark_error(t)
    PROVE  LruInv'
  <1>1. LocalTypes /\ ObjectTypes /\ Local(t) /\ panic = "no" /\ pc[t] = "mark_error" /\ NoTwice
    BY ZenonT(40) DEF Whole, TypeOK, LocalTypes, ObjectTypes, mark_error, Goto
  <1>2. PICK o \in Obj : at[t] = o /\ Fine(o)
    BY <1>1, ZenonT(40) DEF Local, LocalTypes, Whole
  <1>3. /\ t \in Users(o) /\ want[t] \in Id /\ hash[want[t]] = o /\ dflags[o] = {}
        /\ "DESTROY" \notin flags[o] /\ "LRU" \in flags[o]
        /\ \A u \in Users(o) \ {t} : pc[u] = "wait" /\ u \in wait[o] /\ want[u] = want[t]
        /\ \A i \in Id : hash[i] = o <=> i = want[t]
    <2>1. pc[t] \in Starting
      BY <1>1, ZenonT(40) DEF Starting
    <2>2. QED
      BY <1>2, <2>1, FirstUser
  <1>4. /\ pc' = [pc EXCEPT ![t] = "error"] /\ id' = [id EXCEPT ![o] = want[t]]
        /\ flags' = [flags EXCEPT ![o] = flags[o] \cup {"ERR", "INIT"}]
        /\ hash' = [hash EXCEPT ![want[t]] = NULL] /\ active' = active \ {o}
        /\ UNCHANGED <<lru, refs, wait, dflags, present, links>>
        /\ UNCHANGED <<at, want, ref, tried, cached, drops, panic>>
    BY <1>2, ZenonT(40) DEF mark_error, Goto, direntVars, locals
  <1>5. /\ hash'[want[t]] = NULL /\ \A i \in Id \ {want[t]} : hash'[i] = hash[i]
    BY <1>1, <1>3, <1>4, ZenonT(40) DEF ObjectTypes
  <1>6. id'[o] = want[t] /\ flags'[o] = flags[o] \cup {"ERR", "INIT"}
    BY <1>1, <1>4, ZenonT(40) DEF ObjectTypes
  <1>7. /\ "INIT" \in flags'[o] /\ "LRU" \in flags'[o]
        /\ "ERR" \in flags'[o] /\ "DESTROY" \notin flags'[o]
    BY <1>3, <1>6, ZenonT(40)
  <1>8. Goes(t, o, "error")
    BY <1>1, <1>2, <1>4, ZenonT(40) DEF Goes, PC
  <1>9. /\ at'[t] = o /\ pc'[t] = "error" /\ ThreadsApart(t) /\ Users(o)' = Users(o)
        /\ \A u \in Users(o) : want'[u] = want[t]
        /\ \A u \in Users(o) \ {t} : pc'[u] = "wait"
    <2>1. /\ at'[t] = o /\ pc'[t] = "error" /\ ThreadsApart(t) /\ Users(o)' = Users(o)
          /\ \A u \in Users(o) : want'[u] = want[u]
          /\ \A u \in Users(o) \ {t} : pc'[u] = pc[u]
      BY <1>8, Going, ZenonT(40)
    <2>2. QED
      BY <1>3, <2>1, ZenonT(40)
  <1>10. Cached(o) /\ ~Cached(o)' /\ \A i \in Id : hash'[i] # o
    <2>1. \A i \in Id : hash'[i] # o
      BY <1>3, <1>5, NoObject, ZenonT(40)
    <2>2. QED
      BY <1>3, <2>1, ZenonT(40) DEF Cached
  <1>11. NoTwice' /\ \A p : OnLru(p)' <=> OnLru(p)
    BY <1>1, <1>4, ZenonT(40) DEF NoTwice, OnLru
  <1>12. ObjectsApart(t, o)
    <2>1. \A i \in Id : hash'[i] = hash[i] \/ (hash[i] \in {NULL, o} /\ hash'[i] \in {NULL, o})
      BY <1>3, <1>5, ZenonT(40)
    <2>2. QED
      BY <1>1, <1>2, <1>4, <1>9, <1>11, <2>1, ZenonT(40) DEF ObjectsApart, ObjectTypes
  <1>13. Hashed(o)'
    BY <1>10, ZenonT(40) DEF Hashed
  <1>14. Started(o)'
    BY <1>9, ZenonT(40) DEF Started, Starting
  <1>15. Used(o)'
    <2>1. \A u \in Users(o)' : pc'[u] \in {"error", "wait"} /\ want'[u] = want[t]
      BY <1>9, ZenonT(40)
    <2>2. QED
      BY <1>6, <1>7, <2>1, ZenonT(40) DEF Used, Using
  <1>16. Reclaimed(o)'
    BY <1>7, <1>9, ZenonT(40) DEF Reclaimed, Reclaiming
  <1>17. Unlinked(o)'
    <2>1. \A u \in Users(o)' : pc'[u] \notin Removing /\ pc'[u] # "uncache"
      BY <1>9, ZenonT(40) DEF Removing
    <2>2. dflags'[o] = {}
      BY <1>3, <1>4, ZenonT(40)
    <2>3. QED
      BY <1>7, <2>1, <2>2, ZenonT(40) DEF Unlinked
  <1>18. Named(o)'
    BY <1>9, <1>10, ZenonT(40) DEF Named
  <1>19. Waited(o)'
    BY <1>3, <1>9, ZenonT(40) DEF Waited
  <1>20. Listed(o)'
    <2>1. ~OnLru(o)
      BY <1>2, <1>3, ZenonT(40) DEF Fine, Listed
    <2>2. QED
      BY <1>4, <1>10, <1>11, <2>1, ZenonT(40) DEF Listed
  <1>21. Count(o)'
    <2>1. Share(t) = 1 /\ Share(t)' = 3
      BY <1>1, <1>9, ZenonT(40) DEF Share
    <2>2. Cardinality(Held(o)') = Cardinality(Held(o)) + 2
      BY <1>2, <1>9, <2>1, HeldError, ZenonT(40)
    <2>3. refs[o] = Cardinality(Held(o)) + 2 /\ Cardinality(Held(o)) \in Nat
      BY <1>3, <1>10, CountMeans, ZenonT(40)
    <2>4. refs'[o] = Cardinality(Held(o)') /\ refs'[o] \in Nat
      BY <1>4, <2>2, <2>3
    <2>5. QED
      BY <1>10, <2>4 DEF Count
  <1>22. ObjectTypes'
    <2>1. id' \in [Obj -> Id \cup {NULL}]
      BY <1>1, <1>3, <1>4, ZenonT(40) DEF ObjectTypes
    <2>2. flags' \in [Obj -> SUBSET {"LRU", "INIT", "ERR", "DESTROY"}]
      BY <1>1, <1>4, ZenonT(40) DEF ObjectTypes
    <2>3. hash' \in [Id -> Obj \cup {NULL}] /\ active' \subseteq Obj
      BY <1>1, <1>4, ZenonT(40) DEF ObjectTypes
    <2>4. QED
      BY <1>1, <1>4, <2>1, <2>2, <2>3, ZenonT(40) DEF ObjectTypes
  <1>23. LinksCount'
    <2>1. dflags[o] # {"UNLINK", "UNCACHED"} /\ dflags'[o] # {"UNLINK", "UNCACHED"}
      BY <1>3, <1>4, ZenonT(40)
    <2>2. QED
      BY <1>4, <1>9, <1>12, <2>1, LinksSame, ZenonT(40)
  <1>24. Fine(o)'
    BY <1>13, <1>14, <1>15, <1>16, <1>17, <1>18, <1>19, <1>20, <1>21, ZenonT(40) DEF Fine, Sound
  <1>25. QED
    BY <1>8, <1>11, <1>12, <1>22, <1>23, <1>24, GoneOn, ZenonT(40)

\* A waiter that was woken finds the object initialized, and the object did
\* not leave the active list since it got its reference.
LEMMA WokenInv ==
    ASSUME Whole, NEW t \in Thread, Woken(t)
    PROVE  LruInv'
  <1>1. LocalTypes /\ ObjectTypes /\ Local(t) /\ panic = "no" /\ pc[t] = "wait"
    BY ZenonT(40) DEF Whole, TypeOK, LocalTypes, ObjectTypes, Woken
  <1>2. PICK o \in Obj : at[t] = o /\ Fine(o)
    BY <1>1, ZenonT(40) DEF Local, LocalTypes, Whole
  <1>3. t \in Users(o) /\ t \notin wait[o] /\ want[t] \in Id
    BY <1>1, <1>2, ZenonT(40) DEF Woken, Users, Local, LocalTypes
  <1>4. "INIT" \in flags[o]
    <2> SUFFICES ASSUME "INIT" \notin flags[o] PROVE FALSE
      OBVIOUS
    <2>1. PICK u \in Users(o) : pc[u] \in Starting
      BY <1>1, <1>2, <1>3, ZenonT(40) DEF Fine, Sound, Used
    <2>2. t # u
      BY <1>1, <2>1, ZenonT(40) DEF Starting
    <2>3. QED
      BY <1>2, <1>3, <2>1, <2>2, ZenonT(40) DEF Fine, Sound, Started
  <1>5. "DESTROY" \notin flags[o]
    <2> SUFFICES ASSUME "DESTROY" \in flags[o] PROVE FALSE
      OBVIOUS
    <2>1. PICK u \in Users(o) : pc[u] \in {"release", "forget"}
      BY <1>2, ZenonT(40) DEF Fine, Sound, Reclaimed
    <2>2. pc[u] \in Reclaiming
      BY <2>1, ZenonT(40) DEF Reclaiming
    <2>3. Users(o) = {u}
      BY <1>2, <2>1, <2>2, ZenonT(40) DEF Fine, Sound, Reclaimed
    <2>4. QED
      BY <1>1, <1>3, <2>1, <2>3, ZenonT(40)
  <1>6. PICK to \in {"putref_retry", "putref", "use"} :
          /\ to = "putref_retry" <=> "LRU" \notin flags[o]
          /\ to = "putref" <=> "LRU" \in flags[o] /\ "ERR" \in flags[o]
          /\ Goto(t, "wait", to)
          /\ IF to = "use" /\ refs[o] > 2
             THEN Activate(o, ref[t])
             ELSE Check(to \notin {"use", "wait"}) /\ UNCHANGED <<active, lru>>
          /\ drops' = [drops EXCEPT ![t] = IF to = "putref" THEN 1 ELSE 0]
    <2>1. CASE "LRU" \notin flags[o]
      BY <1>2, <2>1, ZenonT(40) DEF Woken
    <2>2. CASE "LRU" \in flags[o] /\ "ERR" \in flags[o]
      BY <1>2, <1>4, <1>5, <2>2, ZenonT(40) DEF Woken
    <2>3. CASE "LRU" \in flags[o] /\ "ERR" \notin flags[o]
      BY <1>2, <1>4, <1>5, <2>3, ZenonT(40) DEF Woken
    <2>4. QED
      BY <2>1, <2>2, <2>3, ZenonT(40)
  <1>7. UNCHANGED <<active, lru, panic>>
    <2>1. CASE to = "use"
      <3>1. hash[want[t]] = o
        <4>1. pc[t] \notin Reclaiming
          BY <1>1, ZenonT(40) DEF Reclaiming
        <4>2. QED
          BY <1>2, <1>3, <1>4, <1>6, <2>1, <4>1, ZenonT(40) DEF Fine, Sound, Used
      <3>2. Cached(o)
        BY <1>3, <3>1, ZenonT(40) DEF Cached
      <3>3. /\ refs[o] = Cardinality(Held(o)) + 2 /\ Cardinality(Held(o)) \in Nat
            /\ Cardinality(Held(o)) # 0
        BY <1>3, <1>5, <3>2, CountMeans, ZenonT(40)
      <3>4. refs[o] > 2
        BY <3>3
      <3>5. ref[t] > 2 /\ ref[t] \in Nat
        BY <1>1, ZenonT(40) DEF Local, LocalTypes
      <3>6. ref[t] # 2
        BY <3>5
      <3>7. QED
        BY <1>6, <2>1, <3>4, <3>6, ZenonT(40) DEF Activate
    <2>2. CASE to # "use"
      BY <1>6, <2>2, ZenonT(40) DEF Check
    <2>3. QED
      BY <2>1, <2>2, ZenonT(40)
  <1>8. /\ pc' = [pc EXCEPT ![t] = to] /\ ref' = [ref EXCEPT ![t] = 0]
        /\ UNCHANGED <<hash, refs, flags, id, wait, dflags, present, links>>
        /\ UNCHANGED <<at, want, tried, cached>>
    BY <1>6, ZenonT(40) DEF Woken, Goto, direntVars
  <1>9. to = "putref" => drops'[t] = 1
    BY <1>1, <1>6, ZenonT(40) DEF LocalTypes
  <1>10. Goes(t, o, to)
    <2>1. 0 \in 0..3 /\ 1 \in 0..3 /\ 1 > 0
      OBVIOUS
    <2>2. \E d \in 0..3 : drops' = [drops EXCEPT ![t] = d]
      BY <1>6, <2>1, ZenonT(40)
    <2>3. QED
      BY <1>1, <1>2, <1>6, <1>7, <1>8, <1>9, <2>1, <2>2, ZenonT(40) DEF Goes, PC
  <1>11. /\ at'[t] = o /\ pc'[t] = to /\ ThreadsApart(t)
         /\ Users(o)' = Users(o)
         /\ \A u \in Users(o) : want'[u] = want[u]
         /\ \A u \in Users(o) \ {t} : pc'[u] = pc[u]
    BY <1>10, Going, ZenonT(40)
  <1>12. Share(t)' = Share(t)
    BY <1>1, <1>6, <1>9, <1>11 DEF Share
  <1>13. QuietStep(t, o, to)
    BY <1>1, <1>4, <1>6, <1>7, <1>8, <1>10, <1>12, ZenonT(40) DEF QuietStep, Starting, Reclaiming
  <1>14. (Cached(o)' <=> Cached(o)) /\ ObjectsApart(t, o)
    BY <1>13, Quiet, ZenonT(40)
  <1>15. ObjectTypes'
    BY <1>1, <1>7, <1>8, ZenonT(40) DEF ObjectTypes
  <1>16. Used(o)'
    <2>1. ASSUME NEW u \in Users(o), u # t
          PROVE  /\ pc'[u] = pc[u] /\ want'[u] = want[u]
      BY <1>11, <2>1, ZenonT(40)
    <2>2. /\ id[o] = want[t] /\ ("LRU" \in flags[o] /\ "ERR" \notin flags[o] => hash[want[t]] = o)
      BY <1>1, <1>2, <1>3, <1>4, ZenonT(40) DEF Fine, Sound, Used, Reclaiming
    <2>3. /\ pc'[t] \in Using => "ERR" \notin flags[o]
          /\ pc'[t] # "error" /\ pc'[t] # "wait"
          /\ pc'[t] = "putref_retry" => "LRU" \notin flags[o]
          /\ pc'[t] = "putref" => "ERR" \in flags[o]
      BY <1>6, <1>11, ZenonT(40) DEF Using
    <2>4. want'[t] = want[t]
      BY <1>3, <1>11, ZenonT(40)
    <2>5. QED
      BY <1>2, <1>4, <1>8, <1>11, <2>1, <2>2, <2>3, <2>4, ZenonT(40) DEF Fine, Sound, Used
  <1>17. Unlinked(o)'
    <2>1. pc[t] \notin Removing /\ pc'[t] \notin Removing /\ pc[t] \notin {"use", "uncache"} /\ pc'[t] # "uncache"
      BY <1>1, <1>6, <1>11, ZenonT(40) DEF Removing
    <2>2. QED
      BY <1>2, <1>8, <1>11, <1>14, <2>1, ZenonT(40) DEF Fine, Sound, Unlinked
  <1>18. Named(o)'
    BY <1>1, <1>2, <1>6, <1>8, <1>11, ZenonT(40) DEF Fine, Sound, Named
  <1>19. Waited(o)'
    BY <1>1, <1>2, <1>6, <1>8, <1>11, ZenonT(40) DEF Fine, Waited, Starting
  <1>20. LinksCount'
    BY <1>1, <1>6, <1>8, <1>11, <1>14, LinksSame, ZenonT(40)
  <1>21. QED
    BY <1>13, <1>15, <1>16, <1>17, <1>18, <1>19, <1>20, QuietInv, ZenonT(40)

-----------------------------------------------------------------------------
(***************************************************************************)
(* Reclaiming and removing.                                                *)
(***************************************************************************)

\* An object that is reclaimed was not unlinked, is still in the hash and
\* has no other user.
LEMMA ReclaimerAlone ==
    ASSUME Whole, NEW t \in Thread, NEW o \in Obj, at[t] = o, pc[t] \in {"release", "forget"}
    PROVE  /\ Users(o) = {t} /\ "UNLINK" \notin dflags[o] /\ "UNCACHED" \notin dflags[o]
           /\ id[o] \in Id /\ hash[id[o]] = o /\ (\A i \in Id : hash[i] = o => i = id[o])
           /\ "INIT" \in flags[o] /\ "DESTROY" \in flags[o] /\ Cached(o)
           /\ "LRU" \in flags[o] /\ "ERR" \notin flags[o] /\ ~OnLru(o) /\ o \notin active
  <1>1. Fine(o) /\ t \in Users(o) /\ dflags[o] \in SUBSET {"UNLINK", "UNCACHED"}
    BY ZenonT(40) DEF Whole, TypeOK, Users
  <1>2. pc[t] \in Reclaiming /\ pc[t] \notin Starting \cup {"wait"} /\ pc[t] # "reclaim_put"
    BY ZenonT(40) DEF Reclaiming, Starting
  <1>3. /\ Users(o) = {t} /\ "DESTROY" \in flags[o] /\ Cached(o)
        /\ "LRU" \in flags[o] /\ "ERR" \notin flags[o]
    BY <1>1, <1>2, ZenonT(40) DEF Fine, Sound, Reclaimed
  <1>4. "INIT" \in flags[o]
    BY <1>1, <1>2, ZenonT(40) DEF Fine, Sound, Used
  <1>5. "UNCACHED" \notin dflags[o]
    <2>1. \A u \in Users(o) : pc[u] \notin Removing
      BY <1>3, ZenonT(40) DEF Removing
    <2>2. QED
      BY <1>1, <1>3, <2>1, ZenonT(40) DEF Fine, Sound, Unlinked
  <1>6. "UNLINK" \notin dflags[o]
    <2>1. \A u \in Users(o) : pc[u] \notin {"use", "uncache"}
      BY <1>3, ZenonT(40)
    <2>2. dflags[o] # {"UNLINK"}
      BY <1>1, <2>1, ZenonT(40) DEF Fine, Sound, Unlinked
    <2>3. QED
      BY <1>1, <1>5, <2>2, ZenonT(40)
  <1>7. \A i \in Id : hash[i] = o => i = id[o]
    BY <1>1, <1>4, ZenonT(40) DEF Fine, Sound, Hashed
  <1>8. id[o] \in Id /\ hash[id[o]] = o
    BY <1>3, <1>7, ZenonT(40) DEF Cached
  <1>9. ~OnLru(o) /\ o \notin active
    BY <1>1, <1>3, ZenonT(40) DEF Fine, Listed
  <1>10. QED
    BY <1>3, <1>4, <1>5, <1>6, <1>7, <1>8, <1>9, ZenonT(40)

\* lru->release has no link to drop.
LEMMA ReleaseInv ==
    ASSUME Whole, NEW t \in Thread, Release(t)
    PROVE  LruInv'
  <1>1. LocalTypes /\ ObjectTypes /\ Local(t) /\ panic = "no" /\ pc[t] = "release" /\ NoTwice
    BY ZenonT(40) DEF Whole, TypeOK, LocalTypes, ObjectTypes, Release, Goto
  <1>2. PICK o \in Obj : at[t] = o /\ Fine(o)
    BY <1>1, ZenonT(40) DEF Local, LocalTypes, Whole
  <1>3. /\ Users(o) = {t} /\ "UNLINK" \notin dflags[o] /\ "UNCACHED" \notin dflags[o]
        /\ "INIT" \in flags[o] /\ "DESTROY" \in flags[o] /\ Cached(o)
        /\ "LRU" \in flags[o] /\ "ERR" \notin flags[o]
    <2>1. pc[t] \in {"release", "forget"}
      BY <1>1, ZenonT(40)
    <2>2. QED
      BY <1>2, <2>1, ReclaimerAlone
  <1>4. /\ pc' = [pc EXCEPT ![t] = "forget"] /\ dirent_drop(o)
        /\ UNCHANGED <<hash, active, lru, refs, flags, id, wait>>
        /\ UNCHANGED <<at, want, ref, tried, cached, drops, panic>>
    BY <1>2, ZenonT(40) DEF Release, Goto, lruVars, locals
  <1>5. dflags' = dflags /\ links' = links /\ present' = present
    <2>1. dflags[o] \ {"UNLINK"} = dflags[o]
      BY <1>3, ZenonT(40)
    <2>2. dflags' = dflags
      BY <1>1, <1>4, <2>1, ZenonT(40) DEF dirent_drop, ObjectTypes
    <2>3. \A i \in Id : links'[i] = links[i]
      BY <1>3, <1>4, ZenonT(40) DEF dirent_drop
    <2>4. links' = [i \in Id |-> links'[i]] /\ links = [i \in Id |-> links[i]]
      BY <1>1, <1>4, ZenonT(40) DEF dirent_drop, ObjectTypes
    <2>5. QED
      BY <1>4, <2>2, <2>3, <2>4, ZenonT(40) DEF dirent_drop
  <1>6. Goes(t, o, "forget")
    BY <1>1, <1>2, <1>4, ZenonT(40) DEF Goes, PC
  <1>7. /\ at'[t] = o /\ pc'[t] = "forget" /\ ThreadsApart(t) /\ Users(o)' = Users(o)
    BY <1>6, Going, ZenonT(40)
  <1>8. (Cached(o)' <=> Cached(o)) /\ NoTwice' /\ \A p : OnLru(p)' <=> OnLru(p)
    BY <1>1, <1>4, ZenonT(40) DEF Cached, NoTwice, OnLru
  <1>9. ObjectsApart(t, o)
    BY <1>2, <1>4, <1>5, <1>7, <1>8, ZenonT(40) DEF ObjectsApart
  <1>10. Hashed(o)'
    BY <1>2, <1>3, <1>4, ZenonT(40) DEF Fine, Sound, Hashed
  <1>11. Started(o)'
    BY <1>3, <1>7, ZenonT(40) DEF Started, Starting
  <1>12. Used(o)'
    BY <1>3, <1>4, <1>7, ZenonT(40) DEF Used, Reclaiming, Using
  <1>13. Reclaimed(o)'
    BY <1>3, <1>4, <1>7, <1>8, ZenonT(40) DEF Reclaimed
  <1>14. Unlinked(o)'
    <2>1. "UNLINK" \notin dflags'[o] /\ "UNCACHED" \notin dflags'[o] /\ "LRU" \in flags'[o]
      BY <1>3, <1>4, <1>5, ZenonT(40)
    <2>2. QED
      BY <1>3, <1>7, <2>1, ZenonT(40) DEF Unlinked, Removing
  <1>15. Named(o)'
    BY <1>1, <1>2, <1>3, <1>4, <1>5, <1>7, ZenonT(40) DEF Fine, Sound, Named
  <1>16. Waited(o)'
    BY <1>3, <1>7, ZenonT(40) DEF Waited
  <1>17. Listed(o)'
    BY <1>2, <1>4, <1>7, <1>8, ZenonT(40) DEF Fine, Listed
  <1>18. Count(o)'
    <2>1. Share(t)' = Share(t)
      BY <1>1, <1>7, ZenonT(40) DEF Share
    <2>2. QED
      BY <1>2, <1>4, <1>7, <1>8, <2>1, CountKept, ZenonT(40)
  <1>19. ObjectTypes'
    BY <1>1, <1>4, <1>5, ZenonT(40) DEF ObjectTypes
  <1>20. LinksCount'
    BY <1>1, <1>4, <1>5, <1>7, <1>9, LinksSame, ZenonT(40)
  <1>21. Fine(o)'
    BY <1>10, <1>11, <1>12, <1>13, <1>14, <1>15, <1>16, <1>17, <1>18, ZenonT(40) DEF Fine, Sound
  <1>22. QED
    BY <1>6, <1>8, <1>9, <1>19, <1>20, <1>21, GoneOn, ZenonT(40)

\* An object that leaves the hash under its identifier.
LEMMA Unhashed ==
    ASSUME Whole, NEW o \in Obj, NEW i \in Id, \A j \in Id : hash[j] = o => j = i, hash[i] = o,
           hash' = [hash EXCEPT ![i] = NULL]
    PROVE  /\ \A j \in Id : hash'[j] # o
           /\ \A j \in Id : hash'[j] = hash[j] \/ (hash[j] \in {NULL, o} /\ hash'[j] \in {NULL, o})
           /\ ~Cached(o)' /\ hash' \in [Id -> Obj \cup {NULL}]
  <1>1. hash \in [Id -> Obj \cup {NULL}]
    BY ZenonT(40) DEF Whole, TypeOK
  <1>2. hash'[i] = NULL /\ \A j \in Id \ {i} : hash'[j] = hash[j]
    BY <1>1, ZenonT(40)
  <1>3. \A j \in Id : hash'[j] # o
    BY <1>2, NoObject, ZenonT(40)
  <1>4. hash' \in [Id -> Obj \cup {NULL}]
    BY <1>1, ZenonT(40)
  <1>5. QED
    BY <1>2, <1>3, <1>4, ZenonT(40) DEF Cached

\* The object that was reclaimed leaves the hash.
LEMMA ForgetInv ==
    ASSUME Whole, NEW t \in Thread, Forget(t)
    PROVE  LruInv'
  <1>1. LocalTypes /\ ObjectTypes /\ Local(t) /\ panic = "no" /\ pc[t] = "forget" /\ NoTwice
    BY ZenonT(40) DEF Whole, TypeOK, LocalTypes, ObjectTypes, Forget, Goto
  <1>2. PICK o \in Obj : at[t] = o /\ Fine(o)
    BY <1>1, ZenonT(40) DEF Local, LocalTypes, Whole
  <1>3. /\ Users(o) = {t} /\ "UNLINK" \notin dflags[o] /\ "UNCACHED" \notin dflags[o]
        /\ id[o] \in Id /\ hash[id[o]] = o /\ (\A i \in Id : hash[i] = o => i = id[o])
        /\ "INIT" \in flags[o] /\ "DESTROY" \in flags[o] /\ Cached(o)
        /\ "LRU" \in flags[o] /\ "ERR" \notin flags[o] /\ ~OnLru(o) /\ o \notin active
    <2>1. pc[t] \in {"release", "forget"}
      BY <1>1, ZenonT(40)
    <2>2. QED
      BY <1>2, <2>1, ReclaimerAlone
  <1>4. /\ pc' = [pc EXCEPT ![t] = "reclaim_put"] /\ Check(hash[id[o]] # NULL)
        /\ hash' = [hash EXCEPT ![id[o]] = NULL]
        /\ flags' = [flags EXCEPT ![o] = flags[o] \ {"DESTROY"}]
        /\ UNCHANGED <<active, lru, refs, id, wait, dflags, present, links>>
        /\ UNCHANGED <<at, want, ref, tried, cached, drops>>
    BY <1>2, ZenonT(40) DEF Forget, Goto, direntVars, locals
  <1>5. panic' = "no"
    BY <1>1, <1>3, <1>4, NoObject, ZenonT(40) DEF Check
  <1>6. /\ \A j \in Id : hash'[j] # o
        /\ \A j \in Id : hash'[j] = hash[j] \/ (hash[j] \in {NULL, o} /\ hash'[j] \in {NULL, o})
        /\ ~Cached(o)' /\ hash' \in [Id -> Obj \cup {NULL}]
    BY <1>3, <1>4, Unhashed, ZenonT(40)
  <1>7. flags'[o] = flags[o] \ {"DESTROY"}
    BY <1>1, <1>4, ZenonT(40) DEF ObjectTypes
  <1>8. /\ "INIT" \in flags'[o] /\ "LRU" \in flags'[o]
        /\ "ERR" \notin flags'[o] /\ "DESTROY" \notin flags'[o]
    BY <1>3, <1>7, ZenonT(40)
  <1>9. Goes(t, o, "reclaim_put")
    BY <1>1, <1>2, <1>4, <1>5, ZenonT(40) DEF Goes, PC
  <1>10. /\ at'[t] = o /\ pc'[t] = "reclaim_put" /\ ThreadsApart(t) /\ Users(o)' = Users(o)
    BY <1>9, Going, ZenonT(40)
  <1>11. NoTwice' /\ \A p : OnLru(p)' <=> OnLru(p)
    BY <1>1, <1>4, ZenonT(40) DEF NoTwice, OnLru
  <1>12. ObjectsApart(t, o)
    BY <1>1, <1>2, <1>4, <1>6, <1>10, <1>11, ZenonT(40) DEF ObjectsApart, ObjectTypes
  <1>13. Hashed(o)'
    BY <1>6, ZenonT(40) DEF Hashed
  <1>14. Started(o)'
    BY <1>3, <1>10, ZenonT(40) DEF Started, Starting
  <1>15. Used(o)'
    BY <1>3, <1>8, <1>10, ZenonT(40) DEF Used, Reclaiming, Using
  <1>16. Reclaimed(o)'
    BY <1>3, <1>6, <1>8, <1>10, ZenonT(40) DEF Reclaimed
  <1>17. Unlinked(o)'
    <2>1. "UNLINK" \notin dflags'[o] /\ "UNCACHED" \notin dflags'[o] /\ "LRU" \in flags'[o]
      BY <1>3, <1>4, <1>8, ZenonT(40)
    <2>2. QED
      BY <1>3, <1>10, <2>1, ZenonT(40) DEF Unlinked, Removing
  <1>18. Named(o)'
    BY <1>3, <1>6, <1>10, ZenonT(40) DEF Named
  <1>19. Waited(o)'
    BY <1>3, <1>10, ZenonT(40) DEF Waited
  <1>20. Listed(o)'
    BY <1>3, <1>4, <1>6, <1>11, ZenonT(40) DEF Listed
  <1>21. Count(o)'
    <2>1. Share(t)' = Share(t)
      BY <1>1, <1>10, ZenonT(40) DEF Share
    <2>2. refs'[o] = refs[o]
      BY <1>4, ZenonT(40)
    <2>3. QED
      BY <1>2, <1>3, <1>6, <1>10, <2>1, <2>2, CountKept, ZenonT(40)
  <1>22. ObjectTypes'
    <2>1. flags' \in [Obj -> SUBSET {"LRU", "INIT", "ERR", "DESTROY"}]
      BY <1>1, <1>4, ZenonT(40) DEF ObjectTypes
    <2>2. QED
      BY <1>1, <1>4, <1>6, <2>1, ZenonT(40) DEF ObjectTypes
  <1>23. LinksCount'
    BY <1>1, <1>4, <1>10, <1>12, LinksSame, ZenonT(40)
  <1>24. Fine(o)'
    BY <1>13, <1>14, <1>15, <1>16, <1>17, <1>18, <1>19, <1>20, <1>21, ZenonT(40) DEF Fine, Sound
  <1>25. QED
    BY <1>9, <1>11, <1>12, <1>22, <1>23, <1>24, GoneOn, ZenonT(40)

\* kobj_lru_remove.
LEMMA RemoveInv ==
    ASSUME Whole, NEW t \in Thread, kobj_lru_remove(t)
    PROVE  LruInv'
  <1>1. LocalTypes /\ ObjectTypes /\ Local(t) /\ panic = "no" /\ pc[t] = "remove" /\ NoTwice
    BY ZenonT(40) DEF Whole, TypeOK, LocalTypes, ObjectTypes, kobj_lru_remove, Goto
  <1>2. PICK o \in Obj : at[t] = o /\ Fine(o)
    BY <1>1, ZenonT(40) DEF Local, LocalTypes, Whole
  <1>3. t \in Users(o) /\ want[t] \in Id
    BY <1>1, <1>2, ZenonT(40) DEF Users, Local, LocalTypes
  <1>4. /\ id[o] = want[t] /\ hash[want[t]] = o /\ "INIT" \in flags[o] /\ "ERR" \notin flags[o]
        /\ "UNCACHED" \in dflags[o] /\ \A u \in Users(o) : pc[u] \in Removing => u = t
    <2>1. "INIT" \in flags[o] /\ "ERR" \notin flags[o]
      BY <1>1, <1>2, <1>3, ZenonT(40) DEF Fine, Sound, Used, Starting, Using
    <2>2. /\ "LRU" \in flags[o] /\ "UNCACHED" \in dflags[o]
          /\ \A u \in Users(o) : pc[u] \in Removing => u = t
      BY <1>1, <1>2, <1>3, ZenonT(40) DEF Fine, Sound, Unlinked, Removing
    <2>3. pc[t] \notin Reclaiming
      BY <1>1, ZenonT(40) DEF Reclaiming
    <2>4. QED
      BY <1>2, <1>3, <2>1, <2>2, <2>3, ZenonT(40) DEF Fine, Sound, Used
  <1>5. \A i \in Id : hash[i] = o => i = want[t]
    BY <1>2, <1>4, ZenonT(40) DEF Fine, Sound, Hashed
  <1>6. /\ pc' = [pc EXCEPT ![t] = "putref"] /\ hash' = [hash EXCEPT ![want[t]] = NULL]
        /\ active' = active \ {o} /\ flags' = [flags EXCEPT ![o] = flags[o] \ {"LRU"}]
        /\ refs' = [refs EXCEPT ![o] = refs[o] - 2] /\ drops' = [drops EXCEPT ![t] = 1]
        /\ UNCHANGED <<lru, id, wait, dflags, present, links>>
        /\ UNCHANGED <<at, want, ref, tried, cached, panic>>
    BY <1>2, <1>4, ZenonT(40) DEF kobj_lru_remove, Goto, direntVars
  <1>7. /\ \A j \in Id : hash'[j] # o
        /\ \A j \in Id : hash'[j] = hash[j] \/ (hash[j] \in {NULL, o} /\ hash'[j] \in {NULL, o})
        /\ ~Cached(o)' /\ hash' \in [Id -> Obj \cup {NULL}]
    BY <1>3, <1>4, <1>5, <1>6, Unhashed, ZenonT(40)
  <1>8. /\ flags'[o] = flags[o] \ {"LRU"} /\ refs'[o] = refs[o] - 2 /\ drops'[t] = 1
    BY <1>1, <1>6, ZenonT(40) DEF ObjectTypes, LocalTypes
  <1>9. /\ "INIT" \in flags'[o] /\ "LRU" \notin flags'[o] /\ "ERR" \notin flags'[o]
        /\ "DESTROY" \in flags'[o] <=> "DESTROY" \in flags[o]
    BY <1>4, <1>8, ZenonT(40)
  <1>10. /\ \A u \in Users(o) : pc[u] \notin Starting \cup Reclaiming
         /\ "DESTROY" \notin flags[o]
    <2>1. \A u \in Users(o) : pc[u] \notin Starting
      BY <1>2, <1>4, ZenonT(40) DEF Fine, Sound, Started
    <2>2. \A u \in Users(o) : pc[u] \notin Reclaiming
      <3>1. pc[t] \notin Reclaiming
        BY <1>1, ZenonT(40) DEF Reclaiming
      <3>2. QED
        BY <1>2, <1>3, <3>1, ZenonT(40) DEF Fine, Sound, Reclaimed
    <2>3. "DESTROY" \notin flags[o]
      BY <1>2, <2>2, ZenonT(40) DEF Fine, Sound, Reclaimed, Reclaiming
    <2>4. QED
      BY <2>1, <2>2, <2>3, ZenonT(40)
  <1>11. Goes(t, o, "putref")
    <2>1. 1 \in 0..3 /\ 1 > 0
      OBVIOUS
    <2>2. QED
      BY <1>1, <1>2, <1>6, <1>8, <2>1, ZenonT(40) DEF Goes, PC
  <1>12. /\ at'[t] = o /\ pc'[t] = "putref" /\ ThreadsApart(t) /\ Users(o)' = Users(o)
         /\ \A u \in Users(o) : want'[u] = want[u]
         /\ \A u \in Users(o) \ {t} : pc'[u] = pc[u]
    BY <1>11, Going, ZenonT(40)
  <1>13. NoTwice' /\ \A p : OnLru(p)' <=> OnLru(p)
    BY <1>1, <1>6, ZenonT(40) DEF NoTwice, OnLru
  <1>14. ObjectsApart(t, o)
    BY <1>1, <1>2, <1>6, <1>7, <1>12, <1>13, ZenonT(40) DEF ObjectsApart, ObjectTypes
  <1>15. Hashed(o)'
    BY <1>7, ZenonT(40) DEF Hashed
  <1>16. \A u \in Users(o)' : pc'[u] \notin Starting \cup Reclaiming
    BY <1>10, <1>12, ZenonT(40) DEF Starting, Reclaiming
  <1>17. Started(o)' /\ Reclaimed(o)'
    BY <1>9, <1>10, <1>16, ZenonT(40) DEF Started, Reclaimed
  <1>18. Used(o)'
    <2>1. pc'[t] \notin Using /\ pc'[t] \notin {"wait", "error", "putref_retry"} /\ want'[t] = id'[o]
      BY <1>3, <1>4, <1>6, <1>12, ZenonT(40) DEF Using
    <2>2. \A u \in Users(o) \ {t} : pc[u] \notin Reclaiming => id'[o] = want'[u]
      BY <1>2, <1>4, <1>6, <1>12, ZenonT(40) DEF Fine, Sound, Used
    <2>3. \A u \in Users(o) \ {t} : pc'[u] # "error"
      BY <1>2, <1>4, <1>12, ZenonT(40) DEF Fine, Sound, Used
    <2>4. "UNCACHED" \in dflags'[o]
      BY <1>4, <1>6, ZenonT(40)
    <2>5. QED
      <3>1. ASSUME NEW u \in Users(o)'
            PROVE  pc'[u] = "error" => "ERR" \in flags'[o]
        BY <1>12, <2>1, <2>3, ZenonT(40)
      <3>2. ASSUME NEW u \in Users(o)' PROVE id'[o] = want'[u]
        BY <1>10, <1>12, <2>1, <2>2, ZenonT(40)
      <3>3. QED
        BY <1>9, <2>4, <3>1, <3>2, ZenonT(40) DEF Used
  <1>19. Unlinked(o)'
    <2>1. \A u \in Users(o)' : pc'[u] \notin Removing
      BY <1>4, <1>12, ZenonT(40) DEF Removing
    <2>2. "UNLINK" \in dflags'[o] /\ "UNCACHED" \in dflags'[o] /\ Users(o)' # {}
      BY <1>2, <1>3, <1>4, <1>6, <1>12, ZenonT(40) DEF Fine, Sound, Unlinked
    <2>3. dflags'[o] # {"UNLINK"}
      BY <2>2
    <2>4. QED
      BY <1>7, <2>1, <2>2, <2>3, ZenonT(40) DEF Unlinked
  <1>20. Named(o)'
    BY <1>7, <1>16, ZenonT(40) DEF Named, Starting
  <1>21. Waited(o)'
    BY <1>1, <1>2, <1>6, <1>12, ZenonT(40) DEF Fine, Waited, Starting
  <1>22. Cached(o)
    BY <1>3, <1>4, ZenonT(40) DEF Cached
  <1>23. Listed(o)'
    <2>1. ~OnLru(o)
      BY <1>2, <1>3, ZenonT(40) DEF Fine, Listed
    <2>2. QED
      BY <1>6, <1>7, <1>13, <2>1, ZenonT(40) DEF Listed
  <1>24. Count(o)' /\ refs'[o] \in Nat
    <2>1. Share(t)' = Share(t)
      BY <1>1, <1>8, <1>12, ZenonT(40) DEF Share
    <2>2. Held(o)' = Held(o)
      BY <1>2, <1>12, <2>1, HeldSame, ZenonT(40)
    <2>3. refs[o] = Cardinality(Held(o)) + 2 /\ Cardinality(Held(o)) \in Nat
      BY <1>10, <1>22, CountMeans, ZenonT(40)
    <2>4. refs'[o] = Cardinality(Held(o)) /\ refs'[o] \in Nat
      BY <1>8, <2>3
    <2>5. QED
      BY <1>7, <2>2, <2>4 DEF Count
  <1>25. ObjectTypes'
    <2>1. flags' \in [Obj -> SUBSET {"LRU", "INIT", "ERR", "DESTROY"}] /\ active' \subseteq Obj
      BY <1>1, <1>6, ZenonT(40) DEF ObjectTypes
    <2>2. refs' \in [Obj -> Nat]
      BY <1>1, <1>6, <1>8, <1>24, ZenonT(40) DEF ObjectTypes
    <2>3. QED
      BY <1>1, <1>6, <1>7, <2>1, <2>2, ZenonT(40) DEF ObjectTypes
  <1>26. LinksCount'
    BY <1>1, <1>6, <1>12, <1>14, LinksSame, ZenonT(40)
  <1>27. Fine(o)'
    BY <1>15, <1>17, <1>18, <1>19, <1>20, <1>21, <1>23, <1>24, ZenonT(40) DEF Fine, Sound
  <1>28. QED
    BY <1>11, <1>13, <1>14, <1>25, <1>26, <1>27, GoneOn, ZenonT(40)

-----------------------------------------------------------------------------
(***************************************************************************)
(* Steps of a thread that gets an object.                                  *)
(***************************************************************************)

\* t gets o, and goes on at the place "to".
Joins(t, o, to) ==
    /\ pc[t] \in {"get", "reclaim"} /\ pc' = [pc EXCEPT ![t] = to] /\ panic' = "no"
    /\ at' = [at EXCEPT ![t] = o] /\ UNCHANGED <<want, tried, cached, drops>>
    /\ ref' = ref \/ \E r \in Nat : ref' = [ref EXCEPT ![t] = r]
    /\ to \in {"use", "wait", "init", "release"}
    /\ to = "wait" => ref'[t] > 2

\* What such a step means for t and for the users of o.
LEMMA Joining ==
    ASSUME Whole, NEW t \in Thread, NEW o \in Obj, NEW to, Joins(t, o, to)
    PROVE  /\ ThreadsApart(t) /\ at[t] = NULL /\ at'[t] = o /\ pc'[t] = to
           /\ want'[t] = want[t] /\ want[t] \in Id
           /\ Local(t)' /\ LocalTypes'
           /\ Users(o)' = Users(o) \cup {t} /\ t \notin Users(o)
           /\ \A u \in Users(o) : want'[u] = want[u] /\ pc'[u] = pc[u]
           /\ Cardinality(Held(o)') = Cardinality(Held(o)) + 1
  <1>1. LocalTypes /\ Local(t) /\ o # NULL /\ pc[t] \in {"get", "reclaim"}
    BY NoObject, ZenonT(40) DEF Whole, TypeOK, LocalTypes, Joins
  <1>2. at[t] = NULL /\ want[t] \in Id
    BY <1>1, ZenonT(40) DEF Local, LocalTypes
  <1>3. /\ pc' = [pc EXCEPT ![t] = to] /\ at' = [at EXCEPT ![t] = o] /\ panic' = "no"
        /\ UNCHANGED <<want, tried, cached, drops>> /\ to \in {"use", "wait", "init", "release"}
        /\ to = "wait" => ref'[t] > 2
    BY ZenonT(40) DEF Joins
  <1>4. ref' \in [Thread -> Nat] /\ \A u \in Thread \ {t} : ref'[u] = ref[u]
    BY <1>1, ZenonT(40) DEF LocalTypes, Joins
  <1>5. /\ pc'[t] = to /\ pc' \in [Thread -> PC] /\ at'[t] = o /\ at' \in [Thread -> Obj \cup {NULL}]
        /\ \A u \in Thread \ {t} : pc'[u] = pc[u] /\ at'[u] = at[u]
    BY <1>1, <1>3, ZenonT(40) DEF LocalTypes, PC
  <1>6. ThreadsApart(t)
    BY <1>3, <1>4, <1>5, ZenonT(40) DEF ThreadsApart
  <1>7. LocalTypes'
    BY <1>1, <1>3, <1>4, <1>5, ZenonT(40) DEF LocalTypes
  <1>8. Local(t)'
    BY <1>1, <1>2, <1>3, <1>5, NoObject, ZenonT(40) DEF Local
  <1>9. Share(t)' = 1
    BY <1>3, <1>5, ZenonT(40) DEF Share
  <1>10. Users(o)' = Users(o) \cup {t} /\ Cardinality(Held(o)') = Cardinality(Held(o)) + 1
    BY <1>1, <1>2, <1>5, <1>6, <1>9, HeldMore, ZenonT(40)
  <1>11. t \notin Users(o)
    BY <1>1, <1>2, ZenonT(40) DEF Users
  <1>12. \A u \in Users(o) : want'[u] = want[u] /\ pc'[u] = pc[u]
    BY <1>3, <1>5, <1>11, ZenonT(40) DEF Users
  <1>13. QED
    BY <1>2, <1>3, <1>5, <1>6, <1>7, <1>8, <1>10, <1>11, <1>12, ZenonT(40)

\* The end of such a step.
LEMMA Joined ==
    ASSUME Whole, NEW t \in Thread, NEW o \in Obj, NEW to, Joins(t, o, to),
           ObjectsApart(t, o), ObjectTypes', Fine(o)', NoTwice', LinksCount'
    PROVE  LruInv'
  <1>1. ThreadsApart(t) /\ Local(t)' /\ LocalTypes'
    BY Joining, ZenonT(40)
  <1>2. panic' = "no"
    BY ZenonT(40) DEF Joins
  <1>3. TypeOK'
    BY <1>1, ZenonT(40) DEF TypeOK, LocalTypes, ObjectTypes
  <1>4. QED
    BY <1>1, <1>2, <1>3, Combine, ZenonT(40)

\* An object in the hash that nobody reclaims.
LEMMA HashedObject ==
    ASSUME Whole, NEW o \in Obj, NEW i \in Id, hash[i] = o, "DESTROY" \notin flags[o]
    PROVE  /\ Cached(o) /\ "LRU" \in flags[o] /\ "ERR" \notin flags[o]
           /\ \A u \in Users(o) : pc[u] \notin Reclaiming
           /\ refs[o] = Cardinality(Held(o)) + 2 /\ Cardinality(Held(o)) \in Nat
           /\ Cardinality(Held(o)) = 0 <=> Users(o) = {}
           /\ OnLru(o) <=> Users(o) = {}
           /\ o \in active <=> Users(o) # {}
  <1>1. Fine(o)
    BY ZenonT(40) DEF Whole
  <1>2. Cached(o)
    BY ZenonT(40) DEF Cached
  <1>3. "LRU" \in flags[o] /\ "ERR" \notin flags[o]
    BY <1>1, ZenonT(40) DEF Fine, Sound, Hashed
  <1>4. \A u \in Users(o) : pc[u] \notin Reclaiming
    BY <1>1, <1>2, ZenonT(40) DEF Fine, Sound, Reclaimed
  <1>5. (OnLru(o) <=> Users(o) = {}) /\ (o \in active <=> Users(o) # {})
    BY <1>1, <1>2, ZenonT(40) DEF Fine, Listed
  <1>6. /\ refs[o] = Cardinality(Held(o)) + 2 /\ Cardinality(Held(o)) \in Nat
        /\ Cardinality(Held(o)) = 0 <=> Users(o) = {}
    BY <1>2, CountMeans, ZenonT(40)
  <1>7. QED
    BY <1>2, <1>3, <1>4, <1>5, <1>6, ZenonT(40)

\* kobj_lru_get finds an initialized object, which is then on the active
\* list.
LEMMA FoundInv ==
    ASSUME Whole, NEW t \in Thread, Found(t)
    PROVE  LruInv'
  <1>1. LocalTypes /\ ObjectTypes /\ Local(t) /\ panic = "no" /\ pc[t] = "get" /\ NoTwice
    BY ZenonT(40) DEF Whole, TypeOK, LocalTypes, ObjectTypes, Found, Goto
  <1>2. want[t] \in Id
    BY <1>1, ZenonT(40) DEF Local, LocalTypes
  <1>3. PICK o \in Obj : hash[want[t]] = o /\ Fine(o) /\ "DESTROY" \notin flags[o] /\ "INIT" \in flags[o]
    BY <1>1, <1>2, ZenonT(40) DEF Found, ObjectTypes, Whole
  <1>4. /\ pc' = [pc EXCEPT ![t] = "use"] /\ refs' = [refs EXCEPT ![o] = refs[o] + 1]
        /\ Activate(o, refs[o]) /\ at' = [at EXCEPT ![t] = o]
        /\ UNCHANGED <<hash, flags, id, wait, dflags, present, links>>
        /\ UNCHANGED <<want, ref, tried, cached, drops>>
    BY <1>3, ZenonT(40) DEF Found, Goto, direntVars
  <1>5. /\ Cached(o) /\ "LRU" \in flags[o] /\ "ERR" \notin flags[o]
        /\ \A u \in Users(o) : pc[u] \notin Reclaiming
        /\ refs[o] = Cardinality(Held(o)) + 2 /\ Cardinality(Held(o)) \in Nat
        /\ Cardinality(Held(o)) = 0 <=> Users(o) = {}
        /\ OnLru(o) <=> Users(o) = {}
        /\ o \in active <=> Users(o) # {}
    BY <1>2, <1>3, HashedObject
  <1>6. refs[o] = 2 <=> OnLru(o)
    <2>1. refs[o] = 2 <=> Cardinality(Held(o)) = 0
      BY <1>5
    <2>2. QED
      BY <1>5, <2>1, ZenonT(40)
  <1>7. /\ lru' \in Seq(Obj) /\ NoTwice' /\ panic' = "no"
        /\ \A p : OnLru(p)' <=> OnLru(p) /\ p # o
        /\ active' = active \cup {o}
    <2>1. CASE refs[o] = 2
      <3>1. OnLru(o) /\ lru \in Seq(Obj)
        BY <1>1, <1>6, <2>1, ZenonT(40) DEF ObjectTypes
      <3>2. lru # <<>>
        BY <3>1 DEF OnLru
      <3>3. lru' = LruWithout(o) /\ active' = active \cup {o} /\ panic' = "no"
        BY <1>1, <1>4, <2>1, <3>2, ZenonT(40) DEF Activate, Check
      <3>4. QED
        BY <1>1, <3>1, <3>3, LruDrop, ZenonT(40)
    <2>2. CASE refs[o] # 2
      <3>1. UNCHANGED <<lru, active, panic>>
        BY <1>4, <2>2, ZenonT(40) DEF Activate
      <3>2. ~OnLru(o) /\ o \in active
        BY <1>5, <1>6, <2>2, ZenonT(40)
      <3>3. NoTwice' /\ lru' \in Seq(Obj) /\ \A p : OnLru(p)' <=> OnLru(p)
        BY <1>1, <3>1, ZenonT(40) DEF NoTwice, OnLru, ObjectTypes
      <3>4. active' = active \cup {o}
        BY <3>1, <3>2, ZenonT(40)
      <3>5. QED
        BY <1>1, <3>1, <3>2, <3>3, <3>4, ZenonT(40)
    <2>3. QED
      BY <2>1, <2>2, ZenonT(40)
  <1>8. Joins(t, o, "use")
    BY <1>1, <1>4, <1>7, ZenonT(40) DEF Joins
  <1>9. /\ ThreadsApart(t) /\ at[t] = NULL /\ at'[t] = o /\ pc'[t] = "use"
        /\ want'[t] = want[t]
        /\ Users(o)' = Users(o) \cup {t}
        /\ \A u \in Users(o) : want'[u] = want[u] /\ pc'[u] = pc[u]
        /\ Cardinality(Held(o)') = Cardinality(Held(o)) + 1
    BY <1>8, Joining, ZenonT(40)
  <1>10. refs'[o] = refs[o] + 1 /\ refs[o] \in Nat /\ (Cached(o)' <=> Cached(o))
    BY <1>1, <1>4, ZenonT(40) DEF ObjectTypes, Cached
  <1>11. ObjectsApart(t, o)
    BY <1>1, <1>4, <1>7, <1>9, ZenonT(40) DEF ObjectsApart, ObjectTypes
  <1>12. Hashed(o)'
    BY <1>3, <1>4, ZenonT(40) DEF Fine, Sound, Hashed
  <1>13. \A u \in Users(o) : pc[u] \notin Starting
    BY <1>3, ZenonT(40) DEF Fine, Sound, Started
  <1>14. Started(o)'
    BY <1>9, <1>13, ZenonT(40) DEF Started, Starting
  <1>15. Used(o)'
    <2>1. id[o] = want[t]
      BY <1>2, <1>3, ZenonT(40) DEF Fine, Sound, Hashed
    <2>2. \A u \in Users(o)' : u = t \/ (u \in Users(o) /\ want'[u] = want[u] /\ pc'[u] = pc[u])
      BY <1>9, ZenonT(40)
    <2>3. QED
      BY <1>3, <1>4, <1>5, <1>9, <2>1, <2>2, ZenonT(40) DEF Fine, Sound, Used
  <1>16. Reclaimed(o)'
    BY <1>3, <1>4, <1>5, <1>9, ZenonT(40) DEF Reclaimed, Reclaiming
  <1>17. Unlinked(o)'
    <2>1. "UNCACHED" \in dflags[o] => Users(o) # {} /\ "UNLINK" \in dflags[o]
      BY <1>3, <1>5, ZenonT(40) DEF Fine, Sound, Unlinked
    <2>2. "UNCACHED" \in dflags[o] => \E u \in Users(o) : pc[u] \in Removing
      BY <1>3, <1>5, ZenonT(40) DEF Fine, Sound, Unlinked
    <2>3. pc'[t] \notin Removing
      BY <1>9, ZenonT(40) DEF Removing
    <2>4. \A u \in Users(o)' : u = t \/ (u \in Users(o) /\ pc'[u] = pc[u])
      BY <1>9, ZenonT(40)
    <2>5. \A u \in Users(o) : u \in Users(o)' /\ pc'[u] = pc[u]
      BY <1>9, ZenonT(40)
    <2>6. \A u, v \in Users(o)' : pc'[u] \in Removing /\ pc'[v] \in Removing => u = v
      BY <1>3, <2>3, <2>4, ZenonT(40) DEF Fine, Sound, Unlinked
    <2>7. \A u \in Users(o)' : /\ pc'[u] = "uncache" => "UNLINK" \in dflags[o]
                               /\ pc'[u] \in Removing => "UNCACHED" \in dflags[o] /\ "LRU" \in flags[o]
      BY <1>3, <1>9, <2>3, <2>4, ZenonT(40) DEF Fine, Sound, Unlinked
    <2>8. t \in Users(o)' /\ pc'[t] \in {"use", "uncache"}
      BY <1>9, ZenonT(40)
    <2>9. "UNCACHED" \in dflags[o] => \E u \in Users(o)' : pc'[u] \in Removing
      BY <2>2, <2>5, ZenonT(40)
    <2>10. dflags'[o] = dflags[o] /\ flags'[o] = flags[o]
      BY <1>4, ZenonT(40)
    <2>11. QED
      BY <1>5, <2>1, <2>6, <2>7, <2>8, <2>9, <2>10, ZenonT(40) DEF Unlinked
  <1>18. Named(o)'
    BY <1>3, <1>4, <1>9, ZenonT(40) DEF Fine, Sound, Named
  <1>19. Waited(o)'
    BY <1>3, <1>4, <1>9, ZenonT(40) DEF Fine, Waited
  <1>20. Listed(o)'
    <2>1. ~OnLru(o)' /\ o \in active' /\ Users(o)' # {} /\ Cached(o)' /\ "DESTROY" \notin flags'[o]
      BY <1>3, <1>4, <1>5, <1>7, <1>9, <1>10, ZenonT(40)
    <2>2. QED
      BY <2>1, ZenonT(40) DEF Listed
  <1>21. Count(o)'
    <2>1. refs'[o] = Cardinality(Held(o)') + 2
      BY <1>5, <1>9, <1>10
    <2>2. "DESTROY" \notin flags'[o]
      BY <1>3, <1>4, ZenonT(40)
    <2>3. QED
      BY <1>5, <1>10, <2>1, <2>2, ZenonT(40) DEF Count
  <1>22. ObjectTypes'
    <2>1. refs[o] + 1 \in Nat
      BY <1>10
    <2>2. refs' \in [Obj -> Nat]
      BY <1>1, <1>4, <2>1, ZenonT(40) DEF ObjectTypes
    <2>3. active' \subseteq Obj
      BY <1>1, <1>7, ZenonT(40) DEF ObjectTypes
    <2>4. QED
      BY <1>1, <1>4, <1>7, <2>2, <2>3, ZenonT(40) DEF ObjectTypes
  <1>23. LinksCount'
    BY <1>1, <1>4, <1>9, <1>11, LinksSame, ZenonT(40)
  <1>24. Fine(o)'
    BY <1>12, <1>14, <1>15, <1>16, <1>17, <1>18, <1>19, <1>20, <1>21, ZenonT(40) DEF Fine, Sound
  <1>25. QED
    BY <1>7, <1>8, <1>11, <1>22, <1>23, <1>24, Joined, ZenonT(40)

\* kobj_lru_get finds an object that its first user still initializes.
LEMMA FoundEarlyInv ==
    ASSUME Whole, NEW t \in Thread, FoundEarly(t)
    PROVE  LruInv'
  <1>1. LocalTypes /\ ObjectTypes /\ Local(t) /\ panic = "no" /\ pc[t] = "get" /\ NoTwice
    BY ZenonT(40) DEF Whole, TypeOK, LocalTypes, ObjectTypes, FoundEarly, Goto
  <1>2. want[t] \in Id
    BY <1>1, ZenonT(40) DEF Local, LocalTypes
  <1>3. PICK o \in Obj : /\ hash[want[t]] = o /\ Fine(o)
                         /\ "DESTROY" \notin flags[o] /\ "INIT" \notin flags[o]
    BY <1>1, <1>2, ZenonT(40) DEF FoundEarly, ObjectTypes, Whole
  <1>4. /\ pc' = [pc EXCEPT ![t] = "wait"] /\ refs' = [refs EXCEPT ![o] = refs[o] + 1]
        /\ wait' = [wait EXCEPT ![o] = wait[o] \cup {t}]
        /\ ref' = [ref EXCEPT ![t] = refs[o]] /\ at' = [at EXCEPT ![t] = o]
        /\ UNCHANGED <<hash, active, lru, flags, id, dflags, present, links>>
        /\ UNCHANGED <<want, tried, cached, drops, panic>>
    BY <1>3, ZenonT(40) DEF FoundEarly, Goto, direntVars
  <1>5. PICK f \in Users(o) : pc[f] \in Starting /\ want[f] = want[t]
    BY <1>2, <1>3, ZenonT(40) DEF Fine, Sound, Hashed
  <1>6. f \in Thread /\ at[f] = o
    BY <1>5, ZenonT(40) DEF Users
  <1>7. /\ dflags[o] = {} /\ "LRU" \in flags[o]
        /\ \A u \in Users(o) \ {f} : pc[u] = "wait" /\ u \in wait[o] /\ want[u] = want[f]
    BY <1>5, <1>6, FirstUser
  <1>8. /\ Cached(o)
        /\ refs[o] = Cardinality(Held(o)) + 2 /\ Cardinality(Held(o)) \in Nat
        /\ Cardinality(Held(o)) = 0 <=> Users(o) = {}
        /\ OnLru(o) <=> Users(o) = {}
        /\ o \in active <=> Users(o) # {}
    BY <1>2, <1>3, HashedObject
  <1>9. refs[o] > 2 /\ refs[o] \in Nat
    <2>1. Cardinality(Held(o)) # 0
      BY <1>5, <1>8, ZenonT(40)
    <2>2. QED
      BY <1>8, <2>1
  <1>10. /\ refs'[o] = refs[o] + 1 /\ ref'[t] = refs[o] /\ (Cached(o)' <=> Cached(o))
         /\ wait'[o] = wait[o] \cup {t}
    BY <1>1, <1>4, ZenonT(40) DEF ObjectTypes, LocalTypes, Cached
  <1>11. Joins(t, o, "wait")
    BY <1>1, <1>4, <1>9, <1>10, ZenonT(40) DEF Joins
  <1>12. /\ ThreadsApart(t) /\ at[t] = NULL /\ at'[t] = o /\ pc'[t] = "wait"
         /\ want'[t] = want[t]
         /\ Users(o)' = Users(o) \cup {t} /\ t \notin Users(o)
         /\ \A u \in Users(o) : want'[u] = want[u] /\ pc'[u] = pc[u]
         /\ Cardinality(Held(o)') = Cardinality(Held(o)) + 1
    BY <1>11, Joining, ZenonT(40)
  <1>13. NoTwice' /\ \A p : OnLru(p)' <=> OnLru(p)
    BY <1>1, <1>4, ZenonT(40) DEF NoTwice, OnLru
  <1>14. ObjectsApart(t, o)
    BY <1>1, <1>4, <1>12, <1>13, ZenonT(40) DEF ObjectsApart, ObjectTypes
  <1>15. /\ f \in Users(o)' /\ pc'[f] \in Starting /\ want'[f] = want[t]
         /\ \A u \in Users(o)' : u # f => pc'[u] = "wait" /\ u \in wait'[o] /\ want'[u] = want[t]
    <2>1. f \in Users(o)' /\ pc'[f] \in Starting /\ want'[f] = want[t]
      BY <1>5, <1>12, ZenonT(40)
    <2>2. ASSUME NEW u \in Users(o)', u # f
          PROVE  pc'[u] = "wait" /\ u \in wait'[o] /\ want'[u] = want[t]
      <3>1. CASE u = t
        BY <1>10, <1>12, <3>1, ZenonT(40)
      <3>2. CASE u # t
        BY <1>5, <1>7, <1>10, <1>12, <2>2, <3>2, ZenonT(40)
      <3>3. QED
        BY <3>1, <3>2, ZenonT(40)
    <2>3. QED
      BY <2>1, <2>2, ZenonT(40)
  <1>16. \A u \in Users(o)' : pc'[u] \in Starting \cup {"wait"} /\ (pc'[u] \in Starting => u = f)
    BY <1>15, ZenonT(40) DEF Starting
  <1>17. Hashed(o)'
    BY <1>3, <1>4, <1>12, ZenonT(40) DEF Fine, Sound, Hashed
  <1>18. Started(o)'
    <2>1. "INIT" \notin flags'[o] /\ dflags'[o] = {} /\ hash'[want'[f]] = o
      BY <1>3, <1>4, <1>7, <1>15, ZenonT(40)
    <2>2. QED
      BY <1>15, <1>16, <2>1, ZenonT(40) DEF Started
  <1>19. Used(o)'
    <2>1. \A u \in Users(o)' : /\ pc'[u] \notin Using
                               /\ pc'[u] \notin {"error", "putref_retry", "putref"}
      BY <1>16, ZenonT(40) DEF Starting, Using
    <2>2. "INIT" \notin flags'[o]
      BY <1>3, <1>4, ZenonT(40)
    <2>3. QED
      BY <1>15, <1>16, <2>1, <2>2, ZenonT(40) DEF Used
  <1>20. Reclaimed(o)'
    <2>1. \A u \in Users(o)' : pc'[u] \notin Reclaiming
      BY <1>16, ZenonT(40) DEF Starting, Reclaiming
    <2>2. QED
      BY <1>3, <1>4, <2>1, ZenonT(40) DEF Reclaimed
  <1>21. Unlinked(o)'
    <2>1. \A u \in Users(o)' : pc'[u] \notin Removing /\ pc'[u] # "uncache"
      BY <1>16, ZenonT(40) DEF Removing, Starting
    <2>2. dflags'[o] = {} /\ "LRU" \in flags'[o]
      BY <1>4, <1>7, ZenonT(40)
    <2>3. QED
      BY <2>1, <2>2, ZenonT(40) DEF Unlinked
  <1>22. Named(o)'
    BY <1>3, <1>4, <1>12, ZenonT(40) DEF Fine, Sound, Named
  <1>23. Waited(o)'
    BY <1>15, ZenonT(40) DEF Waited
  <1>24. Listed(o)'
    <2>1. ~OnLru(o)' /\ o \in active' /\ Users(o)' # {} /\ Cached(o)' /\ "DESTROY" \notin flags'[o]
      BY <1>3, <1>4, <1>5, <1>8, <1>10, <1>12, <1>13, ZenonT(40)
    <2>2. QED
      BY <2>1, ZenonT(40) DEF Listed
  <1>25. Count(o)'
    <2>1. refs'[o] = Cardinality(Held(o)') + 2
      BY <1>8, <1>10, <1>12
    <2>2. "DESTROY" \notin flags'[o]
      BY <1>3, <1>4, ZenonT(40)
    <2>3. QED
      BY <1>8, <1>10, <2>1, <2>2, ZenonT(40) DEF Count
  <1>26. ObjectTypes'
    <2>1. refs[o] + 1 \in Nat
      BY <1>9
    <2>2. refs' \in [Obj -> Nat]
      BY <1>1, <1>4, <2>1, ZenonT(40) DEF ObjectTypes
    <2>3. wait' \in [Obj -> SUBSET Thread]
      BY <1>1, <1>4, ZenonT(40) DEF ObjectTypes
    <2>4. QED
      BY <1>1, <1>4, <2>2, <2>3, ZenonT(40) DEF ObjectTypes
  <1>27. LinksCount'
    BY <1>1, <1>4, <1>12, <1>14, LinksSame, ZenonT(40)
  <1>28. Fine(o)'
    BY <1>17, <1>18, <1>19, <1>20, <1>21, <1>22, <1>23, <1>24, <1>25, ZenonT(40) DEF Fine, Sound
  <1>29. QED
    BY <1>11, <1>13, <1>14, <1>26, <1>27, <1>28, Joined, ZenonT(40)

\* An object without references: kobj_allocate may return it.
LEMMA FreeObject ==
    ASSUME Whole, NEW o \in Obj, refs[o] = 0
    PROVE  /\ Users(o) = {} /\ ~Cached(o) /\ ~OnLru(o) /\ o \notin active
           /\ Cardinality(Held(o)) = 0 /\ dflags[o] # {"UNLINK", "UNCACHED"}
  <1>1. Fine(o)
    BY ZenonT(40) DEF Whole
  <1>2. /\ Cardinality(Held(o)) \in Nat
        /\ (Cardinality(Held(o)) = 0) <=> (Users(o) = {})
        /\ Cached(o) /\ "DESTROY" \notin flags[o] => refs[o] = Cardinality(Held(o)) + 2
        /\ ~(Cached(o) /\ "DESTROY" \notin flags[o]) => refs[o] = Cardinality(Held(o))
    BY CountMeans, ZenonT(40)
  <1>3. ~(Cached(o) /\ "DESTROY" \notin flags[o]) /\ Cardinality(Held(o)) = 0
    BY <1>2
  <1>4. Users(o) = {}
    BY <1>2, <1>3, ZenonT(40)
  <1>5. "DESTROY" \notin flags[o]
    BY <1>1, <1>4, ZenonT(40) DEF Fine, Sound, Reclaimed
  <1>6. ~Cached(o)
    BY <1>3, <1>5, ZenonT(40)
  <1>7. ~OnLru(o) /\ o \notin active
    BY <1>1, <1>6, ZenonT(40) DEF Fine, Listed
  <1>8. "UNLINK" \notin dflags[o]
    BY <1>1, <1>4, ZenonT(40) DEF Fine, Sound, Unlinked
  <1>9. dflags[o] # {"UNLINK", "UNCACHED"}
    BY <1>8, ZenonT(40)
  <1>10. QED
    BY <1>3, <1>4, <1>6, <1>7, <1>9, ZenonT(40)

\* kobj_lru_get goes to kobj_lru_reclaim, or makes a new object.
LEMMA NotFoundInv ==
    ASSUME Whole, NEW t \in Thread, NotFound(t)
    PROVE  LruInv'
  <1>1. LocalTypes /\ ObjectTypes /\ Local(t) /\ panic = "no" /\ pc[t] = "get" /\ NoTwice /\ TypeOK
    BY ZenonT(40) DEF Whole, TypeOK, LocalTypes, ObjectTypes, NotFound
  <1>2. want[t] \in Id /\ hash[want[t]] = NULL /\ panic' = "no"
    BY <1>1, ZenonT(40) DEF Local, LocalTypes, NotFound
  <1>3. CASE Goto(t, "get", "reclaim") /\ UNCHANGED <<lruVars, direntVars, locals>>
    <2>1. /\ pc' = [pc EXCEPT ![t] = "reclaim"]
          /\ UNCHANGED <<hash, active, lru, refs, flags, id, wait, dflags, present, links>>
          /\ UNCHANGED <<at, want, ref, tried, cached, drops>>
      BY <1>3, ZenonT(40) DEF Goto, lruVars, direntVars, locals
    <2>2. ThreadsApart(t) /\ pc'[t] = "reclaim" /\ pc' \in [Thread -> PC]
      BY <1>1, <2>1, ZenonT(40) DEF ThreadsApart, LocalTypes, PC
    <2>3. ObjectsApart(t, NULL)
      BY <1>1, <2>1, ZenonT(40) DEF ObjectsApart, Local, OnLru
    <2>4. TypeOK'
      BY <1>1, <1>2, <2>1, <2>2, ZenonT(40) DEF TypeOK
    <2>5. Local(t)'
      BY <1>1, <2>1, <2>2, ZenonT(40) DEF Local
    <2>6. LinksCount'
      BY <2>1, <2>2, <2>3, NoObject, LinksSame, ZenonT(40)
    <2>7. NoTwice'
      BY <1>1, <2>1, ZenonT(40) DEF NoTwice
    <2>8. QED
      BY <1>2, <2>2, <2>3, <2>4, <2>5, <2>6, <2>7, NoObject, Combine, ZenonT(40)
  <1>4. ASSUME NEW o \in Obj,
               /\ Goto(t, "get", "init") /\ refs[o] = 0
               /\ refs' = [refs EXCEPT ![o] = 3] /\ flags' = [flags EXCEPT ![o] = {"LRU"}]
               /\ dflags' = [dflags EXCEPT ![o] = {}] /\ wait' = [wait EXCEPT ![o] = {}]
               /\ active' = active \cup {o} /\ hash' = [hash EXCEPT ![want[t]] = o]
               /\ at' = [at EXCEPT ![t] = o]
               /\ UNCHANGED <<lru, id, present, links, want, ref, tried, cached, drops>>
        PROVE  LruInv'
    <2>1. /\ Users(o) = {} /\ ~Cached(o) /\ ~OnLru(o) /\ o \notin active
          /\ Cardinality(Held(o)) = 0 /\ dflags[o] # {"UNLINK", "UNCACHED"}
      BY <1>4, FreeObject
    <2>2. Joins(t, o, "init")
      BY <1>1, <1>2, <1>4, ZenonT(40) DEF Joins, Goto
    <2>3. /\ ThreadsApart(t) /\ at[t] = NULL /\ at'[t] = o /\ pc'[t] = "init"
          /\ want'[t] = want[t]
          /\ Users(o)' = Users(o) \cup {t}
          /\ Cardinality(Held(o)') = Cardinality(Held(o)) + 1
      BY <2>2, Joining, ZenonT(40)
    <2>4. Users(o)' = {t}
      BY <2>1, <2>3, ZenonT(40)
    <2>5. /\ refs'[o] = 3 /\ flags'[o] = {"LRU"} /\ dflags'[o] = {} /\ hash'[want[t]] = o
          /\ \A i \in Id \ {want[t]} : hash'[i] = hash[i]
      BY <1>1, <1>2, <1>4, ZenonT(40) DEF ObjectTypes
    <2>6. \A i \in Id : hash[i] # o /\ (hash'[i] = o <=> i = want[t])
      BY <1>2, <2>1, <2>5, ZenonT(40) DEF Cached
    <2>7. NoTwice' /\ \A p : OnLru(p)' <=> OnLru(p)
      BY <1>1, <1>4, ZenonT(40) DEF NoTwice, OnLru
    <2>8. ObjectsApart(t, o)
      <3>1. \A i \in Id : hash'[i] = hash[i] \/ (hash[i] \in {NULL, o} /\ hash'[i] \in {NULL, o})
        BY <1>2, <2>5, ZenonT(40)
      <3>2. QED
        BY <1>1, <1>4, <2>3, <2>7, <3>1, ZenonT(40) DEF ObjectsApart, ObjectTypes
    <2>9. /\ "LRU" \in flags'[o] /\ "INIT" \notin flags'[o] /\ "ERR" \notin flags'[o]
          /\ "DESTROY" \notin flags'[o] /\ Cached(o)'
      <3>1. Cached(o)'
        BY <1>2, <2>5, ZenonT(40) DEF Cached
      <3>2. QED
        BY <2>5, <3>1, ZenonT(40)
    <2>10. Hashed(o)' /\ Started(o)'
      BY <2>3, <2>4, <2>5, <2>6, <2>9, ZenonT(40) DEF Hashed, Started, Starting
    <2>11. Used(o)'
      BY <2>3, <2>4, <2>9, ZenonT(40) DEF Used, Starting, Using
    <2>12. Reclaimed(o)'
      BY <2>3, <2>4, <2>9, ZenonT(40) DEF Reclaimed, Reclaiming
    <2>13. Unlinked(o)'
      BY <2>3, <2>4, <2>5, <2>9, ZenonT(40) DEF Unlinked, Removing
    <2>14. Named(o)' /\ Waited(o)'
      BY <2>3, <2>4, <2>9, ZenonT(40) DEF Named, Waited
    <2>15. Listed(o)'
      BY <1>4, <2>1, <2>4, <2>7, <2>9, ZenonT(40) DEF Listed
    <2>16. Count(o)'
      <3>1. refs'[o] = Cardinality(Held(o)') + 2
        BY <2>1, <2>3, <2>5
      <3>2. QED
        BY <2>9, <3>1, ZenonT(40) DEF Count
    <2>17. ObjectTypes'
      <3>1. 3 \in Nat
        OBVIOUS
      <3>2. refs' \in [Obj -> Nat] /\ wait' \in [Obj -> SUBSET Thread]
        BY <1>1, <1>4, <3>1, ZenonT(40) DEF ObjectTypes
      <3>3. flags' \in [Obj -> SUBSET {"LRU", "INIT", "ERR", "DESTROY"}]
        BY <1>1, <1>4, ZenonT(40) DEF ObjectTypes
      <3>4. dflags' \in [Obj -> SUBSET {"UNLINK", "UNCACHED"}]
        BY <1>1, <1>4, ZenonT(40) DEF ObjectTypes
      <3>5. hash' \in [Id -> Obj \cup {NULL}] /\ active' \subseteq Obj
        BY <1>1, <1>2, <1>4, ZenonT(40) DEF ObjectTypes
      <3>6. QED
        BY <1>1, <1>4, <3>2, <3>3, <3>4, <3>5, ZenonT(40) DEF ObjectTypes
    <2>18. LinksCount'
      <3>1. dflags'[o] # {"UNLINK", "UNCACHED"}
        BY <2>5, ZenonT(40)
      <3>2. QED
        BY <1>4, <2>1, <2>3, <2>8, <3>1, LinksSame, ZenonT(40)
    <2>19. Fine(o)'
      BY <2>10, <2>11, <2>12, <2>13, <2>14, <2>15, <2>16, ZenonT(40) DEF Fine, Sound
    <2>20. QED
      BY <2>2, <2>7, <2>8, <2>17, <2>18, <2>19, Joined, ZenonT(40)
  <1>5. QED
    BY <1>3, <1>4, ZenonT(40) DEF NotFound

\* kobj_lru_reclaim takes an object that nobody uses, and finds the two
\* references of the cache.
LEMMA ReclaimInv ==
    ASSUME Whole, NEW t \in Thread, Reclaim(t)
    PROVE  LruInv'
  <1>1. LocalTypes /\ ObjectTypes /\ Local(t) /\ panic = "no" /\ pc[t] = "reclaim" /\ NoTwice /\ TypeOK
    BY ZenonT(40) DEF Whole, TypeOK, LocalTypes, ObjectTypes, Reclaim, Goto
  <1>2. UNCHANGED <<hash, active, id, wait, dflags, present, links, want, ref, cached, drops>>
    BY ZenonT(40) DEF Reclaim, direntVars
  <1>3. CASE lru = <<>>
    <2>1. /\ pc' = [pc EXCEPT ![t] = "get"] /\ tried' = tried \cup {t}
          /\ UNCHANGED <<lru, flags, refs, at, panic>>
      BY <1>3, ZenonT(40) DEF Reclaim, Goto
    <2>2. ThreadsApart(t) /\ pc'[t] = "get" /\ pc' \in [Thread -> PC] /\ tried' \subseteq Thread
      BY <1>1, <1>2, <2>1, ZenonT(40) DEF ThreadsApart, LocalTypes, PC
    <2>3. ObjectsApart(t, NULL)
      BY <1>1, <1>2, <2>1, ZenonT(40) DEF ObjectsApart, Local, OnLru
    <2>4. TypeOK'
      BY <1>1, <1>2, <2>1, <2>2, ZenonT(40) DEF TypeOK
    <2>5. Local(t)'
      BY <1>1, <1>2, <2>1, <2>2, ZenonT(40) DEF Local
    <2>6. LinksCount'
      BY <1>2, <2>2, <2>3, NoObject, LinksSame, ZenonT(40)
    <2>7. NoTwice' /\ panic' = "no"
      BY <1>1, <2>1, ZenonT(40) DEF NoTwice
    <2>8. QED
      BY <2>2, <2>3, <2>4, <2>5, <2>6, <2>7, NoObject, Combine, ZenonT(40)
  <1>4. CASE lru # <<>>
    <2>1. PICK o :
          /\ o = lru[Len(lru)]
          /\ pc' = [pc EXCEPT ![t] = "release"] /\ lru' = SubSeq(lru, 1, Len(lru) - 1)
          /\ Check(refs[o] = 2) /\ flags' = [flags EXCEPT ![o] = flags[o] \cup {"DESTROY"}]
          /\ refs' = [refs EXCEPT ![o] = refs[o] - 1] /\ at' = [at EXCEPT ![t] = o]
          /\ UNCHANGED tried
      BY <1>4, ZenonT(40) DEF Reclaim, Goto
    <2>2. /\ lru' \in Seq(Obj) /\ NoTwice' /\ o \in Obj /\ OnLru(o)
          /\ \A p : OnLru(p)' <=> OnLru(p) /\ p # o
      <3>1. lru \in Seq(Obj)
        BY <1>1, ZenonT(40) DEF ObjectTypes
      <3>2. QED
        BY <1>1, <1>4, <2>1, <3>1, LruPop, ZenonT(40)
    <2>3. Fine(o)
      BY <2>2, ZenonT(40) DEF Whole
    <2>4. Cached(o) /\ Users(o) = {} /\ o \notin active
      BY <2>2, <2>3, ZenonT(40) DEF Fine, Listed
    <2>5. "DESTROY" \notin flags[o]
      BY <2>3, <2>4, ZenonT(40) DEF Fine, Sound, Reclaimed
    <2>6. PICK i \in Id : hash[i] = o
      BY <2>4, ZenonT(40) DEF Cached
    <2>7. /\ "LRU" \in flags[o] /\ "ERR" \notin flags[o] /\ "INIT" \in flags[o]
      BY <2>3, <2>4, <2>6, ZenonT(40) DEF Fine, Sound, Hashed
    <2>8. refs[o] = 2 /\ Cardinality(Held(o)) = 0
      <3>1. refs[o] = Cardinality(Held(o)) + 2 /\ Cardinality(Held(o)) = 0
        BY <2>2, <2>4, <2>5, CountMeans, ZenonT(40)
      <3>2. QED
        BY <3>1
    <2>9. panic' = "no"
      BY <1>1, <2>1, <2>8, ZenonT(40) DEF Check
    <2>10. Joins(t, o, "release")
      BY <1>1, <1>2, <2>1, <2>9, ZenonT(40) DEF Joins
    <2>11. /\ ThreadsApart(t) /\ at[t] = NULL /\ at'[t] = o /\ pc'[t] = "release"
           /\ Users(o)' = Users(o) \cup {t}
           /\ Cardinality(Held(o)') = Cardinality(Held(o)) + 1
      BY <2>2, <2>10, Joining, ZenonT(40)
    <2>12. Users(o)' = {t}
      BY <2>4, <2>11, ZenonT(40)
    <2>13. /\ refs'[o] = refs[o] - 1 /\ flags'[o] = flags[o] \cup {"DESTROY"}
           /\ (Cached(o)' <=> Cached(o))
      BY <1>1, <1>2, <2>1, <2>2, ZenonT(40) DEF ObjectTypes, Cached
    <2>14. /\ "LRU" \in flags'[o] /\ "INIT" \in flags'[o] /\ "ERR" \notin flags'[o]
           /\ "DESTROY" \in flags'[o]
      BY <2>7, <2>13, ZenonT(40)
    <2>15. ObjectsApart(t, o)
      BY <1>1, <1>2, <2>1, <2>2, <2>11, ZenonT(40) DEF ObjectsApart, ObjectTypes
    <2>16. Hashed(o)'
      BY <1>2, <2>3, <2>7, <2>14, ZenonT(40) DEF Fine, Sound, Hashed
    <2>17. Started(o)'
      BY <2>11, <2>12, ZenonT(40) DEF Started, Starting
    <2>18. Used(o)'
      BY <2>11, <2>12, <2>14, ZenonT(40) DEF Used, Using, Reclaiming
    <2>19. Reclaimed(o)'
      BY <2>4, <2>11, <2>12, <2>13, <2>14, ZenonT(40) DEF Reclaimed
    <2>20. Unlinked(o)'
      <3>1. "UNLINK" \notin dflags'[o] /\ "UNCACHED" \notin dflags'[o]
        BY <1>2, <2>3, <2>4, ZenonT(40) DEF Fine, Sound, Unlinked
      <3>2. dflags'[o] # {"UNLINK"}
        BY <3>1, ZenonT(40)
      <3>3. QED
        BY <2>11, <2>12, <2>14, <3>1, <3>2, ZenonT(40) DEF Unlinked, Removing
    <2>21. Named(o)'
      <3>1. \A j \in Id : hash[j] = o => j \in present
        BY <2>3, <2>4, <2>7, ZenonT(40) DEF Fine, Sound, Named
      <3>2. QED
        BY <1>2, <2>11, <2>12, <3>1, ZenonT(40) DEF Named
    <2>22. Waited(o)'
      BY <2>11, <2>12, ZenonT(40) DEF Waited
    <2>23. Listed(o)'
      BY <1>2, <2>2, <2>4, <2>12, <2>14, ZenonT(40) DEF Listed
    <2>24. Count(o)' /\ refs'[o] \in Nat
      <3>1. refs'[o] = Cardinality(Held(o)') /\ refs'[o] \in Nat
        BY <2>8, <2>11, <2>13
      <3>2. QED
        BY <2>14, <3>1 DEF Count
    <2>25. ObjectTypes'
      <3>1. flags' \in [Obj -> SUBSET {"LRU", "INIT", "ERR", "DESTROY"}]
        BY <1>1, <2>1, ZenonT(40) DEF ObjectTypes
      <3>2. refs' \in [Obj -> Nat]
        BY <1>1, <2>1, <2>13, <2>24, ZenonT(40) DEF ObjectTypes
      <3>3. QED
        BY <1>1, <1>2, <2>2, <3>1, <3>2, ZenonT(40) DEF ObjectTypes
    <2>26. LinksCount'
      BY <1>1, <1>2, <2>11, <2>15, LinksSame, ZenonT(40)
    <2>27. Fine(o)'
      BY <2>16, <2>17, <2>18, <2>19, <2>20, <2>21, <2>22, <2>23, <2>24, ZenonT(40) DEF Fine, Sound
    <2>28. QED
      BY <2>2, <2>10, <2>15, <2>25, <2>26, <2>27, Joined, ZenonT(40)
  <1>5. QED
    BY <1>3, <1>4, ZenonT(40)

-----------------------------------------------------------------------------
(***************************************************************************)
(* kobj_lru_put                                                            *)
(***************************************************************************)

\* The user that returns an object.
LEMMA PutUser ==
    ASSUME Whole, NEW t \in Thread, NEW o \in Obj, at[t] = o, pc[t] = "lru_put"
    PROVE  /\ t \in Users(o) /\ "INIT" \in flags[o] /\ "DESTROY" \notin flags[o]
           /\ \A u \in Users(o) : pc[u] \notin Starting \cup Reclaiming
           /\ "LRU" \in flags[o] => Cached(o)
           /\ Cached(o) => "LRU" \in flags[o]
           /\ refs[o] \in Nat \ {0} /\ Share(t) = 1
           /\ Cached(o) => refs[o] = Cardinality(Held(o)) + 2
           /\ ~Cached(o) => refs[o] = Cardinality(Held(o))
           /\ Cardinality(Held(o)) \in Nat
  <1>1. Fine(o) /\ t \in Users(o) /\ Local(t) /\ LocalTypes
    BY ZenonT(40) DEF Whole, Users, TypeOK, LocalTypes
  <1>2. "INIT" \in flags[o] /\ "ERR" \notin flags[o]
    BY <1>1, ZenonT(40) DEF Fine, Sound, Used, Starting, Using
  <1>3. \A u \in Users(o) : pc[u] \notin Starting
    BY <1>1, <1>2, ZenonT(40) DEF Fine, Sound, Started
  <1>4. pc[t] \notin Reclaiming
    BY ZenonT(40) DEF Reclaiming
  <1>5. \A u \in Users(o) : pc[u] \notin Reclaiming
    BY <1>1, <1>4, ZenonT(40) DEF Fine, Sound, Reclaimed
  <1>6. "DESTROY" \notin flags[o]
    BY <1>1, <1>5, ZenonT(40) DEF Fine, Sound, Reclaimed, Reclaiming
  <1>7. "LRU" \in flags[o] => Cached(o)
    <2>1. want[t] \in Id
      BY <1>1, ZenonT(40) DEF Local, LocalTypes
    <2>2. "LRU" \in flags[o] => hash[want[t]] = o
      BY <1>1, <1>2, <1>4, ZenonT(40) DEF Fine, Sound, Used
    <2>3. QED
      BY <2>1, <2>2, ZenonT(40) DEF Cached
  <1>8. Cached(o) => "LRU" \in flags[o]
    BY <1>1, ZenonT(40) DEF Fine, Sound, Hashed, Cached
  <1>9. /\ Cardinality(Held(o)) \in Nat
        /\ (Cardinality(Held(o)) = 0) <=> (Users(o) = {})
        /\ Cached(o) => refs[o] = Cardinality(Held(o)) + 2
        /\ ~Cached(o) => refs[o] = Cardinality(Held(o))
    BY <1>6, CountMeans, ZenonT(40)
  <1>10. Cardinality(Held(o)) # 0
    BY <1>1, <1>9, ZenonT(40)
  <1>11. refs[o] \in Nat \ {0}
    BY <1>9, <1>10
  <1>12. Share(t) = 1
    BY ZenonT(40) DEF Share
  <1>13. QED
    BY <1>1, <1>2, <1>3, <1>5, <1>6, <1>7, <1>8, <1>9, <1>11, <1>12, ZenonT(40)

\* The values of the locals ref and drops of such a thread.
LEMMA Zero == 0 \in Nat /\ 0 \in 0..3
  OBVIOUS

\* The locals of a thread that returns.
LEMMA Returned ==
    ASSUME LocalTypes, NEW t \in Thread, pc' = [pc EXCEPT ![t] = "idle"], Return(t),
           panic' \in {"no", "double free", "assert"}
    PROVE  LocalTypes' /\ ThreadsApart(t) /\ at'[t] = NULL /\ pc'[t] = "idle" /\ Local(t)'
  <1>1. 0 \in Nat /\ 0 \in 0..3
    BY Zero, ZenonT(40)
  <1>2. /\ at' = [at EXCEPT ![t] = NULL] /\ want' = [want EXCEPT ![t] = NULL]
        /\ ref' = [ref EXCEPT ![t] = 0] /\ tried' = tried \ {t} /\ cached' = cached \ {t}
        /\ drops' = [drops EXCEPT ![t] = 0]
    BY ZenonT(40) DEF Return
  <1>3. pc' \in [Thread -> PC] /\ at' \in [Thread -> Obj \cup {NULL}]
    BY <1>2, ZenonT(40) DEF LocalTypes, PC
  <1>4. want' \in [Thread -> Id \cup {NULL}]
    BY <1>2, ZenonT(40) DEF LocalTypes
  <1>5. ref' \in [Thread -> Nat] /\ drops' \in [Thread -> 0..3]
    BY <1>1, <1>2, ZenonT(40) DEF LocalTypes
  <1>6. tried' \subseteq Thread /\ cached' \subseteq Thread
    BY <1>2, ZenonT(40) DEF LocalTypes
  <1>7. LocalTypes'
    BY <1>3, <1>4, <1>5, <1>6, ZenonT(40) DEF LocalTypes
  <1>8. ThreadsApart(t)
    BY <1>2, ZenonT(40) DEF ThreadsApart, LocalTypes
  <1>9. at'[t] = NULL /\ pc'[t] = "idle" /\ want'[t] = NULL
    BY <1>2, ZenonT(40) DEF LocalTypes
  <1>10. QED
    BY <1>7, <1>8, <1>9, ZenonT(40) DEF Local

\* After a panic little is left to hold.
LEMMA PanicInv ==
    ASSUME Whole, NEW t \in Thread, ThreadsApart(t), TypeOK', Local(t)', pc'[t] = "idle",
           pc[t] = "lru_put", wait' = wait, panic' = "double free"
    PROVE  LruInv'
  <1>1. ASSUME NEW u \in Thread PROVE Local(u)'
    <2>1. CASE u = t
      BY <2>1, ZenonT(40)
    <2>2. CASE u # t
      <3>1. Local(u)
        BY ZenonT(40) DEF Whole
      <3>2. QED
        BY <2>2, <3>1, ZenonT(40) DEF Local, ThreadsApart
    <2>3. QED
      BY <2>1, <2>2, ZenonT(40)
  <1>2. WaiterRemembered'
    <2> SUFFICES ASSUME NEW u \in Thread, pc'[u] = "wait", u \in wait'[at'[u]]
                 PROVE  \E v \in Thread :
                          /\ pc'[v] \in {"init", "mark_ready", "mark_error", "ready", "error"}
                          /\ at'[v] = at'[u]
      BY ZenonT(40) DEF WaiterRemembered
    <2>1. u # t /\ pc[u] = "wait" /\ at'[u] = at[u] /\ u \in wait[at[u]]
      BY ZenonT(40) DEF ThreadsApart
    <2>2. PICK o \in Obj : at[u] = o /\ Waited(o) /\ u \in Users(o)
      BY <2>1, ZenonT(40) DEF Whole, Local, TypeOK, Fine, Users
    <2>3. PICK v \in Users(o) : pc[v] \in Starting \cup {"ready", "error"}
      BY <2>1, <2>2, ZenonT(40) DEF Waited
    <2>4. v \in Thread /\ at[v] = o /\ v # t
      BY <2>3, ZenonT(40) DEF Users, Starting
    <2>5. pc'[v] = pc[v] /\ at'[v] = at[v]
      BY <2>4, ZenonT(40) DEF ThreadsApart
    <2>6. pc[v] \in {"init", "mark_ready", "mark_error", "ready", "error"}
      BY <2>3, ZenonT(40) DEF Starting
    <2>7. at'[v] = at'[u]
      BY <2>1, <2>2, <2>4, <2>5, ZenonT(40)
    <2>8. QED
      BY <2>4, <2>5, <2>6, <2>7, ZenonT(40)
  <1>3. panic' # "no" /\ panic' # "assert"
    BY ZenonT(40)
  <1>4. QED
    BY <1>1, <1>2, <1>3, ZenonT(40) DEF LruInv, RefsAddUp, ListsFit, LinksCount

\* kobj_lru_put keeps the counts and the lists, unless it takes a race with
\* kobj_lru_remove for a double free.
LEMMA PutInv ==
    ASSUME Whole, NEW t \in Thread, kobj_lru_put(t)
    PROVE  LruInv'
  <1>1. LocalTypes /\ ObjectTypes /\ Local(t) /\ panic = "no" /\ pc[t] = "lru_put" /\ NoTwice
    BY ZenonT(40) DEF Whole, TypeOK, LocalTypes, ObjectTypes, kobj_lru_put, Goto
  <1>2. PICK o \in Obj : at[t] = o /\ Fine(o)
    BY <1>1, ZenonT(40) DEF Local, LocalTypes, Whole
  <1>3. /\ t \in Users(o) /\ "INIT" \in flags[o] /\ "DESTROY" \notin flags[o]
        /\ \A u \in Users(o) : pc[u] \notin Starting \cup Reclaiming
        /\ "LRU" \in flags[o] => Cached(o)
        /\ Cached(o) => "LRU" \in flags[o]
        /\ refs[o] \in Nat \ {0} /\ Share(t) = 1
        /\ Cached(o) => refs[o] = Cardinality(Held(o)) + 2
        /\ ~Cached(o) => refs[o] = Cardinality(Held(o))
        /\ Cardinality(Held(o)) \in Nat
    BY <1>1, <1>2, PutUser
  <1>4. /\ pc' = [pc EXCEPT ![t] = "idle"] /\ Return(t)
        /\ refs' = [refs EXCEPT ![o] = refs[o] - 1]
        /\ IF refs[o] - 1 < 2 THEN panic' = "double free" ELSE Check("DESTROY" \notin flags[o])
        /\ IF refs[o] - 1 = 2 /\ "LRU" \in flags[o]
           THEN lru' = <<o>> \o lru /\ active' = active \ {o}
           ELSE UNCHANGED <<lru, active>>
        /\ UNCHANGED <<hash, flags, id, wait, dflags, present, links>>
    BY <1>2, ZenonT(40) DEF kobj_lru_put, Goto, direntVars
  <1>5. /\ refs[o] - 1 < 2 => panic' = "double free" /\ UNCHANGED <<lru, active>>
        /\ ~(refs[o] - 1 < 2) => panic' = "no"
    <2>1. refs[o] - 1 < 2 => ~(refs[o] - 1 = 2)
      BY <1>3
    <2>2. QED
      BY <1>1, <1>3, <1>4, <2>1, ZenonT(40) DEF Check
  <1>6. LocalTypes' /\ ThreadsApart(t) /\ at'[t] = NULL /\ pc'[t] = "idle" /\ Local(t)'
    <2>1. panic' \in {"no", "double free", "assert"}
      BY <1>5, ZenonT(40)
    <2>2. QED
      BY <1>1, <1>4, <2>1, Returned, ZenonT(40)
  <1>7. refs' \in [Obj -> Nat] /\ refs'[o] = refs[o] - 1
    <2>1. refs[o] - 1 \in Nat
      BY <1>3
    <2>2. QED
      BY <1>1, <1>4, <2>1, ZenonT(40) DEF ObjectTypes
  <1>8. CASE refs[o] - 1 < 2
    <2>1. ObjectTypes'
      BY <1>1, <1>4, <1>5, <1>7, <1>8, ZenonT(40) DEF ObjectTypes
    <2>2. TypeOK'
      BY <1>6, <2>1, ZenonT(40) DEF TypeOK, LocalTypes, ObjectTypes
    <2>3. panic' = "double free" /\ wait' = wait
      BY <1>4, <1>5, <1>8, ZenonT(40)
    <2>4. QED
      BY <1>1, <1>6, <2>2, <2>3, PanicInv, ZenonT(40)
  <1>9. CASE ~(refs[o] - 1 < 2)
    <2>1. o # NULL /\ Users(o)' = Users(o) \ {t} /\ panic' = "no"
      <3>1. o # NULL /\ panic' = "no"
        BY <1>5, <1>9, NoObject, ZenonT(40)
      <3>2. QED
        BY <1>6, <3>1, ZenonT(40) DEF Users, ThreadsApart
    <2>2. /\ \A u \in Users(o)' : u \in Users(o) /\ u # t /\ pc'[u] = pc[u] /\ want'[u] = want[u]
          /\ \A u \in Users(o) : u # t => u \in Users(o)' /\ pc'[u] = pc[u]
      BY <1>6, <2>1, ZenonT(40) DEF Users, ThreadsApart
    <2>3. \/ /\ Cached(o) /\ Users(o) = {t} /\ Users(o)' = {}
             /\ lru' = <<o>> \o lru /\ active' = active \ {o}
          \/ Users(o)' # {} /\ UNCHANGED <<lru, active>>
      <3>1. CASE refs[o] - 1 = 2 /\ "LRU" \in flags[o]
        <4>1. Cached(o) /\ Cardinality(Held(o)) = 1
          BY <1>3, <3>1
        <4>2. Users(o) = {t}
          BY <1>2, <4>1, LastRef, ZenonT(40)
        <4>3. Users(o)' = {}
          BY <2>1, <4>2, ZenonT(40)
        <4>4. QED
          BY <1>4, <3>1, <4>1, <4>2, <4>3, ZenonT(40)
      <3>2. CASE ~(refs[o] - 1 = 2 /\ "LRU" \in flags[o])
        <4>1. Cardinality(Held(o)) # 1
          BY <1>3, <1>9, <3>2
        <4>2. Users(o) # {t}
          BY <1>3, <4>1, OnlyUser, ZenonT(40)
        <4>3. Users(o)' # {}
          BY <1>3, <2>1, <4>2, ZenonT(40)
        <4>4. QED
          BY <1>4, <3>2, <4>3, ZenonT(40)
      <3>3. QED
        BY <3>1, <3>2, ZenonT(40)
    <2>4. ~OnLru(o) /\ (o \in active <=> Cached(o)) /\ (Cached(o)' <=> Cached(o))
      <3>1. Users(o) # {}
        BY <1>3, ZenonT(40)
      <3>2. ~OnLru(o) /\ (o \in active <=> Cached(o))
        BY <1>2, <1>3, <3>1, ZenonT(40) DEF Fine, Listed
      <3>3. Cached(o)' <=> Cached(o)
        BY <1>4, ZenonT(40) DEF Cached
      <3>4. QED
        BY <3>2, <3>3, ZenonT(40)
    <2>5. /\ lru' \in Seq(Obj) /\ NoTwice' /\ \A p : p # o => (OnLru(p)' <=> OnLru(p))
          /\ active' \subseteq Obj /\ \A p : p # o => (p \in active' <=> p \in active)
          /\ Listed(o)'
      <3>1. CASE /\ Cached(o) /\ Users(o)' = {} /\ lru' = <<o>> \o lru /\ active' = active \ {o}
        <4>1. lru \in Seq(Obj) /\ active \subseteq Obj
          BY <1>1, ZenonT(40) DEF ObjectTypes
        <4>2. lru' \in Seq(Obj) /\ NoTwice' /\ \A p : OnLru(p)' <=> p = o \/ OnLru(p)
          BY <1>1, <2>4, <3>1, <4>1, LruPush, ZenonT(40)
        <4>3. Listed(o)'
          BY <2>4, <3>1, <4>2, ZenonT(40) DEF Listed
        <4>4. QED
          BY <3>1, <4>1, <4>2, <4>3, ZenonT(40)
      <3>2. CASE Users(o)' # {} /\ UNCHANGED <<lru, active>>
        <4>1. /\ lru' \in Seq(Obj) /\ NoTwice' /\ (\A p : OnLru(p)' <=> OnLru(p))
              /\ active' \subseteq Obj
          BY <1>1, <3>2, ZenonT(40) DEF NoTwice, OnLru, ObjectTypes
        <4>2. Listed(o)'
          BY <1>3, <1>4, <2>4, <3>2, <4>1, ZenonT(40) DEF Listed
        <4>3. QED
          BY <3>2, <4>1, <4>2, ZenonT(40)
      <3>3. QED
        BY <2>3, <3>1, <3>2, ZenonT(40)
    <2>6. ObjectsApart(t, o)
      BY <1>1, <1>2, <1>4, <1>6, <2>5, ZenonT(40) DEF ObjectsApart, ObjectTypes
    <2>7. Hashed(o)' /\ Started(o)' /\ Reclaimed(o)'
      <3>1. Hashed(o)'
        BY <1>2, <1>3, <1>4, ZenonT(40) DEF Fine, Sound, Hashed
      <3>2. QED
        BY <1>3, <1>4, <2>2, <3>1, ZenonT(40) DEF Started, Reclaimed
    <2>8. Used(o)'
      <3>1. Used(o)
        BY <1>2, ZenonT(40) DEF Fine, Sound
      <3>2. flags' = flags /\ hash' = hash /\ id' = id /\ dflags' = dflags /\ "INIT" \in flags[o]
        BY <1>3, <1>4, ZenonT(40)
      <3>3. \A u \in Users(o)' : u \in Users(o) /\ pc'[u] = pc[u] /\ want'[u] = want[u]
        BY <2>2, ZenonT(40)
      <3>4. ASSUME NEW u \in Users(o)'
            PROVE  /\ pc'[u] \notin Reclaiming =>
                         /\ id'[o] = want'[u]
                         /\ "LRU" \in flags'[o] /\ "ERR" \notin flags'[o] => hash'[want'[u]] = o
                   /\ pc'[u] \in Using => "ERR" \notin flags'[o]
                   /\ pc'[u] = "error" => "ERR" \in flags'[o]
                   /\ pc'[u] = "putref_retry" => "LRU" \notin flags'[o]
                   /\ pc'[u] = "putref" => "ERR" \in flags'[o] \/ "UNCACHED" \in dflags'[o]
        <4>1. u \in Users(o) /\ pc'[u] = pc[u] /\ want'[u] = want[u]
          BY <3>3, ZenonT(40)
        <4>2. QED
          BY <3>1, <3>2, <4>1, ZenonT(40) DEF Used
      <3>5. QED
        BY <3>2, <3>4, ZenonT(40) DEF Used
    <2>9. Unlinked(o) /\ dflags'[o] = dflags[o] /\ flags'[o] = flags[o]
      BY <1>2, <1>4, ZenonT(40) DEF Fine, Sound
    <2>10. pc[t] \notin Removing /\ pc[t] \notin {"use", "uncache"}
      BY <1>1, ZenonT(40) DEF Removing
    <2>11. Unlinked(o)'
      <3>1. CASE Cached(o) /\ Users(o) = {t} /\ Users(o)' = {}
        <4>1. "UNCACHED" \notin dflags[o]
          BY <2>9, <2>10, <3>1, ZenonT(40) DEF Unlinked
        <4>2. dflags[o] # {"UNLINK"}
          BY <2>9, <2>10, <3>1, ZenonT(40) DEF Unlinked
        <4>3. dflags[o] \in SUBSET {"UNLINK", "UNCACHED"}
          BY <1>1, ZenonT(40) DEF ObjectTypes
        <4>4. "UNLINK" \notin dflags[o]
          BY <4>1, <4>2, <4>3, ZenonT(40)
        <4>5. QED
          BY <2>9, <3>1, <4>1, <4>2, <4>4, ZenonT(40) DEF Unlinked
      <3>2. CASE Users(o)' # {}
        <4>1. Users(o) # {}
          BY <1>3, ZenonT(40)
        <4>2. /\ "UNCACHED" \in dflags'[o] => "UNLINK" \in dflags'[o]
              /\ "LRU" \notin flags'[o] => "UNCACHED" \in dflags'[o]
          BY <2>9, <4>1, ZenonT(40) DEF Unlinked
        <4>3. dflags'[o] = {"UNLINK"} => \E u \in Users(o)' : pc'[u] \in {"use", "uncache"}
          BY <2>2, <2>9, <2>10, ZenonT(40) DEF Unlinked
        <4>4. "UNCACHED" \in dflags'[o] /\ Cached(o)' => \E u \in Users(o)' : pc'[u] \in Removing
          BY <2>2, <2>4, <2>9, <2>10, ZenonT(40) DEF Unlinked
        <4>5. \A u \in Users(o)' :
                /\ pc'[u] = "uncache" => "UNLINK" \in dflags'[o]
                /\ pc'[u] \in Removing => "UNCACHED" \in dflags'[o] /\ "LRU" \in flags'[o]
          BY <2>2, <2>9, ZenonT(40) DEF Unlinked
        <4>6. \A u, v \in Users(o)' : pc'[u] \in Removing /\ pc'[v] \in Removing => u = v
          BY <2>2, <2>9, ZenonT(40) DEF Unlinked
        <4>7. QED
          BY <3>2, <4>2, <4>3, <4>4, <4>5, <4>6, ZenonT(40) DEF Unlinked
      <3>3. QED
        BY <2>3, <3>1, <3>2, ZenonT(40)
    <2>12. Named(o)'
      BY <1>1, <1>2, <1>4, <2>2, ZenonT(40) DEF Fine, Sound, Named
    <2>13. Waited(o)'
      <3>1. pc[t] \notin Starting \cup {"ready", "error"}
        BY <1>1, ZenonT(40) DEF Starting
      <3>2. QED
        BY <1>2, <1>4, <2>2, <3>1, ZenonT(40) DEF Fine, Waited
    <2>14. Count(o)'
      <3>1. 1 \in 1..3
        OBVIOUS
      <3>2. Cardinality(Held(o)') = Cardinality(Held(o)) - 1
        BY <1>2, <1>3, <1>6, <2>1, <3>1, HeldLess, ZenonT(40)
      <3>3. /\ Cached(o) => refs'[o] = Cardinality(Held(o)') + 2
            /\ ~Cached(o) => refs'[o] = Cardinality(Held(o)') /\ refs'[o] \in Nat
        BY <1>3, <1>7, <3>2
      <3>4. CASE Cached(o)
        BY <1>3, <1>4, <2>4, <3>3, <3>4, ZenonT(40) DEF Count
      <3>5. CASE ~Cached(o)
        BY <2>4, <3>3, <3>5 DEF Count
      <3>6. QED
        BY <3>4, <3>5, ZenonT(40)
    <2>15. ObjectTypes'
      BY <1>1, <1>4, <1>7, <2>5, ZenonT(40) DEF ObjectTypes
    <2>16. TypeOK'
      BY <1>6, <2>15, ZenonT(40) DEF TypeOK, LocalTypes, ObjectTypes
    <2>17. LinksCount'
      BY <1>1, <1>4, <1>6, <2>6, LinksSame, ZenonT(40)
    <2>18. Fine(o)'
      BY <2>5, <2>7, <2>8, <2>11, <2>12, <2>13, <2>14, ZenonT(40) DEF Fine, Sound
    <2>19. QED
      BY <1>6, <2>1, <2>5, <2>6, <2>16, <2>17, <2>18, Combine, ZenonT(40)
  <1>10. QED
    BY <1>8, <1>9, ZenonT(40)

-----------------------------------------------------------------------------
(***************************************************************************)
(* fs_link                                                                 *)
(***************************************************************************)

\* fs_link adds a name to a directory and a link to its inode, whatever the
\* cache holds.
LEMMA LinkInv ==
    ASSUME Whole, NEW n \in Id, Link(n)
    PROVE  LruInv'
  <1>1. TypeOK /\ panic = "no"
    BY ZenonT(40) DEF Whole
  <1>2. /\ n \notin present /\ present' = present \cup {n} /\ links' = [links EXCEPT ![n] = links[n] + 1]
        /\ UNCHANGED <<hash, active, lru, refs, flags, id, wait, dflags, pc>>
        /\ UNCHANGED <<at, want, ref, tried, cached, drops, panic>>
    BY ZenonT(40) DEF Link, lruVars, locals
  <1>3. ASSUME NEW o \in Obj
        PROVE  /\ Users(o)' = Users(o) /\ (Cached(o)' <=> Cached(o)) /\ Held(o)' = Held(o)
               /\ (OnLru(o)' <=> OnLru(o)) /\ Fine(o)
    BY <1>2, ZenonT(40) DEF Users, Cached, Held, Share, OnLru, Whole
  <1>4. ASSUME NEW o \in Obj PROVE Sound(o)'
    <2>1. Sound(o) /\ Users(o)' = Users(o) /\ (Cached(o)' <=> Cached(o))
      BY <1>3, ZenonT(40) DEF Fine
    <2>2. Hashed(o)'
      BY <1>2, <2>1, ZenonT(40) DEF Sound, Hashed
    <2>3. Started(o)'
      BY <1>2, <2>1, ZenonT(40) DEF Sound, Started
    <2>4. Used(o)'
      BY <1>2, <2>1, ZenonT(40) DEF Sound, Used
    <2>5. Reclaimed(o)'
      BY <1>2, <2>1, ZenonT(40) DEF Sound, Reclaimed
    <2>6. Unlinked(o)'
      BY <1>2, <2>1, ZenonT(40) DEF Sound, Unlinked
    <2>7. Named(o)'
      BY <1>2, <2>1, ZenonT(40) DEF Sound, Named
    <2>8. QED
      BY <2>2, <2>3, <2>4, <2>5, <2>6, <2>7, ZenonT(40) DEF Sound
  <1>5. RefsAddUp'
    BY <1>2, <1>3, ZenonT(40) DEF RefsAddUp, Fine, Count
  <1>6. ListsFit'
    BY <1>2, <1>3, ZenonT(40) DEF ListsFit, Fine, Listed, Whole, NoTwice
  <1>7. \A t \in Thread : Local(t)'
    BY <1>2, ZenonT(40) DEF Whole, Local
  <1>8. WaiterRemembered'
    <2> SUFFICES ASSUME NEW t \in Thread, pc[t] = "wait", t \in wait[at[t]]
                 PROVE  \E u \in Thread :
                          /\ pc[u] \in {"init", "mark_ready", "mark_error", "ready", "error"}
                          /\ at[u] = at[t]
      BY <1>2, ZenonT(40) DEF WaiterRemembered
    <2>1. PICK o \in Obj : at[t] = o /\ Waited(o)
      BY <1>1, ZenonT(40) DEF Whole, Local, TypeOK, Fine
    <2>2. PICK u \in Users(o) : pc[u] \in Starting \cup {"ready", "error"}
      BY <2>1, ZenonT(40) DEF Waited, Users
    <2>3. QED
      BY <2>1, <2>2, ZenonT(40) DEF Users, Starting
  <1>9. links[n] \in Nat /\ links' \in [Id -> Nat] /\ links'[n] = links[n] + 1
    <2>1. links[n] \in Nat /\ links \in [Id -> Nat]
      BY <1>1, ZenonT(40) DEF TypeOK
    <2>2. links[n] + 1 \in Nat
      BY <2>1
    <2>3. QED
      BY <1>2, <2>1, <2>2, ZenonT(40)
  <1>10. TypeOK'
    BY <1>1, <1>2, <1>9, ZenonT(40) DEF TypeOK
  <1>11. LinksCount'
    <2> SUFFICES ASSUME NEW i \in Id
                 PROVE  links'[i] = (IF i \in present' THEN 1 ELSE 0) + Cardinality(Doomed(i)')
      BY ZenonT(40) DEF LinksCount
    <2>1. Doomed(i)' = Doomed(i)
      BY <1>2, ZenonT(40) DEF Doomed, Users
    <2>2. links[i] = (IF i \in present THEN 1 ELSE 0) + Cardinality(Doomed(i))
      BY ZenonT(40) DEF Whole, LinksCount
    <2>3. CASE i = n
      <3>1. links[n] = 0 + Cardinality(Doomed(i)) /\ i \in present' /\ links'[i] = links[n] + 1
        BY <1>2, <1>9, <2>2, <2>3, ZenonT(40)
      <3>2. Cardinality(Doomed(i)) \in Nat
        BY DoomedFinite, ZenonT(40)
      <3>3. links'[i] = 1 + Cardinality(Doomed(i))
        BY <3>1, <3>2
      <3>4. QED
        BY <2>1, <3>1, <3>3, ZenonT(40)
    <2>4. CASE i # n
      <3>1. links'[i] = links[i] /\ (i \in present' <=> i \in present)
        BY <1>1, <1>2, <2>4, ZenonT(40) DEF TypeOK
      <3>2. QED
        BY <2>1, <2>2, <3>1, ZenonT(40)
    <2>5. QED
      BY <2>3, <2>4, ZenonT(40)
  <1>12. panic' # "assert"
    BY <1>1, <1>2, ZenonT(40)
  <1>13. QED
    BY <1>4, <1>5, <1>6, <1>7, <1>8, <1>10, <1>11, <1>12, ZenonT(40) DEF LruInv

\* A step that changes nothing keeps the invariant.
LEMMA StutterInv ==
    ASSUME LruInv, UNCHANGED vars
    PROVE  LruInv'
  <1>1. /\ UNCHANGED <<hash, active, lru, refs, flags, id, wait, dflags, present, links>>
        /\ UNCHANGED <<pc, at, want, ref, tried, cached, drops, panic>>
    BY ZenonT(40) DEF vars, lruVars, direntVars, locals
  <1>2. TypeOK' /\ panic' # "assert"
    BY <1>1, ZenonT(40) DEF LruInv, TypeOK
  <1>3. (\A t \in Thread : Local(t)') /\ WaiterRemembered'
    BY <1>1, ZenonT(40) DEF LruInv, Local, WaiterRemembered
  <1>4. ASSUME NEW o \in Obj
        PROVE  /\ Users(o)' = Users(o) /\ (Cached(o)' <=> Cached(o)) /\ Held(o)' = Held(o)
               /\ (OnLru(o)' <=> OnLru(o))
    BY <1>1, ZenonT(40) DEF Users, Cached, Held, Share, OnLru
  <1>5. ASSUME NEW o \in Obj, panic = "no" PROVE Sound(o)'
    <2>1. Sound(o)
      BY <1>5, ZenonT(40) DEF LruInv
    <2>2. Hashed(o)' /\ Started(o)'
      BY <1>1, <1>4, <2>1, ZenonT(40) DEF Sound, Hashed, Started
    <2>3. Used(o)'
      BY <1>1, <1>4, <2>1, ZenonT(40) DEF Sound, Used
    <2>4. Reclaimed(o)'
      BY <1>1, <1>4, <2>1, ZenonT(40) DEF Sound, Reclaimed
    <2>5. Unlinked(o)'
      BY <1>1, <1>4, <2>1, ZenonT(40) DEF Sound, Unlinked
    <2>6. Named(o)'
      BY <1>1, <1>4, <2>1, ZenonT(40) DEF Sound, Named
    <2>7. QED
      BY <2>2, <2>3, <2>4, <2>5, <2>6, ZenonT(40) DEF Sound
  <1>6. RefsAddUp' /\ ListsFit'
    BY <1>1, <1>4, ZenonT(40) DEF LruInv, RefsAddUp, ListsFit
  <1>7. LinksCount'
    BY <1>1, ZenonT(40) DEF LruInv, LinksCount, Doomed, Users
  <1>8. QED
    BY <1>1, <1>2, <1>3, <1>5, <1>6, <1>7, ZenonT(40) DEF LruInv

-----------------------------------------------------------------------------
(***************************************************************************)
(* The theorems.                                                           *)
(***************************************************************************)

INSTANCE FiniteSetTheorems

\* The facts on finite sets that the steps use.
LEMMA SetTheory == SetFacts
  <1>1. SubsetFinite
    BY FS_Subset DEF SubsetFinite
  <1>2. ProductFinite
    <2>1. IsFiniteSet(1..3)
      <3>1. 1 \in Int /\ 3 \in Int
        OBVIOUS
      <3>2. QED
        BY <3>1, FS_Interval, ZenonT(40)
    <2>2. ASSUME NEW S, IsFiniteSet(S) PROVE IsFiniteSet(S \X (1..3))
      BY <2>1, <2>2, FS_Product, ZenonT(40)
    <2>3. QED
      BY <2>2, ZenonT(40) DEF ProductFinite
  <1>3. Sizes
    BY FS_CardinalityType, FS_EmptySet, FS_Singleton DEF Sizes
  <1>4. OneElement
    BY FS_Singleton, ZenonT(40) DEF OneElement
  <1>5. AddOne
    BY FS_AddElement DEF AddOne
  <1>6. RemoveOne
    BY FS_RemoveElement DEF RemoveOne
  <1>7. QED
    BY <1>1, <1>2, <1>3, <1>4, <1>5, <1>6, ZenonT(40) DEF SetFacts

\* The lemmas on single steps start from the invariant.
LEMMA InvWhole ==
    ASSUME LruInv, panic = "no"
    PROVE  Whole
  <1>1. ASSUME NEW o \in Obj PROVE Waited(o)
    <2> SUFFICES ASSUME NEW t \in Thread, at[t] = o, pc[t] = "wait", t \in wait[o]
                 PROVE  \E u \in Users(o) : pc[u] \in Starting \cup {"ready", "error"}
      BY DEF Waited, Users
    <2>1. PICK u \in Thread : /\ pc[u] \in {"init", "mark_ready", "mark_error", "ready", "error"}
                              /\ at[u] = at[t]
      BY DEF LruInv, WaiterRemembered
    <2>2. QED
      BY <2>1 DEF Users, Starting
  <1>2. ASSUME NEW o \in Obj PROVE Sound(o) /\ Count(o) /\ Listed(o)
    BY DEF LruInv, RefsAddUp, Count, ListsFit, Listed
  <1>3. NoTwice
    BY DEF LruInv, ListsFit, NoTwice
  <1>4. QED
    BY <1>1, <1>2, <1>3, SetTheory DEF LruInv, Whole, Fine

\* The cache is empty at first.
LEMMA InitInv == Init => LruInv
  <1> SUFFICES ASSUME Init PROVE LruInv
    OBVIOUS
  <1>1. TypeOK
    <2>1. 0 \in Nat /\ 1 \in Nat /\ 0 \in 0..3
      OBVIOUS
    <2>2. links \in [Id -> Nat] /\ present \subseteq Id
      BY <2>1, ZenonT(40) DEF Init
    <2>3. lru \in Seq(Obj)
      BY DEF Init
    <2>4. /\ hash \in [Id -> Obj \cup {NULL}] /\ active \subseteq Obj /\ refs \in [Obj -> Nat]
          /\ flags \in [Obj -> SUBSET {"LRU", "INIT", "ERR", "DESTROY"}]
          /\ dflags \in [Obj -> SUBSET {"UNLINK", "UNCACHED"}]
      BY <2>1, ZenonT(40) DEF Init
    <2>5. /\ id \in [Obj -> Id \cup {NULL}] /\ wait \in [Obj -> SUBSET Thread]
          /\ pc \in [Thread -> PC] /\ at \in [Thread -> Obj \cup {NULL}]
          /\ want \in [Thread -> Id \cup {NULL}] /\ ref \in [Thread -> Nat]
      BY <2>1, ZenonT(40) DEF Init, PC
    <2>6. /\ tried \subseteq Thread /\ cached \subseteq Thread /\ drops \in [Thread -> 0..3]
          /\ panic \in {"no", "double free", "assert"}
      BY <2>1, ZenonT(40) DEF Init
    <2>7. QED
      BY <2>2, <2>3, <2>4, <2>5, <2>6, ZenonT(40) DEF TypeOK
  <1>2. \A t \in Thread : pc[t] = "idle" /\ at[t] = NULL /\ want[t] = NULL
    BY ZenonT(40) DEF Init
  <1>3. (\A t \in Thread : Local(t)) /\ WaiterRemembered
    BY <1>2, ZenonT(40) DEF Local, WaiterRemembered
  <1>4. ASSUME NEW o \in Obj
        PROVE  /\ Users(o) = {} /\ Held(o) = {} /\ ~Cached(o) /\ ~OnLru(o) /\ o \notin active
               /\ flags[o] = {} /\ dflags[o] = {} /\ refs[o] = 0 /\ \A i \in Id : hash[i] # o
    <2>1. Users(o) = {}
      BY <1>2, NoObject, ZenonT(40) DEF Users
    <2>2. Held(o) = {}
      BY <2>1, ZenonT(40) DEF Held
    <2>3. \A i \in Id : hash[i] # o
      BY NoObject, ZenonT(40) DEF Init
    <2>4. ~OnLru(o)
      BY DEF Init, OnLru
    <2>5. QED
      BY <2>1, <2>2, <2>3, <2>4, ZenonT(40) DEF Init, Cached
  <1>5. ASSUME NEW o \in Obj PROVE Sound(o)
    BY <1>4, ZenonT(40) DEF Sound, Hashed, Started, Used, Reclaimed, Unlinked, Named
  <1>6. RefsAddUp
    <2>1. Cardinality({}) = 0
      BY FS_EmptySet, ZenonT(40)
    <2>2. 0 = 0 + 0
      OBVIOUS
    <2>3. QED
      BY <1>4, <2>1, <2>2, ZenonT(40) DEF RefsAddUp
  <1>7. ListsFit
    <2>1. \A j, k \in 1..Len(lru) : lru[j] = lru[k] => j = k
      BY DEF Init
    <2>2. QED
      BY <1>4, <2>1, ZenonT(40) DEF ListsFit
  <1>8. LinksCount
    <2> SUFFICES ASSUME NEW i \in Id
                 PROVE  links[i] = (IF i \in present THEN 1 ELSE 0) + Cardinality(Doomed(i))
      BY ZenonT(40) DEF LinksCount
    <2>1. Doomed(i) = {}
      BY <1>4 DEF Doomed
    <2>2. Cardinality(Doomed(i)) = 0
      BY <2>1, FS_EmptySet, ZenonT(40)
    <2>3. links[i] = IF i \in present THEN 1 ELSE 0
      BY ZenonT(40) DEF Init
    <2>4. QED
      BY <2>2, <2>3
  <1>9. panic = "no"
    BY ZenonT(40) DEF Init
  <1>10. QED
    BY <1>1, <1>3, <1>5, <1>6, <1>7, <1>8, <1>9, ZenonT(40) DEF LruInv

\* Every step keeps the invariant.
LEMMA NextInv == LruInv /\ [Next]_vars => LruInv'
  <1> SUFFICES ASSUME LruInv, [Next]_vars PROVE LruInv'
    OBVIOUS
  <1>1. CASE UNCHANGED vars
    BY <1>1, StutterInv, ZenonT(40)
  <1>2. ASSUME NEW t \in Thread, Step(t) PROVE LruInv'
    <2>1. panic = "no"
      BY <1>2, ZenonT(40) DEF Step, Found, FoundEarly, NotFound, NotCached, Woken, PutrefRetry, Putref,
         LookupName, mark_ready, mark_error, Wake, Reclaim, Release, Forget, ReclaimPut, dirent_put,
         Uncache, UnlinkName, kobj_lru_remove, kobj_lru_put, Goto
    <2>2. Whole
      BY <2>1, InvWhole, ZenonT(40)
    <2>3. CASE Found(t) \/ FoundEarly(t) \/ NotFound(t) \/ NotCached(t) \/ Woken(t)
      BY <2>2, <2>3, FoundInv, FoundEarlyInv, NotFoundInv, NotCachedInv, WokenInv, ZenonT(40)
    <2>4. CASE PutrefRetry(t) \/ Putref(t) \/ LookupName(t) \/ mark_ready(t) \/ mark_error(t) \/ Wake(t)
      BY <2>2, <2>4, PutrefRetryInv, PutrefInv, LookupNameInv, MarkReadyInv, MarkErrorInv, WakeInv,
         ZenonT(40)
    <2>5. CASE Reclaim(t) \/ Release(t) \/ Forget(t) \/ ReclaimPut(t)
      BY <2>2, <2>5, ReclaimInv, ReleaseInv, ForgetInv, ReclaimPutInv, ZenonT(40)
    <2>6. CASE dirent_put(t) \/ Uncache(t) \/ UnlinkName(t) \/ kobj_lru_remove(t) \/ kobj_lru_put(t)
      BY <2>2, <2>6, DirentPutInv, UncacheInv, UnlinkNameInv, RemoveInv, PutInv, ZenonT(40)
    <2>7. QED
      BY <1>2, <2>3, <2>4, <2>5, <2>6, ZenonT(40) DEF Step
  <1>3. ASSUME NEW t \in Thread, Unlink(t) PROVE LruInv'
    BY <1>3, InvWhole, UnlinkInv, ZenonT(40) DEF Unlink, Goto
  <1>4. ASSUME NEW t \in Thread, NEW i \in Id, Get(t, i) PROVE LruInv'
    BY <1>4, InvWhole, GetInv, ZenonT(40) DEF Get, Goto
  <1>5. ASSUME NEW i \in Id, Link(i) PROVE LruInv'
    BY <1>5, InvWhole, LinkInv, ZenonT(40) DEF Link
  <1>6. QED
    BY <1>1, <1>2, <1>3, <1>4, <1>5, ZenonT(40) DEF Next

\* The invariant of the cache holds whatever the number of threads, names and
\* objects, and whatever maximum the cache has.
THEOREM LruInductive == Spec => []LruInv
  BY InitInv, NextInv, PTL DEF Spec

\* The reference counts are those of the hash, of the lists and of the users;
\* the lists hold what is cached, each object once and where it belongs; and
\* the links of an inode are its names and its unlinked entries still in use.
THEOREM AccountsAgree == Spec => []LruAccounts
  <1>1. LruInv => LruAccounts
    BY DEF LruInv, LruAccounts
  <1>2. QED
    BY <1>1, LruInductive, PTL

\* Users of one name share one object, _dirent_release runs alone with its
\* object, nobody who waits for an object is forgotten, and the assertions of
\* kobj_lru.c and of dirent_put hold, all but the test for a double free in
\* kobj_lru_put.
THEOREM ProtocolKept == Spec => []LruProtocol
  <1>1. LruInv => LruProtocol
    <2> SUFFICES ASSUME LruInv PROVE LruProtocol
      OBVIOUS
    <2>1. SameObject
      <3> SUFFICES ASSUME panic = "no", NEW t \in Thread, NEW u \in Thread,
                          pc[t] = "use", pc[u] = "use"
                   PROVE  /\ id[at[t]] = want[t]
                          /\ want[t] = want[u] /\ "LRU" \in flags[at[t]] \cap flags[at[u]] => at[t] = at[u]
        BY ZenonT(40) DEF SameObject
      <3>1. Whole
        BY InvWhole, ZenonT(40)
      <3>2. ASSUME NEW v \in Thread, pc[v] = "use"
            PROVE  id[at[v]] = want[v] /\ ("LRU" \in flags[at[v]] => hash[want[v]] = at[v])
        <4>1. PICK o \in Obj : at[v] = o /\ Fine(o)
          BY <3>1, <3>2, ZenonT(40) DEF Whole, TypeOK, Local
        <4>2. v \in Users(o)
          BY <4>1, ZenonT(40) DEF Users
        <4>3. "INIT" \in flags[o] /\ "ERR" \notin flags[o] /\ pc[v] \notin Reclaiming
          BY <3>2, <4>1, <4>2, ZenonT(40) DEF Fine, Sound, Used, Starting, Using, Reclaiming
        <4>4. id[o] = want[v] /\ ("LRU" \in flags[o] => hash[want[v]] = o)
          BY <4>1, <4>2, <4>3, ZenonT(40) DEF Fine, Sound, Used
        <4>5. QED
          BY <4>1, <4>4, ZenonT(40)
      <3>3. QED
        BY <3>2, ZenonT(40)
    <2>2. ReleaseAlone
      <3> SUFFICES ASSUME panic = "no", NEW t \in Thread, pc[t] \in {"release", "forget"}
                   PROVE  Users(at[t]) = {t} /\ hash[id[at[t]]] = at[t]
        BY ZenonT(40) DEF ReleaseAlone
      <3>1. Whole
        BY InvWhole, ZenonT(40)
      <3>2. PICK o \in Obj : at[t] = o
        BY <3>1, ZenonT(40) DEF Whole, TypeOK, Local
      <3>3. Users(o) = {t} /\ hash[id[o]] = o
        BY <3>1, <3>2, ReclaimerAlone
      <3>4. QED
        BY <3>2, <3>3, ZenonT(40)
    <2>3. QED
      BY <2>1, <2>2, ZenonT(40) DEF LruInv, LruProtocol, AssertionsHold
  <1>2. QED
    BY <1>1, LruInductive, PTL
==============================================================================
