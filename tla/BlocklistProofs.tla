--------------------------- MODULE BlocklistProofs ---------------------------
(***************************************************************************)
(* Facts about the wait lists of module Blocklist that the proofs about    *)
(* its clients rest on.                                                    *)
(***************************************************************************)
EXTENDS Blocklist, TLAPS

\* The time limits of the provers, in seconds.
USE SMTT(30), ZenonT(30)

\* blockpoint_startblock puts a thread that was not listed at the end of the
\* list: the list stays free of duplicates and holds one thread more.
LEMMA AppendThread ==
    ASSUME NEW S, NEW wl \in Seq(S), NEW t \in S,
           NoDuplicates(wl), t \notin Members(wl)
    PROVE  /\ Append(wl, t) \in Seq(S)
           /\ NoDuplicates(Append(wl, t))
           /\ Members(Append(wl, t)) = Members(wl) \cup {t}
  <1> DEFINE new == Append(wl, t)
  <1>1. /\ new \in Seq(S)
        /\ Len(new) = Len(wl) + 1
        /\ \A i \in 1..Len(wl) : new[i] = wl[i]
        /\ new[Len(wl) + 1] = t
        /\ Len(wl) \in Nat
    OBVIOUS
  <1> HIDE DEF new
  <1>2. NoDuplicates(new)
    BY <1>1 DEF NoDuplicates, Members
  <1>3. Members(new) = Members(wl) \cup {t}
    BY <1>1 DEF Members
  <1>4. QED
    BY <1>1, <1>2, <1>3 DEF new

\* Taking the k-th blockpoint off a list moves the later ones up by one.
LEMMA WithoutElements ==
    ASSUME NEW S, NEW wl \in Seq(S), NEW k \in 1..Len(wl)
    PROVE  /\ Without(wl, k) \in Seq(S)
           /\ Len(Without(wl, k)) = Len(wl) - 1
           /\ \A i \in 1..(k - 1) : Without(wl, k)[i] = wl[i]
           /\ \A i \in k..(Len(wl) - 1) : Without(wl, k)[i] = wl[i + 1]
  <1> DEFINE new == Without(wl, k)
             front == SubSeq(wl, 1, k - 1)
             back == SubSeq(wl, k + 1, Len(wl))
  <1>1. new = front \o back
    BY DEF Without
  <1>2. /\ front \in Seq(S)
        /\ Len(front) = k - 1
        /\ \A i \in 1..(k - 1) : front[i] = wl[i]
    OBVIOUS
  <1>3. /\ back \in Seq(S)
        /\ Len(back) = Len(wl) - k
        /\ \A i \in 1..(Len(wl) - k) : back[i] = wl[i + k]
    OBVIOUS
  <1> HIDE DEF front, back, new
  <1>4. /\ new \in Seq(S)
        /\ Len(new) = Len(wl) - 1
    BY <1>1, <1>2, <1>3
  <1>5. \A i \in 1..(k - 1) : new[i] = wl[i]
    BY <1>1, <1>2, <1>3
  <1>6. ASSUME NEW i \in k..(Len(wl) - 1)
        PROVE  new[i] = wl[i + 1]
    <2>1. new[i] = back[i - (k - 1)]
      BY <1>1, <1>2, <1>3
    <2>2. i - (k - 1) \in 1..(Len(wl) - k) /\ (i - (k - 1)) + k = i + 1
      OBVIOUS
    <2>3. QED
      BY <1>3, <2>1, <2>2
  <1>7. QED
    BY <1>4, <1>5, <1>6 DEF new

\* blockpoint_cleanup takes a listed thread off the list: no other thread is
\* lost, and the list stays free of duplicates.
LEMMA UnlinkThread ==
    ASSUME NEW S, NEW wl \in Seq(S), NEW t,
           NoDuplicates(wl), t \in Members(wl)
    PROVE  /\ Unlink(wl, t) \in Seq(S)
           /\ NoDuplicates(Unlink(wl, t))
           /\ Members(Unlink(wl, t)) = Members(wl) \ {t}
  <1> DEFINE new == Unlink(wl, t)
  <1>1. PICK k \in 1..Len(wl) : wl[k] = t /\ new = Without(wl, k)
    BY ZenonT(40) DEF Members, Unlink
  <1> HIDE DEF new
  <1>2. Len(wl) \in Nat
    OBVIOUS
  <1>w. /\ Without(wl, k) \in Seq(S)
        /\ Len(Without(wl, k)) = Len(wl) - 1
        /\ \A i \in 1..(k - 1) : Without(wl, k)[i] = wl[i]
        /\ \A i \in k..(Len(wl) - 1) : Without(wl, k)[i] = wl[i + 1]
    BY WithoutElements, ZenonT(40)
  <1>3. /\ new \in Seq(S)
        /\ Len(new) = Len(wl) - 1
    BY <1>1, <1>w, ZenonT(40)
  <1>4. \A i \in 1..(k - 1) : new[i] = wl[i]
    BY <1>1, <1>w, ZenonT(40)
  <1>5. \A i \in k..(Len(wl) - 1) : new[i] = wl[i + 1]
    BY <1>1, <1>w, ZenonT(40)
  <1>6. NoDuplicates(new)
    <2> SUFFICES ASSUME NEW i \in 1..Len(new), NEW j \in 1..Len(new), new[i] = new[j]
                 PROVE  i = j
      BY DEF NoDuplicates
    <2>1. PICK m \in 1..Len(wl) : new[i] = wl[m] /\ m = IF i < k THEN i ELSE i + 1
      <3>1. CASE i < k
        BY <1>2, <1>3, <1>4, <3>1
      <3>2. CASE ~(i < k)
        BY <1>2, <1>3, <1>5, <3>2
      <3>3. QED
        BY <3>1, <3>2
    <2>2. PICK n \in 1..Len(wl) : new[j] = wl[n] /\ n = IF j < k THEN j ELSE j + 1
      <3>1. CASE j < k
        BY <1>2, <1>3, <1>4, <3>1
      <3>2. CASE ~(j < k)
        BY <1>2, <1>3, <1>5, <3>2
      <3>3. QED
        BY <3>1, <3>2
    <2>3. m = n
      BY <2>1, <2>2, ZenonT(40) DEF NoDuplicates
    <2>4. i \in Int /\ j \in Int /\ k \in Int
      BY <1>2, <1>3
    <2>5. QED
      BY <2>1, <2>2, <2>3, <2>4
  <1>7. ASSUME NEW i \in 1..Len(new)
        PROVE  new[i] \in Members(wl) \ {t}
    <2>1. CASE i < k
      BY <1>1, <1>3, <1>4, <2>1 DEF NoDuplicates, Members
    <2>2. CASE ~(i < k)
      BY <1>1, <1>3, <1>5, <2>2 DEF NoDuplicates, Members
    <2>3. QED
      BY <2>1, <2>2
  <1>8. ASSUME NEW j \in 1..Len(wl), wl[j] # t
        PROVE  wl[j] \in Members(new)
    <2>1. CASE j < k
      <3>1. j \in 1..Len(new) /\ new[j] = wl[j]
        BY <1>1, <1>3, <1>4, <2>1
      <3>2. QED
        BY <3>1 DEF Members
    <2>2. CASE j > k
      <3>1. j - 1 \in 1..Len(new) /\ new[j - 1] = wl[j]
        BY <1>1, <1>3, <1>5, <2>2
      <3>2. QED
        BY <3>1 DEF Members
    <2>3. j # k
      BY <1>1, <1>8
    <2>4. QED
      BY <1>1, <2>1, <2>2, <2>3
  <1>9. Members(new) = Members(wl) \ {t}
    <2>1. Members(new) \subseteq Members(wl) \ {t}
      BY <1>7 DEF Members
    <2>2. Members(wl) \ {t} \subseteq Members(new)
      BY <1>8 DEF Members
    <2>3. QED
      BY <2>1, <2>2
  <1>10. QED
    BY <1>3, <1>6, <1>9 DEF new

\* The threads of new are in the order in which old has them.
KeepsOrder(new, old) ==
    \A i, j \in 1..Len(new) : i <= j =>
        \E m, n \in 1..Len(old) : m <= n /\ new[i] = old[m] /\ new[j] = old[n]

\* The threads that stay on the list keep their order.
LEMMA UnlinkOrder ==
    ASSUME NEW S, NEW wl \in Seq(S), NEW t, t \in Members(wl)
    PROVE  KeepsOrder(Unlink(wl, t), wl)
  <1> SUFFICES ASSUME NEW i \in 1..Len(Unlink(wl, t)), NEW j \in 1..Len(Unlink(wl, t)), i <= j
               PROVE  \E m, n \in 1..Len(wl) : /\ m <= n
                                               /\ Unlink(wl, t)[i] = wl[m]
                                               /\ Unlink(wl, t)[j] = wl[n]
    BY ZenonT(40) DEF KeepsOrder
  <1> DEFINE new == Unlink(wl, t)
  <1>1. PICK k \in 1..Len(wl) : wl[k] = t /\ new = Without(wl, k)
    BY ZenonT(40) DEF Members, Unlink
  <1>i. i \in 1..Len(new) /\ j \in 1..Len(new)
    OBVIOUS
  <1> HIDE DEF new
  <1>2. Len(wl) \in Nat
    OBVIOUS
  <1>w. /\ Len(Without(wl, k)) = Len(wl) - 1
        /\ \A x \in 1..(k - 1) : Without(wl, k)[x] = wl[x]
        /\ \A x \in k..(Len(wl) - 1) : Without(wl, k)[x] = wl[x + 1]
    BY WithoutElements, ZenonT(40)
  <1>3. Len(new) = Len(wl) - 1
    BY <1>1, <1>w, ZenonT(40)
  <1>4. \A x \in 1..(k - 1) : new[x] = wl[x]
    BY <1>1, <1>w, ZenonT(40)
  <1>5. \A x \in k..(Len(wl) - 1) : new[x] = wl[x + 1]
    BY <1>1, <1>w, ZenonT(40)
  <1>6. \A x \in 1..Len(new) : LET y == IF x < k THEN x ELSE x + 1
                                IN  y \in 1..Len(wl) /\ new[x] = wl[y]
    BY <1>2, <1>3, <1>4, <1>5
  <1>7. QED
    <2> DEFINE m == IF i < k THEN i ELSE i + 1
               n == IF j < k THEN j ELSE j + 1
    <2>1. m \in 1..Len(wl) /\ n \in 1..Len(wl) /\ new[i] = wl[m] /\ new[j] = wl[n]
      BY <1>i, <1>6
    <2>2. m <= n
      BY <1>2, <1>3, <1>i
    <2>3. QED
      BY <2>1, <2>2 DEF new

-----------------------------------------------------------------------------
(***************************************************************************)
(* Who is woken before whom.                                               *)
(***************************************************************************)

\* A thread that joins the list, and is not in A, is behind those of A.
LEMMA AppendAhead ==
    ASSUME NEW S, NEW wl \in Seq(S), NEW t \in S, t \notin Members(wl),
           NEW up, NEW A, NEW B \in SUBSET A, t \notin B
    PROVE  Ahead(Append(wl, t), up \ {t}, B) \subseteq Ahead(wl, up, A)
  <1> DEFINE new == Append(wl, t)
  <1>1. /\ Len(new) = Len(wl) + 1 /\ Len(wl) \in Nat
        /\ \A i \in 1..Len(wl) : new[i] = wl[i]
        /\ new[Len(wl) + 1] = t
    OBVIOUS
  <1> HIDE DEF new
  <1> SUFFICES ASSUME NEW u \in Ahead(new, up \ {t}, B) PROVE u \in Ahead(wl, up, A)
    BY ZenonT(40) DEF new
  <1>2. PICK i, j \in 1..Len(new) : i <= j /\ new[i] = u /\ new[j] \in B /\ u \notin up \ {t}
    BY ZenonT(40) DEF Ahead
  <1>3. j \in 1..Len(wl) /\ i \in 1..Len(wl)
    BY <1>1, <1>2
  <1>4. wl[i] = u /\ wl[j] \in A
    BY <1>1, <1>2, <1>3
  <1>5. u \in Members(wl)
    BY <1>3, <1>4 DEF Members
  <1>6. QED
    BY <1>2, <1>3, <1>4, <1>5 DEF Ahead

\* A thread that leaves the list does not change the order of the others.
LEMMA UnlinkAhead ==
    ASSUME NEW S, NEW wl \in Seq(S), NEW t, t \in Members(wl), NoDuplicates(wl),
           NEW up, NEW A, NEW B \in SUBSET A
    PROVE  Ahead(Unlink(wl, t), up, B) \subseteq Ahead(wl, up, A)
  <1> SUFFICES ASSUME NEW u \in Ahead(Unlink(wl, t), up, B) PROVE u \in Ahead(wl, up, A)
    OBVIOUS
  <1>1. PICK i, j \in 1..Len(Unlink(wl, t)) :
           i <= j /\ Unlink(wl, t)[i] = u /\ Unlink(wl, t)[j] \in B
    BY DEF Ahead
  <1>2. \E m, n \in 1..Len(wl) : m <= n /\ wl[m] = u /\ wl[n] \in A
    <2> DEFINE new == Unlink(wl, t)
    <2>1. KeepsOrder(new, wl)
      BY UnlinkOrder, ZenonT(40)
    <2>2. i \in 1..Len(new) /\ j \in 1..Len(new) /\ i <= j /\ new[i] = u /\ new[j] \in B
      BY <1>1
    <2> HIDE DEF new
    <2>3. PICK m, n \in 1..Len(wl) : m <= n /\ new[i] = wl[m] /\ new[j] = wl[n]
      BY <2>1, <2>2, ZenonT(40) DEF KeepsOrder
    <2>4. wl[m] = u /\ wl[n] \in A
      BY <2>2, <2>3, ZenonT(40)
    <2>5. QED
      BY <2>3, <2>4, ZenonT(40)
  <1>3. u \in Members(wl) /\ u \notin up
    <2>1. u \in Members(Unlink(wl, t)) /\ u \notin up
      BY ZenonT(40) DEF Ahead
    <2>2. Members(Unlink(wl, t)) = Members(wl) \ {t}
      BY UnlinkThread, ZenonT(40)
    <2>3. QED
      BY <2>1, <2>2, ZenonT(40)
  <1>4. QED
    BY <1>2, <1>3 DEF Ahead

\* With more threads unblocked, and fewer that matter, there are fewer ahead.
LEMMA FewerAhead ==
    ASSUME NEW wl, NEW up, NEW down, up \subseteq down, NEW A, NEW B \in SUBSET A
    PROVE  Ahead(wl, down, B) \subseteq Ahead(wl, up, A)
  BY DEF Ahead

\* As long as there is somebody ahead, blocklist_unblock_one unblocks one of
\* them, and nobody else.
LEMMA UnblockOneAhead ==
    ASSUME BlockTypeOK, NEW bl \in BlockList, NEW A, Ahead(waitlist[bl], unblocked, A) # {},
           blocklist_unblock_one(bl)
    PROVE  \E x \in Ahead(waitlist[bl], unblocked, A) : blockpoint_unblock({x})
  <1> DEFINE wl == waitlist[bl]
  <1>0. wl \in Seq(Thread) /\ Len(wl) \in Nat
    BY DEF BlockTypeOK
  <1>1. PICK i, j \in 1..Len(wl) : i <= j /\ wl[i] \notin unblocked /\ wl[j] \in A
    BY ZenonT(40) DEF Ahead
  <1>2. i \in Sleeping(bl)
    BY <1>1 DEF Sleeping
  <1>3. PICK k \in Sleeping(bl) : (\A m \in Sleeping(bl) : k <= m) /\ blockpoint_unblock({wl[k]})
    BY <1>2, ZenonT(40) DEF blocklist_unblock_one
  <1>4. k \in 1..Len(wl) /\ wl[k] \notin unblocked /\ k <= j
    BY <1>0, <1>1, <1>2, <1>3 DEF Sleeping
  <1>5. wl[k] \in Members(wl)
    BY <1>4 DEF Members
  <1>6. wl[k] \in Ahead(wl, unblocked, A)
    BY <1>1, <1>4, <1>5 DEF Ahead
  <1>7. QED
    BY <1>3, <1>6, ZenonT(40)

-----------------------------------------------------------------------------
(***************************************************************************)
(* What the operators do to the state of threads and lists.                *)
(***************************************************************************)

\* The operators that do not touch a list keep the types of the state.
LEMMA StateTypes ==
    ASSUME BlockTypeOK, NEW t \in Thread,
           schedule(t) \/ preempt(t) \/ timeout(t) \/ thread_send_signal(t)
    PROVE  BlockTypeOK'
  <1>1. CASE schedule(t)
    BY <1>1 DEF BlockTypeOK, schedule, check_signals, ThreadState
  <1>2. CASE preempt(t)
    BY <1>2 DEF BlockTypeOK, preempt, check_signals
  <1>3. CASE timeout(t)
    BY <1>3 DEF BlockTypeOK, timeout, BlockResult
  <1>4. CASE thread_send_signal(t)
    BY <1>4 DEF BlockTypeOK, thread_send_signal, thread_unblock, processor_add_thread, ThreadState
  <1>5. QED
    BY <1>1, <1>2, <1>3, <1>4

\* blockpoint_unblock keeps the types, and the lists.
LEMMA UnblockTypes ==
    ASSUME BlockTypeOK, NEW ts \in SUBSET Thread, blockpoint_unblock(ts)
    PROVE  BlockTypeOK' /\ waitlist' = waitlist
  BY DEF BlockTypeOK, blockpoint_unblock, processor_add_thread, ThreadState

\* blockpoint_startblock of a thread that is on no place of the list.
LEMMA StartBlockLists ==
    ASSUME BlockTypeOK, NEW t \in Thread, NEW bl \in BlockList, NEW fl,
           NoDuplicates(waitlist[bl]), t \notin Members(waitlist[bl]),
           blockpoint_startblock(t, bl, fl)
    PROVE  /\ BlockTypeOK'
           /\ waitlist'[bl] = Append(waitlist[bl], t)
           /\ NoDuplicates(waitlist'[bl])
           /\ Members(waitlist'[bl]) = Members(waitlist[bl]) \cup {t}
           /\ \A b \in BlockList \ {bl} : waitlist'[b] = waitlist[b]
  <1>1. waitlist[bl] \in Seq(Thread)
    BY DEF BlockTypeOK
  <1>2. waitlist' = [waitlist EXCEPT ![bl] = Append(waitlist[bl], t)]
    BY DEF blockpoint_startblock
  <1>3. Append(waitlist[bl], t) \in Seq(Thread)
    BY <1>1
  <1>4. /\ waitlist' \in [BlockList -> Seq(Thread)]
        /\ waitlist'[bl] = Append(waitlist[bl], t)
        /\ \A b \in BlockList \ {bl} : waitlist'[b] = waitlist[b]
    BY <1>2, <1>3 DEF BlockTypeOK
  <1>5. BlockTypeOK'
    BY <1>4 DEF BlockTypeOK, blockpoint_startblock, ThreadState, BlockResult
  <1>6. QED
    BY <1>1, <1>4, <1>5, AppendThread

\* blockpoint_cleanup of a thread that is on the list.
LEMMA CleanupLists ==
    ASSUME BlockTypeOK, NEW t \in Thread, NEW bl \in BlockList,
           NoDuplicates(waitlist[bl]), t \in Members(waitlist[bl]),
           blockpoint_cleanup(t, bl)
    PROVE  /\ BlockTypeOK'
           /\ waitlist'[bl] = Unlink(waitlist[bl], t)
           /\ NoDuplicates(waitlist'[bl])
           /\ Members(waitlist'[bl]) = Members(waitlist[bl]) \ {t}
           /\ \A b \in BlockList \ {bl} : waitlist'[b] = waitlist[b]
  <1>1. waitlist[bl] \in Seq(Thread)
    BY DEF BlockTypeOK
  <1>2. waitlist' = [waitlist EXCEPT ![bl] = Unlink(waitlist[bl], t)]
    BY DEF blockpoint_cleanup
  <1>3. /\ Unlink(waitlist[bl], t) \in Seq(Thread)
        /\ NoDuplicates(Unlink(waitlist[bl], t))
        /\ Members(Unlink(waitlist[bl], t)) = Members(waitlist[bl]) \ {t}
    BY <1>1, UnlinkThread
  <1>4. /\ waitlist' \in [BlockList -> Seq(Thread)]
        /\ waitlist'[bl] = Unlink(waitlist[bl], t)
        /\ \A b \in BlockList \ {bl} : waitlist'[b] = waitlist[b]
    BY <1>2, <1>3 DEF BlockTypeOK
  <1>5. BlockTypeOK'
    BY <1>4 DEF BlockTypeOK, blockpoint_cleanup, ThreadState
  <1>6. QED
    BY <1>3, <1>4, <1>5

\* blocklist_unblock_all: those of the list that were not unblocked before are
\* put on the run queue.
LEMMA UnblockAllLists ==
    ASSUME BlockTypeOK, NEW bl \in BlockList, blocklist_unblock_all(bl)
    PROVE  /\ BlockTypeOK' /\ UNCHANGED <<waitlist, pending>>
           /\ unblocked' = unblocked \cup Members(waitlist[bl])
           /\ onqueue' = onqueue \cup (Members(waitlist[bl]) \ unblocked)
  <1> DEFINE ts == {waitlist[bl][i] : i \in Sleeping(bl)}
  <1>1. ts = Members(waitlist[bl]) \ unblocked
    BY DEF Sleeping, Members
  <1>2. ts \in SUBSET Thread
    BY DEF Sleeping, BlockTypeOK
  <1>3. blockpoint_unblock(ts)
    BY DEF blocklist_unblock_all
  <1> HIDE DEF ts
  <1>4. BlockTypeOK' /\ waitlist' = waitlist
    BY <1>2, <1>3, UnblockTypes
  <1>5. QED
    BY <1>1, <1>3, <1>4 DEF blockpoint_unblock, processor_add_thread
=============================================================================
