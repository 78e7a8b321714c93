----------------------------- MODULE MutexProofs -----------------------------
(***************************************************************************)
(* The mutex is correct for any number of threads.                         *)
(***************************************************************************)
EXTENDS Mutex, BlocklistProofs, FiniteSetTheorems

\* The time limits of the provers, in seconds.
USE SMTT(30), ZenonT(30)

\* The initial state has no holder, no waiter and a zero count.
LEMMA InitIInv == Init => IInv
  <1> SUFFICES ASSUME Init PROVE IInv
    OBVIOUS
  <1> USE OneList, NoOwner DEF Init, BlockInit
  <1>1. TypeOK
    BY DEF TypeOK, BlockTypeOK, ThreadState, BlockResult, PC, Idle
  <1>2. ListInv
    BY DEF ListInv, NoDuplicates, Members, Blocking, Idle
  <1>3. CountInv
    <2>1. Counted = {}
      BY DEF Counted, Idle
    <2>2. \A t \in Thread : ~Owns(t)
      BY DEF Owns, Idle
    <2>3. QED
      BY <2>1, <2>2, FS_EmptySet DEF CountInv
  <1>4. OwnerInv
    BY DEF OwnerInv, Idle
  <1>5. QED
    BY <1>1, <1>2, <1>3, <1>4 DEF IInv

\* Every state variable keeps its type, mutex->lock stays a natural number
\* because only a counted thread subtracts.
LEMMA TypeStep == IInv /\ [Next]_vars => TypeOK'
  <1> SUFFICES ASSUME IInv, [Next]_vars PROVE TypeOK'
    OBVIOUS
  <1> USE OneList, NoOwner DEF IInv, TypeOK, BlockTypeOK, ThreadState, BlockResult, PC, Idle
  <1>1. ASSUME NEW t \in Thread, Acquire(t) PROVE TypeOK'
    BY <1>1 DEF Acquire, Goto, blockVars
  <1>2. ASSUME NEW t \in Thread, SpinTakes(t) PROVE TypeOK'
    BY <1>2 DEF SpinTakes, Goto, blockVars
  <1>3. ASSUME NEW t \in Thread, SpinGivesUp(t) PROVE TypeOK'
    BY <1>3 DEF SpinGivesUp, Goto, blockVars
  <1>4. ASSUME NEW t \in Thread, StartBlock(t) PROVE TypeOK'
    BY <1>4 DEF StartBlock, Goto, blockpoint_startblock
  <1>5. ASSUME NEW t \in Thread, FetchAdd(t) PROVE TypeOK'
    BY <1>5 DEF FetchAdd, Goto, blockVars
  <1>6. ASSUME NEW t \in Thread, Scheduled(t) PROVE TypeOK'
    BY <1>6 DEF Scheduled, Goto, schedule, check_signals
  <1>7. ASSUME NEW t \in Thread, Cleanup(t) PROVE TypeOK'
    <2>1. t \in Members(waitlist["wait"]) /\ NoDuplicates(waitlist["wait"])
      BY <1>7 DEF Cleanup, Goto, ListInv, Blocking
    <2>2. Unlink(waitlist["wait"], t) \in Seq(Thread)
      BY <2>1, UnlinkThread
    <2>3. QED
      BY <1>7, <2>2 DEF Cleanup, Goto, blockpoint_cleanup
  <1>8. ASSUME NEW t \in Thread, TakeOwnership(t) PROVE TypeOK'
    BY <1>8 DEF TakeOwnership, Goto, blockVars
  <1>9. ASSUME NEW t \in Thread, Release(t) PROVE TypeOK'
    BY <1>9 DEF Release, Goto, blockVars
  <1>10. ASSUME NEW t \in Thread, FetchSub(t) PROVE TypeOK'
    <2>1. lock > 0
      BY <1>10 DEF FetchSub, Goto, CountInv, Owns
    <2>2. QED
      BY <1>10, <2>1 DEF FetchSub, Goto, blockVars
  <1>11. ASSUME NEW t \in Thread, UnblockOne(t) PROVE TypeOK'
    BY <1>11 DEF UnblockOne, Goto, blocklist_unblock_one, blockpoint_unblock,
                 processor_add_thread, Sleeping, blockVars
  <1>12. ASSUME NEW t \in Thread, Preempted(t) PROVE TypeOK'
    BY <1>12 DEF Preempted, preempt, check_signals, mutexVars
  <1>13. ASSUME NEW t \in Thread, StaleEntry(t) PROVE TypeOK'
    BY <1>13 DEF StaleEntry, select_idle, mutexVars
  <1>14. ASSUME NEW t \in Thread, Signal(t) PROVE TypeOK'
    BY <1>14 DEF Signal, thread_send_signal, thread_unblock, processor_add_thread, mutexVars
  <1>15. CASE UNCHANGED vars
    BY <1>15 DEF vars, blockVars, mutexVars
  <1> HIDE OneList, NoOwner DEF IInv, TypeOK, BlockTypeOK, ThreadState, BlockResult, PC, Idle
  <1>16. QED
    BY <1>1, <1>2, <1>3, <1>4, <1>5, <1>6, <1>7, <1>8, <1>9, <1>10, <1>11, <1>12,
       <1>13, <1>14, <1>15 DEF Next, Step

\* The wait list holds exactly the blocking threads, each once, and a blocking
\* thread becomes RUNNING only together with BLOCK_UNBLOCKED: the signal path
\* respects THREAD_UNINTER.
LEMMA ListStep == IInv /\ [Next]_vars => ListInv'
  <1> SUFFICES ASSUME IInv, [Next]_vars PROVE ListInv'
    OBVIOUS
  <1> DEFINE wl == waitlist["wait"]
  <1>0. wl \in Seq(Thread) /\ NoDuplicates(wl) /\ DOMAIN waitlist = {"wait"}
    BY OneList DEF IInv, TypeOK, BlockTypeOK, ListInv
  <1> USE DEF IInv, TypeOK, BlockTypeOK, ThreadState, PC, Idle, ListInv, Blocking
  <1>1. ASSUME NEW t \in Thread, Acquire(t) PROVE ListInv'
    BY <1>1 DEF Acquire, Goto, blockVars
  <1>2. ASSUME NEW t \in Thread, SpinTakes(t) PROVE ListInv'
    BY <1>2 DEF SpinTakes, Goto, blockVars
  <1>3. ASSUME NEW t \in Thread, SpinGivesUp(t) PROVE ListInv'
    BY <1>3 DEF SpinGivesUp, Goto, blockVars
  <1>4. ASSUME NEW t \in Thread, StartBlock(t) PROVE ListInv'
    <2>1. t \notin Members(wl)
      BY <1>4 DEF StartBlock, Goto
    <2>2. wl' = Append(wl, t)
      BY <1>0, <1>4 DEF StartBlock, blockpoint_startblock
    <2>3. NoDuplicates(wl') /\ Members(wl') = Members(wl) \cup {t}
      BY <1>0, <2>1, <2>2, AppendThread
    <2>4. QED
      BY <1>4, <2>3 DEF StartBlock, Goto, blockpoint_startblock
  <1>5. ASSUME NEW t \in Thread, FetchAdd(t) PROVE ListInv'
    BY <1>5 DEF FetchAdd, Goto, blockVars
  <1>6. ASSUME NEW t \in Thread, Scheduled(t) PROVE ListInv'
    BY <1>6 DEF Scheduled, Goto, schedule
  <1>7. ASSUME NEW t \in Thread, Cleanup(t) PROVE ListInv'
    <2>1. t \in Members(wl)
      BY <1>7 DEF Cleanup, Goto
    <2>2. wl' = Unlink(wl, t)
      BY <1>0, <1>7 DEF Cleanup, blockpoint_cleanup
    <2>3. NoDuplicates(wl') /\ Members(wl') = Members(wl) \ {t}
      BY <1>0, <2>1, <2>2, UnlinkThread
    <2>4. QED
      BY <1>7, <2>3 DEF Cleanup, Goto, blockpoint_cleanup
  <1>8. ASSUME NEW t \in Thread, TakeOwnership(t) PROVE ListInv'
    BY <1>8 DEF TakeOwnership, Goto, blockVars
  <1>9. ASSUME NEW t \in Thread, Release(t) PROVE ListInv'
    BY <1>9 DEF Release, Goto, blockVars
  <1>10. ASSUME NEW t \in Thread, FetchSub(t) PROVE ListInv'
    BY <1>10 DEF FetchSub, Goto, blockVars
  <1>11. ASSUME NEW t \in Thread, UnblockOne(t) PROVE ListInv'
    BY <1>11, ZenonT(40) DEF UnblockOne, Goto, blocklist_unblock_one, blockpoint_unblock, blockVars
  <1>12. ASSUME NEW t \in Thread, Preempted(t) PROVE ListInv'
    BY <1>12 DEF Preempted, preempt, mutexVars
  <1>13. ASSUME NEW t \in Thread, StaleEntry(t) PROVE ListInv'
    BY <1>13 DEF StaleEntry, select_idle, mutexVars
  <1>14. ASSUME NEW t \in Thread, Signal(t) PROVE ListInv'
    BY <1>14 DEF Signal, thread_send_signal, thread_unblock, mutexVars
  <1>15. CASE UNCHANGED vars
    BY <1>15 DEF vars, blockVars, mutexVars
  <1>16. QED
    BY <1>1, <1>2, <1>3, <1>4, <1>5, <1>6, <1>7, <1>8, <1>9, <1>10, <1>11, <1>12,
       <1>13, <1>14, <1>15 DEF Next, Step

\* A release that saw other threads counted has somebody to wake.
LEMMA HandOff == IInv => HandOffFindsWaiter
  <1> SUFFICES ASSUME IInv, NEW t \in Thread, pc[t] = "unblock_one"
               PROVE  Sleeping("wait") # {}
    BY DEF HandOffFindsWaiter
  <1>1. Owns(t) /\ t \notin Counted /\ lock > 0
    BY DEF Owns, Counted, IInv, CountInv
  <1>2. Counted # {}
    BY <1>1, FS_EmptySet DEF IInv, CountInv
  <1>3. PICK u \in Counted : TRUE
    BY <1>2
  <1>4. u \in Thread /\ ~Owns(u)
    BY <1>1, <1>3 DEF IInv, CountInv, Counted
  <1>5. pc[u] = "schedule" /\ u \notin unblocked
    BY <1>3, <1>4 DEF Counted, Owns
  <1>6. u \in Members(waitlist["wait"])
    BY <1>4, <1>5 DEF IInv, ListInv, Blocking
  <1>7. QED
    BY <1>5, <1>6 DEF Members, Sleeping

\* A step that changes neither the counted threads nor the right to the mutex.
LEMMA CountSame ==
    ASSUME CountInv, lock' = lock, Counted' = Counted,
           \A t \in Thread : Owns(t)' <=> Owns(t)
    PROVE  CountInv'
  BY DEF CountInv

\* The count and the right to the mutex agree: whoever takes the count from
\* zero gets the right, a thread that finds it positive waits for it, and a
\* release passes it on or, at one, gives it up with the count.
LEMMA CountStep == IInv /\ [Next]_vars => CountInv'
  <1> SUFFICES ASSUME IInv, [Next]_vars PROVE CountInv'
    OBVIOUS
  <1>0. CountInv /\ lock \in Nat /\ pc \in [Thread -> PC]
    BY DEF IInv, TypeOK
  <1>1. ASSUME NEW t \in Thread, Acquire(t) PROVE CountInv'
    BY <1>0, <1>1, CountSame DEF Acquire, Goto, blockVars, Counted, Owns, Idle
  <1>2. ASSUME NEW t \in Thread, SpinTakes(t) PROVE CountInv'
    <2>1. Counted = {} /\ \A s \in Thread : ~Owns(s)
      <3>1. lock = 0
        BY <1>2 DEF SpinTakes
      <3>2. Counted = {}
        BY <1>0, <3>1, FS_EmptySet, ZenonT(40) DEF CountInv
      <3>3. \A s \in Thread : ~Owns(s)
        BY <1>0, <3>1 DEF CountInv
      <3>4. QED
        BY <3>2, <3>3
    <2>2. Counted' = {t} /\ \A s \in Thread : Owns(s)' <=> s = t
      BY <1>0, <1>2, <2>1 DEF SpinTakes, Goto, Counted, Owns, blockVars
    <2>3. IsFiniteSet(Counted') /\ Cardinality(Counted') = 1
      BY <2>2, FS_Singleton
    <2>4. lock' = 1
      BY <1>2 DEF SpinTakes
    <2>5. QED
      BY <2>2, <2>3, <2>4 DEF CountInv
  <1>3. ASSUME NEW t \in Thread, SpinGivesUp(t) PROVE CountInv'
    BY <1>0, <1>3, CountSame DEF SpinGivesUp, Goto, blockVars, Counted, Owns
  <1>4. ASSUME NEW t \in Thread, StartBlock(t) PROVE CountInv'
    BY <1>0, <1>4, CountSame DEF StartBlock, Goto, blockpoint_startblock, Counted, Owns
  <1>5. ASSUME NEW t \in Thread, FetchAdd(t) PROVE CountInv'
    <2>1. t \notin Counted /\ Counted' = Counted \cup {t}
      BY <1>0, <1>5 DEF FetchAdd, Goto, Counted
    <2>2. IsFiniteSet(Counted') /\ lock' = Cardinality(Counted') /\ lock' > 0
      BY <1>0, <1>5, <2>1, FS_AddElement DEF FetchAdd, CountInv
    <2>3. CASE lock = 0
      <3>1. \A s \in Thread : Owns(s)' <=> s = t
        BY <1>0, <1>5, <2>3 DEF FetchAdd, Goto, Owns, CountInv, blockVars
      <3>2. QED
        BY <2>2, <3>1 DEF CountInv
    <2>4. CASE lock > 0
      <3>1. \A s \in Thread : Owns(s)' <=> Owns(s)
        BY <1>0, <1>5, <2>4 DEF FetchAdd, Goto, Owns, blockVars
      <3>2. QED
        BY <1>0, <2>2, <2>4, <3>1 DEF CountInv
    <2>5. QED
      BY <1>0, <2>3, <2>4
  <1>6. ASSUME NEW t \in Thread, Scheduled(t) PROVE CountInv'
    <2>1. t \in unblocked
      BY <1>6 DEF Scheduled, Goto, schedule, Selected, IInv, ListInv, Blocking
    <2>2. QED
      BY <1>0, <1>6, <2>1, CountSame DEF Scheduled, Goto, schedule, Counted, Owns
  <1>7. ASSUME NEW t \in Thread, Cleanup(t) PROVE CountInv'
    BY <1>0, <1>7, CountSame DEF Cleanup, Goto, blockpoint_cleanup, Counted, Owns
  <1>8. ASSUME NEW t \in Thread, TakeOwnership(t) PROVE CountInv'
    BY <1>0, <1>8, CountSame DEF TakeOwnership, Goto, blockVars, Counted, Owns
  <1>9. ASSUME NEW t \in Thread, Release(t) PROVE CountInv'
    BY <1>0, <1>9, CountSame DEF Release, Goto, blockVars, Counted, Owns
  <1>10. ASSUME NEW t \in Thread, FetchSub(t) PROVE CountInv'
    <2>1. t \in Counted /\ Counted' = Counted \ {t}
      BY <1>0, <1>10 DEF FetchSub, Goto, Counted, Idle
    <2>2. IsFiniteSet(Counted') /\ lock' = Cardinality(Counted')
      BY <1>0, <1>10, <2>1, FS_RemoveElement DEF FetchSub, CountInv
    <2>3. Owns(t) /\ lock > 0
      BY <1>0, <1>10 DEF FetchSub, Goto, Owns, CountInv
    <2>4. CASE lock = 1
      <3>1. \A s \in Thread : ~Owns(s)'
        BY <1>0, <1>10, <2>3, <2>4 DEF FetchSub, Goto, Owns, CountInv, Idle, blockVars
      <3>2. QED
        BY <1>0, <1>10, <2>2, <2>4, <3>1 DEF CountInv, FetchSub
    <2>5. CASE lock # 1
      <3>1. \A s \in Thread : Owns(s)' <=> Owns(s)
        BY <1>0, <1>10, <2>5 DEF FetchSub, Goto, Owns, blockVars
      <3>2. lock' > 0
        BY <1>0, <1>10, <2>3, <2>5 DEF FetchSub
      <3>3. QED
        BY <1>0, <2>2, <2>3, <3>1, <3>2 DEF CountInv
    <2>6. QED
      BY <2>4, <2>5
  <1>11. ASSUME NEW t \in Thread, UnblockOne(t) PROVE CountInv'
    <2>1. Owns(t) /\ lock > 0
      BY <1>0, <1>11 DEF UnblockOne, Goto, Owns, CountInv
    <2>2. Sleeping("wait") # {}
      BY <1>11, HandOff DEF UnblockOne, Goto, HandOffFindsWaiter
    <2>3. PICK i \in Sleeping("wait") : blockpoint_unblock({waitlist["wait"][i]})
      BY <1>11, <2>2 DEF UnblockOne, blocklist_unblock_one
    <2> DEFINE u == waitlist["wait"][i]
    <2>4. u \in Thread /\ Blocking(u)
      BY <2>3 DEF Sleeping, Members, IInv, ListInv
    <2>5. u # t
      BY <1>11, <2>4 DEF Blocking, UnblockOne, Goto
    <2>6. \A s \in Thread : Owns(s)' <=> s = u
      BY <1>0, <1>11, <2>1, <2>3, <2>4, <2>5
         DEF UnblockOne, Goto, blockpoint_unblock, Owns, Blocking, CountInv, Idle
    <2>7. Counted' = Counted /\ lock' = lock
      BY <1>0, <1>11 DEF UnblockOne, Goto, Counted, Idle
    <2>8. QED
      BY <1>0, <2>1, <2>4, <2>6, <2>7 DEF CountInv
  <1>12. ASSUME NEW t \in Thread, Preempted(t) PROVE CountInv'
    BY <1>0, <1>12, CountSame DEF Preempted, preempt, mutexVars, Counted, Owns
  <1>13. ASSUME NEW t \in Thread, StaleEntry(t) PROVE CountInv'
    BY <1>0, <1>13, CountSame DEF StaleEntry, select_idle, mutexVars, Counted, Owns
  <1>14. ASSUME NEW t \in Thread, Signal(t) PROVE CountInv'
    BY <1>0, <1>14, CountSame DEF Signal, thread_send_signal, mutexVars, Counted, Owns
  <1>15. CASE UNCHANGED vars
    BY <1>0, <1>15, CountSame DEF vars, blockVars, mutexVars, Counted, Owns
  <1>16. QED
    BY <1>1, <1>2, <1>3, <1>4, <1>5, <1>6, <1>7, <1>8, <1>9, <1>10, <1>11, <1>12,
       <1>13, <1>14, <1>15 DEF Next, Step

\* mutex->owner is the thread in its critical section.
LEMMA OwnerStep == IInv /\ [Next]_vars => OwnerInv'
  <1> SUFFICES ASSUME IInv, [Next]_vars PROVE OwnerInv'
    OBVIOUS
  <1>0. /\ OwnerInv /\ pc \in [Thread -> PC] /\ owner \in Thread \cup {NULL}
        /\ \A s, t \in Thread : Owns(s) /\ Owns(t) => s = t
    BY DEF IInv, TypeOK, CountInv
  <1> USE NoOwner DEF OwnerInv, Goto, Idle
  <1>1. ASSUME NEW t \in Thread, Acquire(t) PROVE OwnerInv'
    BY <1>0, <1>1 DEF Acquire
  <1>2. ASSUME NEW t \in Thread, SpinTakes(t) PROVE OwnerInv'
    BY <1>0, <1>2 DEF SpinTakes
  <1>3. ASSUME NEW t \in Thread, SpinGivesUp(t) PROVE OwnerInv'
    BY <1>0, <1>3 DEF SpinGivesUp
  <1>4. ASSUME NEW t \in Thread, StartBlock(t) PROVE OwnerInv'
    BY <1>0, <1>4 DEF StartBlock
  <1>5. ASSUME NEW t \in Thread, FetchAdd(t) PROVE OwnerInv'
    BY <1>0, <1>5 DEF FetchAdd
  <1>6. ASSUME NEW t \in Thread, Scheduled(t) PROVE OwnerInv'
    BY <1>0, <1>6 DEF Scheduled
  <1>7. ASSUME NEW t \in Thread, Cleanup(t) PROVE OwnerInv'
    BY <1>0, <1>7 DEF Cleanup
  <1>8. ASSUME NEW t \in Thread, TakeOwnership(t) PROVE OwnerInv'
    BY <1>0, <1>8 DEF TakeOwnership, Owns
  <1>9. ASSUME NEW t \in Thread, Release(t) PROVE OwnerInv'
    BY <1>0, <1>9 DEF Release, Owns
  <1>10. ASSUME NEW t \in Thread, FetchSub(t) PROVE OwnerInv'
    BY <1>0, <1>10 DEF FetchSub
  <1>11. ASSUME NEW t \in Thread, UnblockOne(t) PROVE OwnerInv'
    BY <1>0, <1>11 DEF UnblockOne
  <1>12. ASSUME NEW t \in Thread, Preempted(t) \/ StaleEntry(t) \/ Signal(t) PROVE OwnerInv'
    BY <1>0, <1>12 DEF Preempted, StaleEntry, Signal, mutexVars
  <1>13. CASE UNCHANGED vars
    BY <1>0, <1>13 DEF vars, mutexVars
  <1>14. QED
    BY <1>1, <1>2, <1>3, <1>4, <1>5, <1>6, <1>7, <1>8, <1>9, <1>10, <1>11, <1>12,
       <1>13 DEF Next, Step

\* The inductive invariant of the mutex holds for any number of threads.
THEOREM Invariance == Spec => []IInv
  <1>1. IInv /\ [Next]_vars => IInv'
    BY TypeStep, ListStep, CountStep, OwnerStep DEF IInv
  <1>2. QED
    BY InitIInv, <1>1, PTL DEF Spec

\* Type correctness.
THEOREM TypeCorrect == Spec => []TypeOK
  <1>1. IInv => TypeOK
    BY DEF IInv
  <1>2. QED
    BY Invariance, <1>1, PTL

\* At most one thread is between mutex_acquire and mutex_release.
THEOREM Exclusion == Spec => []MutualExclusion
  <1>1. IInv => MutualExclusion
    BY DEF IInv, CountInv, MutualExclusion, Holds, Owns
  <1>2. QED
    BY Invariance, <1>1, PTL

\* The ownership assertions of mutex_acquire and mutex_release never fail.
THEOREM OwnerAssertsHold == Spec => []OwnerAsserts
  <1>1. ASSUME IInv, NEW t \in Thread, pc[t] = "acquired" PROVE owner = NULL
    BY <1>1 DEF IInv, TypeOK, CountInv, OwnerInv, Owns
  <1>2. IInv => OwnerAsserts
    BY <1>1 DEF IInv, OwnerInv, OwnerAsserts
  <1>3. QED
    BY Invariance, <1>2, PTL

\* The hand-off of mutex_release always reaches a waiter.
THEOREM HandOffNeverLost == Spec => []HandOffFindsWaiter
  BY Invariance, HandOff, PTL

\* Both together: nothing that mutex.c asserts, or that a release relies on,
\* ever fails.
THEOREM AssertionsNeverFail == Spec => []AssertionsHold
  <1>1. OwnerAsserts /\ HandOffFindsWaiter => AssertionsHold
    BY DEF AssertionsHold
  <1>2. QED
    BY OwnerAssertsHold, HandOffNeverLost, <1>1, PTL

\* A thread that sleeps in mutex_acquire is woken by a hand-off and by
\* nothing else: not by signals, not by stale run-queue entries.
THEOREM OnlyHandOffWakes == Spec => WokenByHandOff
  <1> DEFINE A == \A t \in Thread :
                     pc[t] = "schedule" /\ pc'[t] # "schedule" => t \in unblocked
  <1>1. IInv /\ [Next]_vars => [A]_vars
    <2> SUFFICES ASSUME IInv, [Next]_vars,
                        NEW t \in Thread, pc[t] = "schedule", pc'[t] # "schedule"
                 PROVE  t \in unblocked
      OBVIOUS
    <2>1. Scheduled(t)
      <3>1. pc \in [Thread -> PC]
        BY DEF IInv, TypeOK
      <3>2. pc' # pc
        OBVIOUS
      <3>3. PICK s \in Thread : Acquire(s) \/ Step(s)
        BY <3>2 DEF Next, Preempted, StaleEntry, Signal, mutexVars, vars
      <3>4. \E to : pc' = [pc EXCEPT ![s] = to]
        BY <3>3 DEF Step, Acquire, SpinTakes, SpinGivesUp, StartBlock, FetchAdd, Scheduled,
                    Cleanup, TakeOwnership, Release, FetchSub, UnblockOne, Goto
      <3>5. s = t
        BY <3>1, <3>4
      <3>6. QED
        BY <3>3, <3>5 DEF Step, Acquire, SpinTakes, SpinGivesUp, StartBlock, FetchAdd,
                    Cleanup, TakeOwnership, Release, FetchSub, UnblockOne, Goto, Idle
    <2>2. QED
      BY <2>1 DEF Scheduled, schedule, Selected, IInv, ListInv, Blocking
  <1>2. QED
    BY Invariance, <1>1, PTL DEF Spec, WokenByHandOff

-----------------------------------------------------------------------------
(***************************************************************************)
(* The mutex implements the abstract lock.                                 *)
(***************************************************************************)

\* The refinement mapping: the abstract holder is the thread that holds.
HolderMap ==
    /\ \A t \in Thread : holder = t <=> Holds(t)
    /\ holder = NULL <=> \A t \in Thread : ~Holds(t)
    /\ holder \in Thread \cup {NULL}

\* The invariant makes the holder unique, so the mapping is well defined.
LEMMA HolderIs == IInv => HolderMap
  <1> SUFFICES ASSUME IInv PROVE HolderMap
    OBVIOUS
  <1>1. \A s, t \in Thread : Holds(s) /\ Holds(t) => s = t
    BY DEF IInv, CountInv, Holds, Owns
  <1>2. CASE \E t \in Thread : Holds(t)
    <2>1. PICK t \in Thread : Holds(t)
      BY <1>2
    <2>2. holder = t
      BY <1>1, <2>1 DEF holder
    <2>3. QED
      BY <1>1, <2>1, <2>2, NoOwner DEF HolderMap
  <1>3. CASE ~\E t \in Thread : Holds(t)
    BY <1>3, NoOwner DEF holder, HolderMap
  <1>4. QED
    BY <1>2, <1>3

\* A step that changes neither who holds nor who wants the mutex is invisible.
LEMMA Invisible ==
    ASSUME HolderMap, HolderMap', want' = want,
           \A t \in Thread : Holds(t)' <=> Holds(t)
    PROVE  UNCHANGED LockOf!lvars
  <1>1. holder' = holder
    BY DEF HolderMap
  <1>2. QED
    BY <1>1 DEF LockOf!lvars

\* Every step of mutex_acquire and mutex_release is a request, a grant or a
\* release of the abstract lock, or is invisible to its callers.
THEOREM Refinement == Spec => ImplementsLock
  <1>1. Init => LockOf!LInit
    <2> SUFFICES ASSUME Init PROVE LockOf!LInit
      OBVIOUS
    <2>1. want = {}
      BY DEF Init, want, Idle
    <2>2. holder = NULL
      BY InitIInv, HolderIs DEF HolderMap, Init, Holds, Idle
    <2>3. QED
      BY <2>1, <2>2 DEF LockOf!LInit
  <1>2. IInv /\ IInv' /\ HolderMap /\ HolderMap' /\ [Next]_vars
          => [LockOf!LNext]_(LockOf!lvars)
    <2> SUFFICES ASSUME IInv, IInv', HolderMap, HolderMap', [Next]_vars
                 PROVE  LockOf!LNext \/ UNCHANGED LockOf!lvars
      BY DEF LockOf!lvars
    <2>0. /\ pc \in [Thread -> PC] /\ pc' \in [Thread -> PC]
          /\ \A s, t \in Thread : Owns(s) /\ Owns(t) => s = t
      BY DEF IInv, TypeOK, CountInv
    <2>1. ASSUME NEW t \in Thread, Acquire(t) PROVE LockOf!Request(t)
      <3>1. t \notin want /\ want' = want \cup {t} /\ ~Holds(t)
        BY <2>0, <2>1 DEF Acquire, Goto, want, Idle, Holds
      <3>2. \A s \in Thread : Holds(s)' <=> Holds(s)
        BY <2>0, <2>1 DEF Acquire, Goto, Holds, Idle
      <3>3. holder' = holder /\ holder # t
        BY NoOwner, <3>1, <3>2 DEF HolderMap
      <3>4. QED
        BY <3>1, <3>3 DEF LockOf!Request
    <2>2. ASSUME NEW t \in Thread, SpinTakes(t) \/ Cleanup(t) PROVE LockOf!Grant(t)
      <3>1. t \in want /\ want' = want \ {t} /\ Holds(t)'
        BY <2>0, <2>2 DEF SpinTakes, Cleanup, Goto, want, Holds
      <3>2. \A s \in Thread : ~Holds(s)
        <4>1. CASE SpinTakes(t)
          BY <4>1 DEF SpinTakes, IInv, TypeOK, CountInv, Owns, Holds
        <4>2. CASE Cleanup(t)
          BY <2>0, <4>2 DEF Cleanup, Goto, Owns, Holds
        <4>3. QED
          BY <2>2, <4>1, <4>2
      <3>3. holder = NULL /\ holder' = t
        BY NoOwner, <3>1, <3>2 DEF HolderMap
      <3>4. QED
        BY <3>1, <3>3 DEF LockOf!Grant
    <2>3. ASSUME NEW t \in Thread, FetchSub(t) PROVE LockOf!Free(t)
      <3>1. want' = want /\ Holds(t)
        BY <2>0, <2>3 DEF FetchSub, Goto, want, Holds, Idle
      <3>2. \A s \in Thread : ~Holds(s)'
        BY <2>0, <2>3 DEF FetchSub, Goto, Owns, Holds, Idle
      <3>3. holder = t /\ holder' = NULL
        BY NoOwner, <3>1, <3>2 DEF HolderMap
      <3>4. QED
        BY <3>1, <3>3 DEF LockOf!Free
    <2>4. ASSUME NEW t \in Thread,
                 \/ SpinGivesUp(t) \/ StartBlock(t) \/ FetchAdd(t) \/ Scheduled(t)
                 \/ TakeOwnership(t) \/ Release(t) \/ UnblockOne(t)
          PROVE  UNCHANGED LockOf!lvars
      <3>1. \A s \in Thread : Holds(s)' <=> Holds(s)
        BY <2>0, <2>4 DEF SpinGivesUp, StartBlock, FetchAdd, Scheduled, TakeOwnership,
                          Release, UnblockOne, Goto, Holds, Idle
      <3>2. want' = want
        BY <2>0, <2>4 DEF SpinGivesUp, StartBlock, FetchAdd, Scheduled, TakeOwnership,
                          Release, UnblockOne, Goto, want, Idle
      <3>3. QED
        BY <3>1, <3>2, Invisible
    <2>5. ASSUME pc' = pc PROVE UNCHANGED LockOf!lvars
      BY <2>5, Invisible DEF want, Holds
    <2>6. QED
      BY <2>1, <2>2, <2>3, <2>4, <2>5
         DEF Next, Step, Preempted, StaleEntry, Signal, mutexVars, vars, LockOf!LNext
  <1>3. QED
    BY Invariance, HolderIs, <1>1, <1>2, PTL DEF Spec, ImplementsLock, LockOf!LSafety
=============================================================================
