----------------------------- MODULE FutexProofs -----------------------------
(***************************************************************************)
(* The futex calls keep to one object for the address, leave no blockpoint *)
(* or timer behind, and lose no wake-up, whatever the numbers of waiters   *)
(* and wakers.                                                             *)
(***************************************************************************)
EXTENDS Futex, BlocklistProofs, FiniteSetTheorems

\* The time limits of the provers, in seconds.
USE SMTT(30), ZenonT(30)

-----------------------------------------------------------------------------
(***************************************************************************)
(* The futex object.                                                       *)
(***************************************************************************)

Users(f) == {t \in Thread : obj[t] = f}

\* The users of an object are finitely many.
LEMMA UsersFinite ==
    ASSUME NEW f
    PROVE  /\ IsFiniteSet(Users(f))
           /\ Cardinality(Users(f)) \in 0..Cardinality(Thread)
           /\ Cardinality(Thread) \in Nat
  <1>1. Users(f) \in SUBSET Thread
    BY DEF Users
  <1>2. IsFiniteSet(Users(f)) /\ Cardinality(Users(f)) <= Cardinality(Thread)
    BY <1>1, ThreadsFinite, FS_Subset
  <1>3. Cardinality(Users(f)) \in Nat /\ Cardinality(Thread) \in Nat
    BY <1>2, ThreadsFinite, FS_CardinalityType
  <1>4. QED
    BY <1>2, <1>3

\* A thread that enters a call gets the object that everybody uses.
LEMMA GetFutex ==
    ASSUME TypeOK, OneObject, NEW t \in Thread, obj[t] = NULL, NEW alloc, get_futex(t, alloc)
    PROVE  /\ OneObject'
           /\ map' \in FutexObj
           /\ refs' \in [FutexObj -> 0..Cardinality(Thread)]
           /\ obj' = [obj EXCEPT ![t] = map']
  <1>1. PICK f \in FutexObj :
          /\ IF map = NULL THEN alloc /\ refs[f] = 0 ELSE f = map
          /\ map' = f
          /\ refs' = [refs EXCEPT ![f] = @ + 1]
          /\ obj' = [obj EXCEPT ![t] = f]
    BY ZenonT(40) DEF get_futex
  <1>2. f # NULL
    BY NoFutex DEF FutexObj
  <1>3. /\ obj'[t] = f
        /\ \A u \in Thread \ {t} : obj'[u] = obj[u]
    BY <1>1 DEF TypeOK
  <1>4. \A u \in Thread : obj'[u] # NULL => obj'[u] = map'
    BY <1>1, <1>2, <1>3 DEF OneObject
  <1>5. /\ Users(f)' = Users(f) \cup {t} /\ t \notin Users(f)
        /\ \A g \in FutexObj \ {f} : Users(g)' = Users(g)
    <2>1. \A g \in FutexObj : g # NULL
      BY NoFutex DEF FutexObj
    <2>2. QED
      BY <1>2, <1>3, <2>1 DEF Users
  <1>6. /\ refs'[f] = refs[f] + 1
        /\ \A g \in FutexObj \ {f} : refs'[g] = refs[g]
        /\ DOMAIN refs' = FutexObj
    BY <1>1 DEF TypeOK
  <1>7. \A g \in FutexObj : refs[g] = Cardinality(Users(g))
    BY ZenonT(40) DEF OneObject, Users
  <1>8. Cardinality(Users(f)') = Cardinality(Users(f)) + 1
    BY <1>5, UsersFinite, FS_AddElement, ZenonT(40)
  <1>9. \A g \in FutexObj : refs'[g] = Cardinality(Users(g)')
    BY <1>5, <1>6, <1>7, <1>8
  <1>10. \A g \in FutexObj : refs'[g] \in 0..Cardinality(Thread)
    <2>1. ASSUME NEW g \in FutexObj PROVE Cardinality(Users(g)') \in 0..Cardinality(Thread)
      <3>1. Users(g)' \in SUBSET Thread
        BY DEF Users
      <3>2. IsFiniteSet(Users(g)') /\ Cardinality(Users(g)') <= Cardinality(Thread)
        BY <3>1, ThreadsFinite, FS_Subset
      <3>3. QED
        BY <3>2, ThreadsFinite, FS_CardinalityType
    <2>2. QED
      BY <1>9, <2>1
  <1>11. refs' \in [FutexObj -> 0..Cardinality(Thread)]
    BY <1>1, <1>10 DEF TypeOK
  <1>12. OneObject'
    BY <1>4, <1>9 DEF OneObject, Users
  <1>13. QED
    BY <1>1, <1>11, <1>12

\* The last thread to leave takes the object out of the hash.
LEMMA DropFutex ==
    ASSUME TypeOK, OneObject, NEW t \in Thread, obj[t] # NULL, drop_futex(t)
    PROVE  /\ OneObject'
           /\ map' \in FutexObj \cup {NULL}
           /\ refs' \in [FutexObj -> 0..Cardinality(Thread)]
           /\ obj' = [obj EXCEPT ![t] = NULL]
  <1>1. PICK f \in FutexObj : f = obj[t] /\ f = map
    BY ZenonT(40) DEF TypeOK, OneObject
  <1>2. /\ refs' = [refs EXCEPT ![f] = @ - 1]
        /\ map' = IF refs'[f] = 0 THEN NULL ELSE map
        /\ obj' = [obj EXCEPT ![t] = NULL]
    BY <1>1 DEF drop_futex
  <1>3. /\ obj'[t] = NULL
        /\ \A u \in Thread \ {t} : obj'[u] = obj[u]
    BY <1>2 DEF TypeOK
  <1>5. /\ Users(f)' = Users(f) \ {t} /\ t \in Users(f)
        /\ \A g \in FutexObj \ {f} : Users(g)' = Users(g)
    <2>1. \A g \in FutexObj : g # NULL
      BY NoFutex DEF FutexObj
    <2>2. QED
      BY <1>1, <1>3, <2>1, ZenonT(40) DEF Users
  <1>6. /\ refs'[f] = refs[f] - 1
        /\ \A g \in FutexObj \ {f} : refs'[g] = refs[g]
    BY <1>2 DEF TypeOK
  <1>7. \A g \in FutexObj : refs[g] = Cardinality(Users(g))
    BY ZenonT(40) DEF OneObject, Users
  <1>8. Cardinality(Users(f)') = Cardinality(Users(f)) - 1
    BY <1>5, UsersFinite, FS_RemoveElement, ZenonT(40)
  <1>9. \A g \in FutexObj : refs'[g] = Cardinality(Users(g)')
    BY <1>5, <1>6, <1>7, <1>8
  <1>f. \A g \in FutexObj : IsFiniteSet(Users(g)') /\ Cardinality(Users(g)') \in 0..Cardinality(Thread)
    <2>1. ASSUME NEW g \in FutexObj
          PROVE  IsFiniteSet(Users(g)') /\ Cardinality(Users(g)') \in 0..Cardinality(Thread)
      <3>1. Users(g)' \in SUBSET Thread
        BY DEF Users
      <3>2. IsFiniteSet(Users(g)') /\ Cardinality(Users(g)') <= Cardinality(Thread)
        BY <3>1, ThreadsFinite, FS_Subset
      <3>3. QED
        BY <3>2, ThreadsFinite, FS_CardinalityType
    <2>2. QED
      BY <2>1
  <1>10. refs' \in [FutexObj -> 0..Cardinality(Thread)]
    BY <1>2, <1>9, <1>f DEF TypeOK
  <1>11. ASSUME NEW u \in Thread, obj'[u] # NULL PROVE obj'[u] = map'
    <2>1. obj'[u] = f /\ u \in Users(f)'
      BY <1>1, <1>3, <1>11 DEF OneObject, Users
    <2>2. refs'[f] # 0
      BY <1>9, <1>f, <2>1, FS_EmptySet
    <2>3. QED
      BY <1>1, <1>2, <2>1, <2>2
  <1>12. OneObject'
    BY <1>9, <1>11 DEF OneObject, Users
  <1>13. QED
    BY <1>1, <1>2, <1>10, <1>12 DEF TypeOK

-----------------------------------------------------------------------------
(***************************************************************************)
(* The steps of the waiters.                                               *)
(***************************************************************************)

\* In the initial state nobody is in a call.
LEMMA InitFutexInv == Init => FutexInv
  <1> SUFFICES ASSUME Init PROVE FutexInv
    OBVIOUS
  <1>1. /\ waitlist = [bl \in BlockList |-> << >>]
        /\ unblocked = {} /\ armed = {} /\ firing = {} /\ map = NULL
        /\ \A t \in Thread : pc[t] = "user" /\ obj[t] = NULL
        /\ \A f \in FutexObj : refs[f] = 0
    BY DEF Init, BlockInit
  <1>2. TypeOK
    <2>1. BlockTypeOK
      BY DEF Init, BlockInit, BlockTypeOK, ThreadState, BlockResult
    <2>2. Cardinality(Thread) \in Nat
      BY ThreadsFinite, FS_CardinalityType
    <2>3. QED
      BY <2>1, <2>2 DEF Init, TypeOK, WaitPC, WakePC
  <1>3. Inside /\ Queued /\ TimerWithinWait
    BY <1>1, Threads DEF Inside, Queued, TimerWithinWait, WaitPC, WakePC
  <1>4. OneObject
    <2>1. \A f \in FutexObj : {t \in Thread : obj[t] = f} = {}
      BY <1>1, NoFutex DEF FutexObj
    <2>2. QED
      BY <1>1, <2>1, FS_EmptySet, ZenonT(40) DEF OneObject
  <1>5. ListedWhileBlocking
    <2>1. \A f \in FutexObj : waitlist[f] = << >> /\ Len(waitlist[f]) = 0
      BY <1>1 DEF FutexObj
    <2>2. \A f \in FutexObj : Members(waitlist[f]) = {} /\ NoDuplicates(waitlist[f])
      BY <2>1 DEF Members, NoDuplicates
    <2>3. QED
      BY <1>1, <2>2, Threads DEF ListedWhileBlocking, Blocking
  <1>6. QED
    BY <1>2, <1>3, <1>4, <1>5 DEF FutexInv, ObjectsContained

\* A waiter enters: get_futex.
LEMMA WaitStep ==
    ASSUME FutexInv, NEW t \in Thread, Wait(t) PROVE FutexInv'
  <1>0. /\ TypeOK /\ t \in Waiter /\ pc[t] = "user" /\ pc' = [pc EXCEPT ![t] = "startblock"]
        /\ get_futex(t, TRUE)
        /\ UNCHANGED <<blockVars, word, num, armed, firing>>
        /\ obj[t] = NULL
    BY ZenonT(40) DEF FutexInv, Wait, Goto, Inside
  <1>1. /\ OneObject'
        /\ map' \in FutexObj
        /\ refs' \in [FutexObj -> 0..Cardinality(Thread)]
        /\ obj' = [obj EXCEPT ![t] = map']
    BY <1>0, GetFutex, ZenonT(40) DEF FutexInv, ObjectsContained
  <1>2. map' # NULL
    BY <1>1, NoFutex DEF FutexObj
  <1>3. TypeOK'
    BY <1>0, <1>1 DEF TypeOK, BlockTypeOK, blockVars, WaitPC
  <1>4. Inside' /\ Queued'
    BY <1>0, <1>1, <1>2, Threads DEF FutexInv, TypeOK, Inside, Queued, WaitPC, blockVars
  <1>5. ListedWhileBlocking' /\ TimerWithinWait'
    <2>1. \A u \in Thread : pc'[u] \in Blocking => pc[u] \in Blocking /\ obj'[u] = obj[u]
      BY <1>0, <1>1 DEF TypeOK, Blocking
    <2>2. \A u \in Thread : pc[u] \in Blocking => pc'[u] \in Blocking /\ obj'[u] = obj[u]
      BY <1>0, <1>1 DEF TypeOK, Blocking
    <2>3. TimerWithinWait'
      BY <1>0, WaiterKinds, Threads DEF FutexInv, ObjectsContained, TimerWithinWait, TypeOK
    <2>4. QED
      BY <1>0, <2>1, <2>2, <2>3, Threads
      DEF FutexInv, ObjectsContained, ListedWhileBlocking, blockVars
  <1>6. QED
    BY <1>1, <1>3, <1>4, <1>5 DEF FutexInv, ObjectsContained

\* blockpoint_startblock puts the waiter on the list of its object.
LEMMA StartBlockStep ==
    ASSUME FutexInv, NEW t \in Thread, StartBlock(t) PROVE FutexInv'
  <1>0. /\ TypeOK /\ pc[t] = "startblock"
        /\ pc' = [pc EXCEPT ![t] = IF t \in Timed THEN "timer_add" ELSE "load"]
        /\ blockpoint_startblock(t, obj[t], {})
        /\ UNCHANGED <<word, map, refs, obj, num, armed, firing>>
    BY DEF FutexInv, StartBlock, Goto
  <1>1. PICK f \in FutexObj : f = obj[t]
    BY <1>0 DEF FutexInv, TypeOK, Inside
  <1>2. t \in Waiter
    BY <1>0, Threads DEF FutexInv, Inside, WakePC
  <1>3. /\ BlockTypeOK /\ f \in BlockList /\ NoDuplicates(waitlist[f]) /\ t \notin Members(waitlist[f])
    BY <1>0, <1>1 DEF FutexInv, ObjectsContained, ListedWhileBlocking, TypeOK, FutexObj, Blocking
  <1>4. /\ BlockTypeOK'
        /\ NoDuplicates(waitlist'[f])
        /\ Members(waitlist'[f]) = Members(waitlist[f]) \cup {t}
        /\ \A b \in BlockList \ {f} : waitlist'[b] = waitlist[b]
    BY <1>0, <1>1, <1>3, StartBlockLists, ZenonT(40)
  <1>5. TypeOK'
    BY <1>0, <1>4 DEF TypeOK, WaitPC
  <1>6. Inside' /\ Queued' /\ TimerWithinWait'
    BY <1>0, <1>2, Threads, WaiterKinds
    DEF FutexInv, TypeOK, ObjectsContained, Inside, Queued, TimerWithinWait, WaitPC, WakePC, blockpoint_startblock
  <1>7. ListedWhileBlocking'
    <2>1. \A u \in Thread \ {t} : pc'[u] = pc[u]
      BY <1>0 DEF TypeOK
    <2>2. pc'[t] \in Blocking
      BY <1>0 DEF TypeOK, Blocking
    <2>3. QED
      BY <1>0, <1>1, <1>2, <1>4, <2>1, <2>2, Threads
      DEF FutexInv, ObjectsContained, ListedWhileBlocking, FutexObj
  <1>8. OneObject'
    BY <1>0 DEF FutexInv, ObjectsContained, OneObject
  <1>9. QED
    BY <1>5, <1>6, <1>7, <1>8 DEF FutexInv, ObjectsContained

\* The steps of a waiter that only move it on, or its timer.
LEMMA MoveStep ==
    ASSUME FutexInv, NEW t \in Thread, TimerAdd(t) \/ Load(t) \/ TimerRemove(t) PROVE FutexInv'
  <1>0. /\ TypeOK
        /\ UNCHANGED <<blockVars, word, map, refs, obj, num, firing>>
        /\ \E to \in WaitPC : pc' = [pc EXCEPT ![t] = to]
    BY DEF FutexInv, TimerAdd, Load, TimerRemove, Goto, WaitPC
  <1>1. t \in Waiter
    BY Threads DEF FutexInv, Inside, TimerAdd, Load, TimerRemove, Goto, WakePC
  <1>t. pc[t] \in {"timer_add", "timer_remove"} => t \in Timed
    BY DEF FutexInv, Inside
  <1>2. TypeOK'
    BY <1>0, <1>t DEF TypeOK, BlockTypeOK, blockVars, TimerAdd, Load, TimerRemove, Goto
  <1>3. OneObject'
    BY <1>0 DEF FutexInv, ObjectsContained, OneObject
  <1>4. CASE TimerAdd(t)
    <2>1. Inside' /\ Queued' /\ TimerWithinWait'
      BY <1>0, <1>1, <1>4, Threads
      DEF FutexInv, TypeOK, ObjectsContained, Inside, Queued, TimerWithinWait, WaitPC, blockVars, TimerAdd, Goto
    <2>2. \A u \in Thread : pc'[u] \in Blocking <=> pc[u] \in Blocking
      BY <1>4 DEF FutexInv, TypeOK, TimerAdd, Goto, Blocking
    <2>3. ListedWhileBlocking'
      BY <1>0, <2>2, Threads DEF FutexInv, ObjectsContained, ListedWhileBlocking, blockVars
    <2>4. QED
      BY <1>2, <1>3, <2>1, <2>3 DEF FutexInv, ObjectsContained
  <1>5. CASE Load(t)
    <2>1. Inside' /\ Queued' /\ TimerWithinWait'
      BY <1>0, <1>1, <1>5, Threads
      DEF FutexInv, TypeOK, ObjectsContained, Inside, Queued, TimerWithinWait, WaitPC, blockVars, Load, Goto
    <2>2. \A u \in Thread : pc'[u] \in Blocking <=> pc[u] \in Blocking
      BY <1>5 DEF FutexInv, TypeOK, Load, Goto, Blocking
    <2>3. ListedWhileBlocking'
      BY <1>0, <2>2, Threads DEF FutexInv, ObjectsContained, ListedWhileBlocking, blockVars
    <2>4. QED
      BY <1>2, <1>3, <2>1, <2>3 DEF FutexInv, ObjectsContained
  <1>6. CASE TimerRemove(t)
    <2>1. Inside' /\ Queued' /\ TimerWithinWait'
      BY <1>0, <1>1, <1>6, Threads
      DEF FutexInv, TypeOK, ObjectsContained, Inside, Queued, TimerWithinWait, WaitPC, blockVars, TimerRemove, Goto
    <2>2. \A u \in Thread : pc'[u] \in Blocking <=> pc[u] \in Blocking
      BY <1>6 DEF FutexInv, TypeOK, TimerRemove, Goto, Blocking
    <2>3. ListedWhileBlocking'
      BY <1>0, <2>2, Threads DEF FutexInv, ObjectsContained, ListedWhileBlocking, blockVars
    <2>4. QED
      BY <1>2, <1>3, <2>1, <2>3 DEF FutexInv, ObjectsContained
  <1>7. QED
    BY <1>4, <1>5, <1>6

\* schedule() returns to a waiter, which goes on to clean up.
LEMMA ScheduledStep ==
    ASSUME FutexInv, NEW t \in Thread, Scheduled(t) PROVE FutexInv'
  <1>0. /\ TypeOK /\ pc[t] = "schedule" /\ pc' = [pc EXCEPT ![t] = "cleanup"]
        /\ onqueue' = onqueue \ {t} /\ UNCHANGED <<waitlist, unblocked>>
        /\ UNCHANGED <<word, map, refs, obj, num, armed, firing>>
    BY DEF FutexInv, Scheduled, Goto, schedule
  <1>1. BlockTypeOK'
    BY <1>0, StateTypes DEF Scheduled, TypeOK
  <1>2. TypeOK' /\ OneObject'
    BY <1>0, <1>1 DEF FutexInv, ObjectsContained, OneObject, TypeOK, WaitPC
  <1>3. Inside' /\ Queued' /\ TimerWithinWait'
    BY <1>0, Threads
    DEF FutexInv, TypeOK, ObjectsContained, Inside, Queued, TimerWithinWait, WaitPC, WakePC
  <1>4. \A u \in Thread : pc'[u] \in Blocking <=> pc[u] \in Blocking
    BY <1>0 DEF TypeOK, Blocking
  <1>5. ListedWhileBlocking'
    BY <1>0, <1>4, Threads DEF FutexInv, ObjectsContained, ListedWhileBlocking
  <1>6. QED
    BY <1>2, <1>3, <1>5 DEF FutexInv, ObjectsContained

\* blockpoint_cleanup takes the waiter off the list.
LEMMA CleanupStep ==
    ASSUME FutexInv, NEW t \in Thread, Cleanup(t) PROVE FutexInv'
  <1>0. /\ TypeOK /\ pc[t] = "cleanup"
        /\ pc' = [pc EXCEPT ![t] = IF t \in Timed THEN "timer_remove" ELSE "drop"]
        /\ blockpoint_cleanup(t, obj[t])
        /\ UNCHANGED <<word, map, refs, obj, num, armed, firing>>
    BY DEF FutexInv, Cleanup, Goto
  <1>1. PICK f \in FutexObj : f = obj[t]
    BY <1>0 DEF FutexInv, TypeOK, Inside
  <1>2. t \in Waiter
    BY <1>0, Threads DEF FutexInv, Inside, WakePC
  <1>3. /\ BlockTypeOK /\ f \in BlockList /\ NoDuplicates(waitlist[f]) /\ t \in Members(waitlist[f])
    BY <1>0, <1>1, <1>2 DEF FutexInv, ObjectsContained, ListedWhileBlocking, TypeOK, FutexObj, Blocking
  <1>4. /\ BlockTypeOK'
        /\ NoDuplicates(waitlist'[f])
        /\ Members(waitlist'[f]) = Members(waitlist[f]) \ {t}
        /\ \A b \in BlockList \ {f} : waitlist'[b] = waitlist[b]
    BY <1>0, <1>1, <1>3, CleanupLists
  <1>5. TypeOK' /\ OneObject'
    BY <1>0, <1>4 DEF TypeOK, WaitPC, FutexInv, ObjectsContained, OneObject
  <1>6. Inside' /\ Queued' /\ TimerWithinWait'
    BY <1>0, <1>2, Threads
    DEF FutexInv, TypeOK, ObjectsContained, Inside, Queued, TimerWithinWait, WaitPC, WakePC, blockpoint_cleanup
  <1>7. ListedWhileBlocking'
    <2>1. \A u \in Thread \ {t} : pc'[u] = pc[u]
      BY <1>0 DEF TypeOK
    <2>2. pc'[t] \notin Blocking
      BY <1>0 DEF TypeOK, Blocking
    <2>3. QED
      BY <1>0, <1>1, <1>2, <1>4, <2>1, <2>2, Threads
      DEF FutexInv, ObjectsContained, ListedWhileBlocking, FutexObj
  <1>9. QED
    BY <1>5, <1>6, <1>7 DEF FutexInv, ObjectsContained

\* Both calls end with drop_futex.
LEMMA ReturnStep ==
    ASSUME FutexInv, NEW t \in Thread, WaitReturns(t) \/ WakeReturns(t) PROVE FutexInv'
  <1>0. /\ TypeOK /\ pc[t] = "drop" /\ pc' = [pc EXCEPT ![t] = "user"]
        /\ drop_futex(t) /\ obj[t] # NULL
        /\ UNCHANGED <<state, uninter, onqueue, waitlist, unblocked, result, pending>>
        /\ UNCHANGED <<word, num, armed, firing>>
        /\ signal' \subseteq signal
    BY DEF FutexInv, WaitReturns, WakeReturns, Goto, Inside, blockVars
  <1>1. /\ OneObject'
        /\ map' \in FutexObj \cup {NULL}
        /\ refs' \in [FutexObj -> 0..Cardinality(Thread)]
        /\ obj' = [obj EXCEPT ![t] = NULL]
    BY <1>0, DropFutex DEF FutexInv, ObjectsContained
  <1>2. TypeOK'
    BY <1>0, <1>1 DEF TypeOK, BlockTypeOK, WaitPC
  <1>3. Inside' /\ Queued'
    BY <1>0, <1>1, Threads DEF FutexInv, TypeOK, Inside, Queued, WaitPC, WakePC
  <1>4. TimerWithinWait'
    BY <1>0, WaiterKinds, Threads DEF FutexInv, ObjectsContained, TimerWithinWait, TypeOK
  <1>5. ListedWhileBlocking'
    <2>1. \A u \in Thread : pc'[u] \in Blocking => pc[u] \in Blocking /\ obj'[u] = obj[u]
      BY <1>0, <1>1 DEF TypeOK, Blocking
    <2>2. \A u \in Thread : pc[u] \in Blocking => pc'[u] \in Blocking /\ obj'[u] = obj[u]
      BY <1>0, <1>1 DEF TypeOK, Blocking
    <2>3. QED
      BY <1>0, <2>1, <2>2, Threads DEF FutexInv, ObjectsContained, ListedWhileBlocking
  <1>6. QED
    BY <1>1, <1>2, <1>3, <1>4, <1>5 DEF FutexInv, ObjectsContained

-----------------------------------------------------------------------------
(***************************************************************************)
(* The steps of the wakers, of timers and of signals.                      *)
(***************************************************************************)

\* A waker stores, and enters the call.
LEMMA StoreStep ==
    ASSUME FutexInv, NEW t \in Thread, Store(t) PROVE FutexInv'
  <1>0. /\ TypeOK /\ t \in Waker /\ pc[t] = "user" /\ pc' = [pc EXCEPT ![t] = "wake"]
        /\ word' = 1 - word
        /\ UNCHANGED <<blockVars, map, refs, obj, armed, firing>>
    BY DEF FutexInv, Store, Goto
  <1>n. PICK n \in Nat : num' = [num EXCEPT ![t] = n]
    BY WakeNums, ZenonT(40) DEF Store
  <1>1. TypeOK' /\ OneObject'
    BY <1>0, <1>n DEF FutexInv, ObjectsContained, OneObject, TypeOK, WakePC, BlockTypeOK, blockVars
  <1>2. Inside' /\ Queued' /\ TimerWithinWait'
    BY <1>0, Threads
    DEF FutexInv, TypeOK, ObjectsContained, Inside, Queued, TimerWithinWait, WakePC, blockVars
  <1>3. \A u \in Thread : pc'[u] \in Blocking <=> pc[u] \in Blocking
    BY <1>0 DEF TypeOK, Blocking
  <1>4. ListedWhileBlocking'
    BY <1>0, <1>3, Threads, ZenonT(40) DEF FutexInv, ObjectsContained, ListedWhileBlocking, blockVars
  <1>5. QED
    BY <1>1, <1>2, <1>4 DEF FutexInv, ObjectsContained

\* A waker finds the object, or that there is none.
LEMMA WakeStep ==
    ASSUME FutexInv, NEW t \in Thread, Wake(t) PROVE FutexInv'
  <1>0. /\ TypeOK /\ pc[t] = "wake" /\ obj[t] = NULL
        /\ UNCHANGED <<blockVars, word, num, armed, firing>>
    BY ZenonT(40) DEF FutexInv, Wake, Goto, Inside
  <1>w. t \in Waker
    BY <1>0, Threads DEF FutexInv, Inside, WaitPC
  <1>1. CASE map = NULL
    <2>1. pc' = [pc EXCEPT ![t] = "user"] /\ UNCHANGED <<map, refs, obj>>
      BY <1>1 DEF Wake, Goto
    <2>2. TypeOK' /\ OneObject'
      BY <1>0, <2>1 DEF FutexInv, ObjectsContained, OneObject, TypeOK, WakePC, BlockTypeOK, blockVars
    <2>3. Inside' /\ Queued' /\ TimerWithinWait'
      BY <1>0, <1>w, <2>1, Threads
      DEF FutexInv, TypeOK, ObjectsContained, Inside, Queued, TimerWithinWait, WakePC, blockVars
    <2>4. \A u \in Thread : pc'[u] \in Blocking <=> pc[u] \in Blocking
      BY <1>0, <2>1 DEF TypeOK, Blocking
    <2>5. ListedWhileBlocking'
      BY <1>0, <2>1, <2>4, Threads DEF FutexInv, ObjectsContained, ListedWhileBlocking, blockVars
    <2>6. QED
      BY <2>2, <2>3, <2>5 DEF FutexInv, ObjectsContained
  <1>2. CASE map # NULL
    <2>0. pc' = [pc EXCEPT ![t] = "unblock_one"] /\ get_futex(t, FALSE)
      BY <1>2, ZenonT(40) DEF Wake, Goto
    <2>1. /\ OneObject'
          /\ map' \in FutexObj
          /\ refs' \in [FutexObj -> 0..Cardinality(Thread)]
          /\ obj' = [obj EXCEPT ![t] = map']
      BY <1>0, <2>0, GetFutex, ZenonT(40) DEF FutexInv, ObjectsContained
    <2>2. map' # NULL
      BY <2>1, NoFutex DEF FutexObj
    <2>3. TypeOK'
      BY <1>0, <2>0, <2>1 DEF TypeOK, BlockTypeOK, blockVars, WakePC
    <2>4. Inside' /\ Queued' /\ TimerWithinWait'
      BY <1>0, <1>w, <2>0, <2>1, <2>2, Threads
      DEF FutexInv, TypeOK, ObjectsContained, TimerWithinWait, Inside, Queued, WakePC, blockVars
    <2>5. \A u \in Thread : pc'[u] \in Blocking => pc[u] \in Blocking /\ obj'[u] = obj[u]
      BY <1>0, <2>0, <2>1 DEF TypeOK, Blocking
    <2>6. \A u \in Thread : pc[u] \in Blocking => pc'[u] \in Blocking /\ obj'[u] = obj[u]
      BY <1>0, <2>0, <2>1 DEF TypeOK, Blocking
    <2>7. ListedWhileBlocking'
      BY <1>0, <2>5, <2>6, Threads DEF FutexInv, ObjectsContained, ListedWhileBlocking, blockVars
    <2>8. QED
      BY <2>1, <2>3, <2>4, <2>7 DEF FutexInv, ObjectsContained
  <1>3. QED
    BY <1>1, <1>2

\* What blocklist_unblock_one does, if anything: it unblocks one thread.
LEMMA UnblockOneThread ==
    ASSUME BlockTypeOK, NEW f \in BlockList, blocklist_unblock_one(f)
    PROVE  \E ts \in SUBSET Thread :
              IF ts = {} THEN UNCHANGED blockVars
              ELSE blockpoint_unblock(ts)
  <1>1. CASE Sleeping(f) = {}
    BY <1>1 DEF blocklist_unblock_one
  <1>2. CASE Sleeping(f) # {}
    <2>1. PICK i \in Sleeping(f) : blockpoint_unblock({waitlist[f][i]})
      BY <1>2 DEF blocklist_unblock_one
    <2>2. waitlist[f][i] \in Thread
      BY <2>1 DEF BlockTypeOK, Sleeping
    <2>3. QED
      BY <2>1, <2>2
  <1>3. QED
    BY <1>1, <1>2

\* Unblocking threads, by a waker or a timer, puts them on the run queue.
LEMMA Unblocks ==
    ASSUME FutexInv, NEW ts \in SUBSET Thread,
           IF ts = {} THEN UNCHANGED blockVars ELSE blockpoint_unblock(ts)
    PROVE  /\ BlockTypeOK' /\ waitlist' = waitlist
           /\ unblocked' = unblocked \cup ts /\ onqueue' = onqueue \cup ts
           /\ pending' = pending
  <1>1. CASE ts = {}
    BY <1>1 DEF FutexInv, TypeOK, BlockTypeOK, blockVars
  <1>2. CASE ts # {}
    BY <1>2, UnblockTypes DEF FutexInv, TypeOK, blockpoint_unblock, processor_add_thread
  <1>3. QED
    BY <1>1, <1>2

\* One round of the loop of __futex_wake.
LEMMA UnblockOneStep ==
    ASSUME FutexInv, NEW t \in Thread, UnblockOne(t) PROVE FutexInv'
  <1>0. /\ TypeOK /\ pc[t] = "unblock_one"
        /\ pc' = [pc EXCEPT ![t] = "unblock_one"] \/ pc' = [pc EXCEPT ![t] = "drop"]
        /\ UNCHANGED <<word, map, refs, obj, armed, firing>>
    BY ZenonT(40) DEF FutexInv, UnblockOne, Goto
  <1>w. t \in Waker
    BY <1>0, Threads DEF FutexInv, Inside, WaitPC
  <1>n. num' \in [Thread -> Nat]
    <2>1. num[t] > 0 => num[t] - 1 \in Nat
      BY <1>0 DEF TypeOK
    <2>2. QED
      BY <1>0, <2>1 DEF TypeOK, UnblockOne
  <1>1. PICK f \in FutexObj : f = obj[t]
    BY <1>0 DEF FutexInv, TypeOK, Inside
  <1>2. PICK ts \in SUBSET Thread : IF ts = {} THEN UNCHANGED blockVars ELSE blockpoint_unblock(ts)
    <2>1. CASE num[t] > 0
      BY <1>0, <1>1, <2>1, UnblockOneThread DEF UnblockOne, TypeOK, FutexObj
    <2>2. CASE ~(num[t] > 0)
      BY <2>2, ZenonT(40) DEF UnblockOne
    <2>3. QED
      BY <2>1, <2>2
  <1>3. /\ BlockTypeOK' /\ waitlist' = waitlist
        /\ unblocked' = unblocked \cup ts /\ onqueue' = onqueue \cup ts
    BY <1>2, Unblocks
  <1>4. TypeOK' /\ OneObject'
    BY <1>0, <1>n, <1>3 DEF FutexInv, ObjectsContained, OneObject, TypeOK, WakePC
  <1>p. /\ pc'[t] \in {"unblock_one", "drop"}
        /\ \A u \in Thread \ {t} : pc'[u] = pc[u]
    BY <1>0 DEF TypeOK
  <1>5. Inside' /\ Queued' /\ TimerWithinWait'
    <2>1. Inside'
      BY <1>0, <1>w, <1>p, Threads DEF FutexInv, Inside, WakePC
    <2>2. Queued'
      BY <1>0, <1>3, <1>p DEF FutexInv, Queued
    <2>3. TimerWithinWait'
      BY <1>0, <1>p, WaiterKinds, Threads DEF FutexInv, ObjectsContained, TimerWithinWait, TypeOK
    <2>4. QED
      BY <2>1, <2>2, <2>3
  <1>6. \A u \in Thread : pc'[u] \in Blocking <=> pc[u] \in Blocking
    BY <1>0 DEF TypeOK, Blocking
  <1>7. ListedWhileBlocking'
    BY <1>0, <1>3, <1>6, Threads DEF FutexInv, ObjectsContained, ListedWhileBlocking
  <1>8. QED
    BY <1>4, <1>5, <1>7 DEF FutexInv, ObjectsContained

\* check_timers runs the callback of an expired timer, in two steps.
LEMMA ExpireStep ==
    ASSUME FutexInv, NEW t \in Thread, Expire(t) PROVE FutexInv'
  <1>1. CASE Timeout(t)
    <2>0. /\ TypeOK /\ armed' = armed \ {t} /\ firing' = {t} /\ t \in armed
          /\ UNCHANGED <<onqueue, waitlist, unblocked, word, map, refs, obj, pc, num>>
      BY <1>1 DEF FutexInv, Timeout, timeout
    <2>1. BlockTypeOK'
      BY <1>1, StateTypes DEF FutexInv, Timeout, TypeOK
    <2>2. TypeOK' /\ OneObject'
      BY <2>0, <2>1 DEF FutexInv, ObjectsContained, OneObject, TypeOK
    <2>3. Inside' /\ Queued' /\ TimerWithinWait' /\ ListedWhileBlocking'
      BY <2>0 DEF FutexInv, ObjectsContained, Inside, Queued, TimerWithinWait, ListedWhileBlocking
    <2>4. QED
      BY <2>2, <2>3 DEF FutexInv, ObjectsContained
  <1>2. CASE TimeoutUnblocks(t)
    <2>0. /\ TypeOK /\ firing' = {} /\ blockpoint_unblock({t})
          /\ UNCHANGED <<word, map, refs, obj, pc, num, armed>>
      BY <1>2 DEF FutexInv, TimeoutUnblocks
    <2>1. /\ BlockTypeOK' /\ waitlist' = waitlist
          /\ unblocked' = unblocked \cup {t} /\ onqueue' = onqueue \cup {t}
      BY <2>0, Unblocks
    <2>2. TypeOK' /\ OneObject'
      BY <2>0, <2>1 DEF FutexInv, ObjectsContained, OneObject, TypeOK
    <2>3. Inside' /\ Queued' /\ TimerWithinWait' /\ ListedWhileBlocking'
      BY <2>0, <2>1 DEF FutexInv, ObjectsContained, Inside, Queued, TimerWithinWait, ListedWhileBlocking
    <2>4. QED
      BY <2>2, <2>3 DEF FutexInv, ObjectsContained
  <1>3. QED
    BY <1>1, <1>2 DEF Expire

\* A timer tick and a signal leave the calls alone.
LEMMA SignalStep ==
    ASSUME FutexInv, NEW t \in Thread, Preempted(t) \/ Signal(t) PROVE FutexInv'
  <1>0. /\ TypeOK /\ UNCHANGED <<waitlist, unblocked, word, map, refs, obj, pc, num, armed, firing>>
    BY DEF FutexInv, Preempted, Signal, preempt, thread_send_signal, futexVars
  <1>1. BlockTypeOK'
    BY StateTypes DEF FutexInv, Preempted, Signal, TypeOK
  <1>2. TypeOK' /\ OneObject'
    BY <1>0, <1>1 DEF FutexInv, ObjectsContained, OneObject, TypeOK
  <1>3. Queued'
    <2>1. CASE Preempted(t)
      BY <1>0, <2>1 DEF FutexInv, Queued, Preempted, preempt, Blocking
    <2>2. CASE Signal(t)
      BY <1>0, <2>2 DEF FutexInv, Queued, Signal, thread_send_signal, thread_unblock, processor_add_thread
    <2>3. QED
      BY <2>1, <2>2
  <1>4. Inside' /\ TimerWithinWait' /\ ListedWhileBlocking'
    BY <1>0 DEF FutexInv, ObjectsContained, Inside, TimerWithinWait, ListedWhileBlocking
  <1>5. QED
    BY <1>2, <1>3, <1>4 DEF FutexInv, ObjectsContained

\* The invariant behind ObjectsContained is inductive.
THEOREM FutexInductive == Spec => []FutexInv
  <1>1. FutexInv /\ [Next]_vars => FutexInv'
    <2> SUFFICES ASSUME FutexInv, [Next]_vars PROVE FutexInv'
      OBVIOUS
    <2>1. CASE UNCHANGED vars
      BY <2>1 DEF vars, futexVars, blockVars, FutexInv, TypeOK, BlockTypeOK, Inside, Queued, ObjectsContained,
                  OneObject, ListedWhileBlocking, TimerWithinWait
    <2>2. ASSUME NEW t \in Thread, Step(t) PROVE FutexInv'
      BY <2>2, StartBlockStep, MoveStep, ScheduledStep, CleanupStep, ReturnStep, WakeStep, UnblockOneStep
      DEF Step
    <2>3. ASSUME NEW t \in Thread, Wait(t) \/ Store(t) \/ Expire(t) \/ Preempted(t) \/ Signal(t)
          PROVE  FutexInv'
      BY <2>3, WaitStep, StoreStep, ExpireStep, SignalStep
    <2>4. QED
      BY <2>1, <2>2, <2>3 DEF Next
  <1>2. QED
    BY <1>1, InitFutexInv, PTL DEF Spec

\* Everybody inside the calls uses the one object that the hash holds and that
\* counts them, and no wait list or timer refers to a dead stack frame.
THEOREM Contained == Spec => []ObjectsContained
  <1>1. FutexInv => ObjectsContained
    BY DEF FutexInv
  <1>2. QED
    BY <1>1, FutexInductive, PTL

-----------------------------------------------------------------------------
(***************************************************************************)
(* No wake-up is lost.                                                     *)
(***************************************************************************)

\* Sets of waiters are finite, and a smaller one is not larger.
LEMMA WaiterSets ==
    ASSUME NEW A \in SUBSET Waiter, NEW B \in SUBSET A
    PROVE  /\ IsFiniteSet(A) /\ IsFiniteSet(B)
           /\ Cardinality(A) \in Nat /\ Cardinality(B) \in Nat
           /\ Cardinality(B) <= Cardinality(A)
  <1>1. A \in SUBSET Thread /\ B \in SUBSET Thread
    BY Threads
  <1>2. IsFiniteSet(A) /\ IsFiniteSet(B)
    BY <1>1, ThreadsFinite, FS_Subset
  <1>3. QED
    BY <1>2, FS_Subset, FS_CardinalityType

\* Only waiters are ahead of others.
LEMMA AheadWaiters ==
    ASSUME FutexInv, NEW f \in FutexObj PROVE AheadOn(f) \in SUBSET Waiter
  <1>1. AheadOn(f) \subseteq Members(waitlist[f])
    BY ZenonT(40) DEF AheadOn, Ahead
  <1>2. Members(waitlist[f]) \subseteq Waiter
    BY DEF FutexInv, ObjectsContained, ListedWhileBlocking
  <1>3. QED
    BY <1>1, <1>2

\* Steps that add nobody to the waiters ahead, and leave the wakers alone.
LEMMA CoveredKept ==
    ASSUME FutexInv, Covered, word' # 0 => word # 0,
           \A f \in FutexObj : AheadOn(f)' \subseteq AheadOn(f),
           \A w \in Waker : pc[w] \in {"wake", "unblock_one"} =>
                               pc'[w] \in {"wake", "unblock_one"} /\ num'[w] = num[w]
    PROVE  Covered'
  <1> SUFFICES ASSUME word' # 0, NEW f \in FutexObj, AheadOn(f)' # {}
               PROVE  \E w \in Waker : /\ pc'[w] \in {"wake", "unblock_one"}
                                       /\ num'[w] >= Cardinality(AheadOn(f)')
    BY DEF Covered
  <1>1. AheadOn(f)' \subseteq AheadOn(f) /\ AheadOn(f) # {} /\ word # 0
    OBVIOUS
  <1>2. PICK w \in Waker : pc[w] \in {"wake", "unblock_one"} /\ num[w] >= Cardinality(AheadOn(f))
    BY <1>1 DEF Covered
  <1>3. /\ Cardinality(AheadOn(f)') <= Cardinality(AheadOn(f))
        /\ Cardinality(AheadOn(f)') \in Nat /\ Cardinality(AheadOn(f)) \in Nat
    BY <1>1, AheadWaiters, WaiterSets
  <1>4. num[w] \in Nat
    BY Threads DEF FutexInv, TypeOK
  <1>5. QED
    BY <1>2, <1>3, <1>4

\* Nobody is ahead on an unchanged list who was not, when nobody falls asleep.
LEMMA AheadKept ==
    ASSUME waitlist' = waitlist, unblocked \subseteq unblocked', Sleepers' \subseteq Sleepers
    PROVE  \A f \in FutexObj : AheadOn(f)' \subseteq AheadOn(f)
  BY FewerAhead DEF AheadOn

\* Only the object in the hash has waiters.
LEMMA OnlyMapped ==
    ASSUME FutexInv, NEW f \in FutexObj, f # map PROVE AheadOn(f) = {} /\ Members(waitlist[f]) = {}
  <1>1. \A t \in Thread : obj[t] # f
    BY NoFutex, ZenonT(40) DEF FutexInv, ObjectsContained, OneObject, FutexObj
  <1>2. Members(waitlist[f]) = {}
    BY <1>1, Threads DEF FutexInv, ObjectsContained, ListedWhileBlocking
  <1>3. QED
    BY <1>2, ZenonT(40) DEF AheadOn, Ahead

\* A waiter that joins the list is behind those who sleep.
LEMMA StartBlockCovered ==
    ASSUME FutexInv, Covered, NEW t \in Thread, StartBlock(t) PROVE Covered'
  <1>0. /\ TypeOK /\ pc[t] = "startblock"
        /\ pc' = [pc EXCEPT ![t] = IF t \in Timed THEN "timer_add" ELSE "load"]
        /\ blockpoint_startblock(t, obj[t], {})
        /\ UNCHANGED <<word, num>>
    BY DEF FutexInv, StartBlock, Goto
  <1>1. PICK f \in FutexObj : f = obj[t]
    BY <1>0 DEF FutexInv, TypeOK, Inside
  <1>2. f \in BlockList /\ waitlist[f] \in Seq(Thread) /\ NoDuplicates(waitlist[f]) /\ t \notin Members(waitlist[f])
    BY <1>0, <1>1, ZenonT(40) DEF FutexInv, ObjectsContained, ListedWhileBlocking, TypeOK, BlockTypeOK, FutexObj, Blocking
  <1>3. /\ waitlist'[f] = Append(waitlist[f], t)
        /\ \A b \in BlockList \ {f} : waitlist'[b] = waitlist[b]
    BY <1>0, <1>1, <1>2, StartBlockLists DEF TypeOK
  <1>4. /\ unblocked' = unblocked \ {t} /\ UNCHANGED <<onqueue, pending>>
        /\ \A u \in Thread \ {t} : pc'[u] = pc[u]
        /\ pc'[t] \in {"timer_add", "load"}
    BY <1>0 DEF blockpoint_startblock, TypeOK
  <1>5. Sleepers' \in SUBSET Sleepers /\ t \notin Sleepers'
    BY <1>4, Threads DEF Sleepers, Asleep
  <1>6. ASSUME NEW g \in FutexObj PROVE AheadOn(g)' \subseteq AheadOn(g)
    <2>1. CASE g = f
      BY <1>2, <1>3, <1>4, <1>5, <2>1, AppendAhead, ZenonT(40) DEF AheadOn
    <2>2. CASE g # f
      <3>1. f = map
        BY <1>1, NoFutex, ZenonT(40) DEF FutexInv, ObjectsContained, OneObject, FutexObj
      <3>2. waitlist'[g] = waitlist[g] /\ Members(waitlist[g]) = {}
        BY <1>3, <2>2, <3>1, OnlyMapped, ZenonT(40) DEF FutexObj
      <3>3. QED
        BY <3>2, ZenonT(40) DEF AheadOn, Ahead
    <2>3. QED
      BY <2>1, <2>2
  <1>7. \A w \in Waker : pc[w] \in {"wake", "unblock_one"} =>
                            pc'[w] \in {"wake", "unblock_one"} /\ num'[w] = num[w]
    BY <1>0, <1>4, Threads
  <1>8. QED
    BY <1>0, <1>6, <1>7, CoveredKept

\* A waiter that leaves the list does not change the order of the others.
LEMMA CleanupCovered ==
    ASSUME FutexInv, Covered, NEW t \in Thread, Cleanup(t) PROVE Covered'
  <1>0. /\ TypeOK /\ pc[t] = "cleanup"
        /\ pc' = [pc EXCEPT ![t] = IF t \in Timed THEN "timer_remove" ELSE "drop"]
        /\ blockpoint_cleanup(t, obj[t])
        /\ UNCHANGED <<word, num>>
    BY DEF FutexInv, Cleanup, Goto
  <1>1. PICK f \in FutexObj : f = obj[t]
    BY <1>0 DEF FutexInv, TypeOK, Inside
  <1>2. t \in Waiter
    BY <1>0, Threads DEF FutexInv, Inside, WakePC
  <1>3. f \in BlockList /\ waitlist[f] \in Seq(Thread) /\ NoDuplicates(waitlist[f]) /\ t \in Members(waitlist[f])
    BY <1>0, <1>1, <1>2 DEF FutexInv, ObjectsContained, ListedWhileBlocking, TypeOK, BlockTypeOK, FutexObj, Blocking
  <1>4. /\ waitlist'[f] = Unlink(waitlist[f], t)
        /\ \A b \in BlockList \ {f} : waitlist'[b] = waitlist[b]
    BY <1>0, <1>1, <1>3, CleanupLists DEF TypeOK
  <1>5. /\ UNCHANGED <<onqueue, pending, unblocked>>
        /\ \A u \in Thread \ {t} : pc'[u] = pc[u]
        /\ pc'[t] \in {"timer_remove", "drop"}
    BY <1>0 DEF blockpoint_cleanup, TypeOK
  <1>6. Sleepers' \in SUBSET Sleepers
    BY <1>5, Threads DEF Sleepers, Asleep
  <1>7. ASSUME NEW g \in FutexObj PROVE AheadOn(g)' \subseteq AheadOn(g)
    <2>1. CASE g = f
      BY <1>3, <1>4, <1>5, <1>6, <2>1, UnlinkAhead DEF AheadOn
    <2>2. CASE g # f
      <3>1. waitlist'[g] = waitlist[g]
        BY <1>4, <2>2 DEF FutexObj
      <3>2. QED
        BY <1>5, <1>6, <3>1, FewerAhead DEF AheadOn
    <2>3. QED
      BY <2>1, <2>2
  <1>8. \A w \in Waker : pc[w] \in {"wake", "unblock_one"} =>
                            pc'[w] \in {"wake", "unblock_one"} /\ num'[w] = num[w]
    BY <1>0, <1>5, Threads
  <1>9. QED
    BY <1>0, <1>7, <1>8, CoveredKept

\* The steps by which nobody falls asleep and no list changes.
LEMMA OthersCovered ==
    ASSUME FutexInv, Covered, NEW t \in Thread,
           \/ Wait(t) \/ TimerAdd(t) \/ Load(t) \/ Scheduled(t) \/ TimerRemove(t)
           \/ WaitReturns(t) \/ WakeReturns(t) \/ Expire(t) \/ Preempted(t) \/ Signal(t)
    PROVE  Covered'
  <1>0. TypeOK /\ word' = word
    BY ZenonT(40) DEF FutexInv, Wait, TimerAdd, Load, Scheduled, TimerRemove, WaitReturns, WakeReturns, Expire,
           Timeout, TimeoutUnblocks, Preempted, Signal, futexVars
  <1>1. CASE word = 0
    BY <1>0, <1>1, ZenonT(40) DEF Covered
  <1>2. CASE word # 0
    <2>1. waitlist' = waitlist /\ unblocked \subseteq unblocked' /\ num' = num
      BY ZenonT(40) DEF Wait, TimerAdd, Load, Scheduled, schedule, TimerRemove, WaitReturns, WakeReturns, Expire,
             Timeout, timeout, TimeoutUnblocks, blockpoint_unblock, Preempted, preempt, Signal,
             thread_send_signal, futexVars, blockVars
    <2>2. ASSUME Wait(t) \/ TimerAdd(t) \/ Load(t) \/ TimerRemove(t) \/ WaitReturns(t) \/ WakeReturns(t)
          PROVE  /\ UNCHANGED <<onqueue, pending>>
                 /\ \A u \in Thread \ {t} : pc'[u] = pc[u]
                 /\ pc[t] \notin {"wake", "unblock_one"}
                 /\ pc'[t] # "schedule"
      BY <1>0, <1>2, <2>2, ZenonT(40)
      DEF TypeOK, Wait, TimerAdd, Load, TimerRemove, WaitReturns, WakeReturns, Goto, blockVars
    <2>3. ASSUME Scheduled(t)
          PROVE  /\ onqueue \subseteq onqueue' \cup {t} /\ pending \subseteq pending' \cup {t}
                 /\ \A u \in Thread \ {t} : pc'[u] = pc[u]
                 /\ pc[t] = "schedule" /\ pc'[t] = "cleanup"
      BY <1>0, <2>3 DEF TypeOK, Scheduled, schedule, check_signals, Goto
    <2>4. ASSUME Preempted(t)
          PROVE  /\ onqueue \subseteq onqueue' \cup {t} /\ pending \subseteq pending' \cup {t}
                 /\ pc' = pc /\ pc[t] # "schedule"
      BY <2>4 DEF Preempted, preempt, check_signals, futexVars, Blocking
    <2>5. ASSUME Expire(t) \/ Signal(t)
          PROVE  onqueue \subseteq onqueue' /\ pending \subseteq pending' /\ pc' = pc
      BY <2>5 DEF Expire, Timeout, timeout, TimeoutUnblocks, blockpoint_unblock, processor_add_thread,
                  Signal, thread_send_signal, thread_unblock, futexVars
    <2>6. Sleepers' \subseteq Sleepers
      <3>1. \A u \in Thread : Asleep(u)' => Asleep(u)
        BY <2>2, <2>3, <2>4, <2>5, ZenonT(40) DEF Asleep
      <3>2. QED
        BY <3>1, Threads, ZenonT(40) DEF Sleepers
    <2>7. \A w \in Waker : pc[w] \in {"wake", "unblock_one"} =>
                              pc'[w] \in {"wake", "unblock_one"} /\ num'[w] = num[w]
      BY <2>1, <2>2, <2>3, <2>4, <2>5, Threads, ZenonT(40)
    <2>8. \A f \in FutexObj : AheadOn(f)' \subseteq AheadOn(f)
      BY <2>1, <2>6, AheadKept
    <2>9. QED
      BY <1>0, <2>7, <2>8, CoveredKept
  <1>3. QED
    BY <1>1, <1>2

\* Wakers that ask for all waiters to be woken, as those of a broadcast do.
WakesAll == \A n \in WakeNum : n >= Cardinality(Waiter)

\* The waker that changes the word comes with a wake-up for everybody.
LEMMA StoreCovered ==
    ASSUME WakesAll, FutexInv, Covered, NEW t \in Thread, Store(t) PROVE Covered'
  <1>1. PICK n \in WakeNum : num' = [num EXCEPT ![t] = n]
    BY ZenonT(40) DEF Store
  <1>2. t \in Waker /\ pc'[t] = "wake" /\ num'[t] = n /\ n \in Nat /\ n >= Cardinality(Waiter)
    BY <1>1, WakeNums DEF Store, Goto, FutexInv, TypeOK, WakesAll
  <1>3. waitlist' = waitlist /\ unblocked \subseteq unblocked' /\ Sleepers' \subseteq Sleepers
    BY <1>2, Threads DEF Store, Goto, blockVars, Sleepers, Asleep, FutexInv, TypeOK
  <1>4. ASSUME NEW f \in FutexObj PROVE n >= Cardinality(AheadOn(f)')
    <2>1. AheadOn(f)' \in SUBSET Waiter /\ Waiter \in SUBSET Waiter
      BY <1>3, AheadKept, AheadWaiters
    <2>2. QED
      BY <1>2, <2>1, WaiterSets
  <1>5. QED
    BY <1>2, <1>4 DEF Covered

\* A waker that finds no object has nobody to wake.
LEMMA WakeCovered ==
    ASSUME FutexInv, Covered, NEW t \in Thread, Wake(t) PROVE Covered'
  <1>0. /\ TypeOK /\ pc[t] = "wake"
        /\ UNCHANGED <<blockVars, word, num>>
        /\ \E to \in {"user", "unblock_one"} : pc' = [pc EXCEPT ![t] = to]
    BY ZenonT(40) DEF FutexInv, Wake, Goto
  <1>1. waitlist' = waitlist /\ unblocked \subseteq unblocked' /\ Sleepers' \subseteq Sleepers
    BY <1>0, Threads DEF Sleepers, Asleep, blockVars, TypeOK
  <1>2. \A f \in FutexObj : AheadOn(f)' \subseteq AheadOn(f)
    BY <1>1, AheadKept
  <1>3. CASE map = NULL
    <2>1. \A f \in FutexObj : AheadOn(f) = {}
      BY <1>3, OnlyMapped, NoFutex DEF FutexObj
    <2>2. QED
      BY <1>2, <2>1 DEF Covered
  <1>4. CASE map # NULL
    <2>1. pc' = [pc EXCEPT ![t] = "unblock_one"]
      BY <1>4 DEF Wake, Goto
    <2>2. \A w \in Waker : pc[w] \in {"wake", "unblock_one"} =>
                              pc'[w] \in {"wake", "unblock_one"} /\ num'[w] = num[w]
      BY <1>0, <2>1, Threads DEF TypeOK
    <2>3. QED
      BY <1>0, <1>2, <2>2, CoveredKept
  <1>5. QED
    BY <1>3, <1>4

\* Each round of the loop wakes one of the waiters ahead, if there is one, and
\* the loop does not end before.
LEMMA UnblockOneCovered ==
    ASSUME FutexInv, Covered, NEW t \in Thread, UnblockOne(t) PROVE Covered'
  <1> DEFINE more == num[t] > 0 /\ Sleeping(obj[t]) # {}
  <1>0. /\ TypeOK /\ pc[t] = "unblock_one" /\ word' = word
        /\ pc' = [pc EXCEPT ![t] = IF more THEN "unblock_one" ELSE "drop"]
        /\ num' = [num EXCEPT ![t] = IF more THEN num[t] - 1 ELSE num[t]]
    BY DEF FutexInv, UnblockOne, Goto
  <1>w. t \in Waker
    BY <1>0, Threads DEF FutexInv, Inside, WaitPC
  <1>f. PICK f \in FutexObj : f = obj[t] /\ f = map
    BY <1>0 DEF FutexInv, TypeOK, Inside, ObjectsContained, OneObject
  <1>u. PICK ts \in SUBSET Thread : IF ts = {} THEN UNCHANGED blockVars ELSE blockpoint_unblock(ts)
    <2>1. CASE num[t] > 0
      BY <1>0, <1>f, <2>1, UnblockOneThread DEF UnblockOne, TypeOK, FutexObj
    <2>2. CASE ~(num[t] > 0)
      BY <2>2, ZenonT(40) DEF UnblockOne
    <2>3. QED
      BY <2>1, <2>2
  <1>1. /\ waitlist' = waitlist /\ unblocked' = unblocked \cup ts /\ onqueue' = onqueue \cup ts
        /\ pending' = pending
    BY <1>u, Unblocks
  <1>p. \A u \in Thread : u # t => pc'[u] = pc[u] /\ num'[u] = num[u]
    BY <1>0 DEF TypeOK
  <1>2. Sleepers' \subseteq Sleepers
    <2>1. pc'[t] # "schedule"
      BY <1>0 DEF TypeOK
    <2>2. QED
      BY <1>1, <1>p, <2>1, Threads, ZenonT(40) DEF Sleepers, Asleep
  <1>3. \A g \in FutexObj : AheadOn(g)' \subseteq AheadOn(g)
    BY <1>1, <1>2, AheadKept
  <1> SUFFICES ASSUME word' # 0, NEW g \in FutexObj, AheadOn(g)' # {}
               PROVE  \E w \in Waker : /\ pc'[w] \in {"wake", "unblock_one"}
                                       /\ num'[w] >= Cardinality(AheadOn(g)')
    BY DEF Covered
  <1> DEFINE A == AheadOn(f)
             B == AheadOn(f)'
  <1>4. A # {} /\ B \in SUBSET A /\ A \in SUBSET Waiter /\ g = f /\ word # 0
    BY <1>0, <1>3, <1>f, OnlyMapped, AheadWaiters
  <1>5. PICK v \in Waker : pc[v] \in {"wake", "unblock_one"} /\ num[v] >= Cardinality(A)
    BY <1>4 DEF Covered
  <1> HIDE DEF A, B
  <1>6. /\ IsFiniteSet(A) /\ Cardinality(A) \in Nat /\ Cardinality(B) \in Nat
        /\ Cardinality(B) <= Cardinality(A) /\ num[v] \in Nat
    BY <1>0, <1>4, Threads, WaiterSets DEF TypeOK
  <1>7. CASE v # t
    <2>1. pc'[v] = pc[v] /\ num'[v] = num[v]
      BY <1>7, <1>p, Threads
    <2>2. num'[v] >= Cardinality(B)
      BY <1>5, <1>6, <2>1
    <2>3. QED
      BY <1>4, <1>5, <2>1, <2>2, ZenonT(40) DEF B
  <1>8. CASE v = t
    <2>1. Cardinality(A) # 0
      BY <1>4, <1>6, FS_EmptySet
    <2>2. num[t] > 0
      BY <1>5, <1>6, <1>8, <2>1
    <2>3. blocklist_unblock_one(f)
      BY <1>f, <2>2, ZenonT(40) DEF UnblockOne
    <2>4. PICK x \in A : blockpoint_unblock({x})
      BY <1>0, <1>4, <2>3, UnblockOneAhead, ZenonT(40) DEF A, AheadOn, TypeOK, FutexObj
    <2>5. more
      <3>1. PICK i \in 1..Len(waitlist[f]) : waitlist[f][i] = x /\ x \notin unblocked
        BY ZenonT(40) DEF A, AheadOn, Ahead, Members
      <3>2. QED
        BY <1>f, <2>2, <3>1 DEF Sleeping
    <2>6. B \subseteq A \ {x}
      <3>1. x \in unblocked'
        BY <2>4, ZenonT(40) DEF blockpoint_unblock
      <3>2. x \notin B
        BY <3>1, ZenonT(40) DEF B, AheadOn, Ahead
      <3>3. QED
        BY <1>4, <3>2
    <2>7. Cardinality(A \ {x}) = Cardinality(A) - 1
      BY <1>6, FS_RemoveElement, ZenonT(40)
    <2>8. Cardinality(B) <= Cardinality(A \ {x})
      BY <1>4, <2>6, WaiterSets
    <2>9. pc'[t] = "unblock_one" /\ num'[t] = num[t] - 1
      BY <1>0, <2>5 DEF TypeOK
    <2>10. num'[t] >= Cardinality(B)
      BY <1>5, <1>6, <1>8, <2>7, <2>8, <2>9
    <2>11. QED
      BY <1>w, <1>4, <2>9, <2>10 DEF B
  <1>9. QED
    BY <1>7, <1>8

\* A sleeping waiter is ahead on the list of the object in the hash.
LEMMA AsleepAhead ==
    ASSUME FutexInv, NEW t \in Sleepers
    PROVE  map \in FutexObj /\ t \in AheadOn(map)
  <1>1. pc[t] = "schedule" /\ t \notin unblocked /\ t \in Waiter /\ t \in Thread
    BY Threads DEF FutexInv, Queued, Sleepers, Asleep
  <1>2. obj[t] = map /\ map \in FutexObj
    BY <1>1, NoFutex, ZenonT(40) DEF FutexInv, TypeOK, Inside, ObjectsContained, OneObject, FutexObj
  <1>3. t \in Members(waitlist[map])
    BY <1>1, <1>2 DEF FutexInv, ObjectsContained, ListedWhileBlocking, Blocking
  <1>4. PICK i \in 1..Len(waitlist[map]) : waitlist[map][i] = t
    BY <1>3 DEF Members
  <1>5. i <= i
    BY <1>2 DEF FutexInv, TypeOK, BlockTypeOK, FutexObj
  <1>6. QED
    BY <1>1, <1>2, <1>3, <1>4, <1>5, ZenonT(40) DEF AheadOn, Ahead

\* No wake-up is lost between the test of the word in futex_wait and the
\* sleep, for every number of waiters and wakers, when the wakers ask for all
\* waiters to be woken.
THEOREM NoWakeLost == ASSUME WakesAll PROVE Spec => []NoLostWake
  <1>1. Init => Covered
    BY DEF Init, Covered
  <1>2. FutexInv /\ Covered /\ [Next]_vars => Covered'
    <2> SUFFICES ASSUME FutexInv, Covered, [Next]_vars PROVE Covered'
      OBVIOUS
    <2>1. CASE UNCHANGED vars
      <3>1. UNCHANGED <<word, pc, num, waitlist, unblocked, onqueue, pending>>
        BY <2>1 DEF vars, futexVars, blockVars
      <3>2. \A f \in FutexObj : AheadOn(f)' = AheadOn(f)
        BY <3>1, ZenonT(40) DEF AheadOn, Sleepers, Asleep
      <3>3. QED
        BY <3>1, <3>2 DEF Covered
    <2>2. ASSUME NEW t \in Thread, Step(t) PROVE Covered'
      BY <2>2, StartBlockCovered, CleanupCovered, OthersCovered, WakeCovered, UnblockOneCovered
      DEF Step
    <2>3. ASSUME NEW t \in Thread, Wait(t) \/ Store(t) \/ Expire(t) \/ Preempted(t) \/ Signal(t)
          PROVE  Covered'
      BY <2>3, OthersCovered, StoreCovered
    <2>4. QED
      BY <2>1, <2>2, <2>3 DEF Next
  <1>3. ASSUME FutexInv, Covered PROVE NoLostWake
    <2> SUFFICES ASSUME NEW t \in Sleepers, word # 0 PROVE WakeComing
      BY DEF NoLostWake, Sleepers
    <2>1. map \in FutexObj /\ AheadOn(map) # {}
      BY <1>3, AsleepAhead
    <2>2. PICK w \in Waker : pc[w] \in {"wake", "unblock_one"} /\ num[w] >= Cardinality(AheadOn(map))
      BY <1>3, <2>1 DEF Covered
    <2>3. Sleepers \in SUBSET AheadOn(map) /\ AheadOn(map) \in SUBSET Waiter
      BY <1>3, <2>1, AsleepAhead, AheadWaiters
    <2>4. num[w] \in Nat
      BY <1>3, Threads DEF FutexInv, TypeOK
    <2>5. num[w] >= Cardinality(Sleepers)
      BY <2>2, <2>3, <2>4, WaiterSets
    <2>6. QED
      BY <2>2, <2>5 DEF WakeComing
  <1>4. QED
    BY <1>1, <1>2, <1>3, FutexInductive, PTL DEF Spec
=============================================================================
