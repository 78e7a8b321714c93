-------------------------------- MODULE Mutex --------------------------------
(***************************************************************************)
(* The sleeping mutex of kernel/mutex.c on top of module Blocklist.        *)
(*                                                                         *)
(* mutex->lock counts the holder and the threads that have announced       *)
(* themselves as waiters.  mutex_acquire first tries to change it from 0   *)
(* to 1; when it gives up it starts blocking, adds itself to the count,    *)
(* and sleeps unless the count was 0.  mutex_release subtracts one and, if *)
(* somebody is still counted, hands the mutex over with                    *)
(* blocklist_unblock_one.                                                  *)
(***************************************************************************)
EXTENDS Blocklist, FiniteSets

CONSTANTS
    NULL,           \* no owner
    Signalled       \* the threads that other threads send signals to

ASSUME NoOwner == NULL \notin Thread
ASSUME SignalledThreads == Signalled \subseteq Thread
ASSUME OneList == BlockList = {"wait"}

VARIABLES
    lock,       \* mutex->lock
    owner,      \* mutex->owner (CONFIG_DEBUG)
    pc          \* the point each thread has reached in mutex_acquire/release

mutexVars == <<lock, owner, pc>>
vars == <<blockVars, mutexVars>>

Idle == "idle"
PC == {Idle, "spin", "startblock", "fetch_add", "schedule", "cleanup", "acquired",
       "critical", "fetch_sub", "unblock_one"}

TypeOK ==
    /\ BlockTypeOK
    /\ lock \in Nat
    /\ owner \in Thread \cup {NULL}
    /\ pc \in [Thread -> PC]

Init ==
    /\ BlockInit
    /\ lock = 0
    /\ owner = NULL
    /\ pc = [t \in Thread |-> Idle]

Goto(t, from, to) ==
    /\ pc[t] = from
    /\ pc' = [pc EXCEPT ![t] = to]

-----------------------------------------------------------------------------
(***************************************************************************)
(* mutex_acquire                                                           *)
(***************************************************************************)

\* A thread calls mutex_acquire.
Acquire(t) ==
    /\ Goto(t, Idle, "spin")
    /\ UNCHANGED <<blockVars, lock, owner>>

\* _spinlock_first: the compare-exchange succeeds.
SpinTakes(t) ==
    /\ Goto(t, "spin", "acquired")
    /\ lock = 0
    /\ lock' = 1
    /\ UNCHANGED <<blockVars, owner>>

\* _spinlock_first: all attempts failed.  The compare-exchange is the weak
\* one, so they may fail although the mutex is free.
SpinGivesUp(t) ==
    /\ Goto(t, "spin", "startblock")
    /\ UNCHANGED <<blockVars, lock, owner>>

StartBlock(t) ==
    /\ Goto(t, "startblock", "fetch_add")
    /\ blockpoint_startblock(t, "wait", {"UNINTERRUPT"})
    /\ UNCHANGED <<lock, owner>>

FetchAdd(t) ==
    /\ Goto(t, "fetch_add", IF lock > 0 THEN "schedule" ELSE "cleanup")
    /\ lock' = lock + 1
    /\ UNCHANGED <<blockVars, owner>>

Scheduled(t) ==
    /\ Goto(t, "schedule", "cleanup")
    /\ schedule(t)
    /\ UNCHANGED <<lock, owner>>

Cleanup(t) ==
    /\ Goto(t, "cleanup", "acquired")
    /\ blockpoint_cleanup(t, "wait")
    /\ UNCHANGED <<lock, owner>>

TakeOwnership(t) ==
    /\ Goto(t, "acquired", "critical")
    /\ owner' = t
    /\ UNCHANGED <<blockVars, lock>>

-----------------------------------------------------------------------------
(***************************************************************************)
(* mutex_release                                                           *)
(***************************************************************************)

\* mutex_release gives up ownership before it gives up the lock.
Release(t) ==
    /\ Goto(t, "critical", "fetch_sub")
    /\ owner' = NULL
    /\ UNCHANGED <<blockVars, lock>>

\* Mutant: mutex_release that compares the new count instead of the old one.
FetchSub_OffByOne(t) ==
    /\ Goto(t, "fetch_sub", IF lock # 0 THEN "unblock_one" ELSE Idle)
    /\ lock' = lock - 1
    /\ UNCHANGED <<blockVars, owner>>

FetchSub(t) ==
    /\ Goto(t, "fetch_sub", IF lock # 1 THEN "unblock_one" ELSE Idle)
    /\ lock' = lock - 1
    /\ UNCHANGED <<blockVars, owner>>

UnblockOne(t) ==
    /\ Goto(t, "unblock_one", Idle)
    /\ blocklist_unblock_one("wait")
    /\ UNCHANGED <<lock, owner>>

-----------------------------------------------------------------------------
(***************************************************************************)
(* The environment: timer ticks, stale run-queue entries, and signals.     *)
(***************************************************************************)

Preempted(t) ==
    /\ pc[t] \notin {"fetch_add", "schedule", "cleanup"}
    /\ preempt(t)
    /\ UNCHANGED mutexVars

StaleEntry(t) ==
    /\ pc[t] = "schedule"
    /\ select_idle(t)
    /\ UNCHANGED mutexVars

Signal(t) ==
    /\ t \in Signalled
    /\ thread_send_signal(t)
    /\ UNCHANGED mutexVars

-----------------------------------------------------------------------------
\* The steps of mutex_acquire and mutex_release after the call.
Step(t) ==
    \/ SpinTakes(t) \/ SpinGivesUp(t) \/ StartBlock(t) \/ FetchAdd(t)
    \/ Scheduled(t) \/ Cleanup(t) \/ TakeOwnership(t)
    \/ Release(t) \/ FetchSub(t) \/ UnblockOne(t)

Next == \E t \in Thread :
    Acquire(t) \/ Step(t) \/ Preempted(t) \/ StaleEntry(t) \/ Signal(t)

\* A thread that can run is run, and every critical section ends.
Fairness == \A t \in Thread : WF_vars(Step(t))

Spec == Init /\ [][Next]_vars
FairSpec == Spec /\ Fairness

-----------------------------------------------------------------------------
(***************************************************************************)
(* Properties.                                                             *)
(***************************************************************************)

\* The threads that hold the mutex, from the return of mutex_acquire to the
\* fetch_sub of mutex_release.
Holds(t) == pc[t] \in {"acquired", "critical", "fetch_sub"}

\* At most one thread is between mutex_acquire and mutex_release, whatever
\* the order in which threads spin, announce themselves, sleep, are handed
\* the mutex before they even counted themselves, and receive signals.
MutualExclusion == \A s, t \in Thread : Holds(s) /\ Holds(t) => s = t

\* assert(mutex->owner == NULL) of mutex_acquire and assert(mutex->owner ==
\* current_thread) of mutex_release hold when they are reached.
OwnerAsserts == \A t \in Thread :
    /\ pc[t] = "acquired" => owner = NULL
    /\ pc[t] = "critical" => owner = t

\* assert(res == BLOCK_RESULT_UNBLOCKED || ...) of mutex_acquire, for the
\* threads that went to sleep: they are only ever woken by the hand-off of
\* mutex_release, never by a signal or by the run-queue entry that an earlier
\* wake-up left behind.
WokenByHandOff ==
    [][\A t \in Thread : pc[t] = "schedule" /\ pc'[t] # "schedule" => t \in unblocked]_vars

\* A release that saw other threads counted finds one to wake: the hand-off
\* of mutex_release is never lost, so a counted mutex is never left without
\* a thread that will release it.
HandOffFindsWaiter == \A t \in Thread :
    pc[t] = "unblock_one" => Sleeping("wait") # {}

\* The assertions of mutex_acquire and mutex_release hold, and a release that
\* hands over finds the waiter it counted (mutex.c).
AssertionsHold == OwnerAsserts /\ HandOffFindsWaiter

-----------------------------------------------------------------------------
(***************************************************************************)
(* Why it works: the inductive invariant.                                  *)
(***************************************************************************)

Blocking(t) == pc[t] \in {"fetch_add", "schedule", "cleanup"}

\* The threads counted in mutex->lock: those that added themselves and have
\* not subtracted themselves yet.
Counted == {t \in Thread :
                pc[t] \in {"schedule", "cleanup", "acquired", "critical", "fetch_sub"}}

\* The right to the mutex, which is passed from thread to thread: a holder has
\* it, so does a releaser that has not woken anybody yet, and a listed thread
\* has it from the moment it is unblocked, even before its own fetch_add.
Owns(t) ==
    \/ pc[t] \in {"cleanup", "acquired", "critical", "fetch_sub", "unblock_one"}
    \/ pc[t] \in {"fetch_add", "schedule"} /\ t \in unblocked

\* Each blocking thread is on the wait list exactly once, is THREAD_UNINTER,
\* and is made RUNNING by nothing but blockpoint_unblock.
ListInv ==
    /\ NoDuplicates(waitlist["wait"])
    /\ Members(waitlist["wait"]) = {t \in Thread : Blocking(t)}
    /\ uninter = {t \in Thread : Blocking(t)}
    /\ \A t \in Thread :
           pc[t] \in {"fetch_add", "schedule"} /\ state[t] = "RUNNING" => t \in unblocked

\* mutex->lock counts, and while it is not zero exactly one thread has the
\* right to the mutex.
CountInv ==
    /\ IsFiniteSet(Counted)
    /\ lock = Cardinality(Counted)
    /\ \A s, t \in Thread : Owns(s) /\ Owns(t) => s = t
    /\ lock > 0 <=> \E t \in Thread : Owns(t)

OwnerInv == \A t \in Thread : owner = t <=> pc[t] = "critical"

IInv == TypeOK /\ ListInv /\ CountInv /\ OwnerInv

-----------------------------------------------------------------------------
(***************************************************************************)
(* Liveness and refinement.                                                *)
(***************************************************************************)

\* Every call of mutex_acquire returns, when critical sections end: nobody
\* that is counted in mutex->lock can be overtaken for ever by spinners.
EveryAcquireReturns == \A t \in Thread : pc[t] = "spin" ~> pc[t] = "critical"

\* The mutex is the lock its callers take it for.
holder == IF \E t \in Thread : Holds(t) THEN CHOOSE t \in Thread : Holds(t) ELSE NULL
want == {t \in Thread :
            pc[t] \in {"spin", "startblock", "fetch_add", "schedule", "cleanup"}}
LockOf == INSTANCE Lock

\* Spinning, counting, sleeping and handing over implement the abstract lock:
\* every step of the code is a request, a grant, a release, or invisible.
ImplementsLock == LockOf!LSafety
=============================================================================
