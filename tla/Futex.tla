-------------------------------- MODULE Futex --------------------------------
(***************************************************************************)
(* The futex system call, kernel/sys/futex.c, on one user address.         *)
(*                                                                         *)
(* Waiters call futex_wait with the value 0, with or without a timeout.    *)
(* Wakers change the user word and then call futex_wake, which is how the  *)
(* C library uses the call.  The kernel keeps one reference-counted futex  *)
(* object for the address while somebody is inside one of the two calls.   *)
(***************************************************************************)
EXTENDS Blocklist, FiniteSets

CONSTANTS
    Waiter, Waker,  \* the two kinds of threads
    Timed,          \* the waiters that pass a timeout
    Signalled,      \* the waiters that receive signals
    WakeNum,        \* the numbers of waiters that wakers ask to be woken
    NULL            \* no futex object

ASSUME Threads == Waiter \cup Waker = Thread /\ Waiter \cap Waker = {}
ASSUME WaiterKinds == Timed \subseteq Waiter /\ Signalled \subseteq Waiter
ASSUME WakeNums == WakeNum \subseteq Nat
ASSUME ThreadsFinite == IsFiniteSet(Thread)
ASSUME NoFutex == NULL \notin BlockList

\* The futex objects, each with its own wait list; f stands for &f->wait too.
FutexObj == BlockList

VARIABLES
    word,       \* the user's int at the address
    map,        \* the futex object that the hash holds for the address
    refs,       \* _koh_refs of each futex object
    obj,        \* the variable f of each thread inside a call
    pc,         \* the point each thread has reached
    num,        \* the wake-ups that __futex_wake may still make
    armed,      \* waiters whose blockpoint timer is on a timer list
    firing      \* waiters whose __timeout callback is running

futexVars == <<word, map, refs, obj, pc, num, armed, firing>>
vars == <<blockVars, futexVars>>

WaitPC == {"user", "startblock", "timer_add", "load", "schedule", "cleanup", "timer_remove",
           "drop"}
WakePC == {"user", "wake", "unblock_one", "drop"}

\* From blockpoint_startblock to blockpoint_cleanup.
Blocking == {"timer_add", "load", "schedule", "cleanup"}

TypeOK ==
    /\ BlockTypeOK
    /\ word \in 0..1
    /\ map \in FutexObj \cup {NULL}
    /\ refs \in [FutexObj -> 0..Cardinality(Thread)]
    /\ obj \in [Thread -> FutexObj \cup {NULL}]
    /\ pc \in [Thread -> WaitPC \cup WakePC]
    /\ num \in [Thread -> Nat]
    /\ armed \cup firing \subseteq Timed

Init ==
    /\ BlockInit
    /\ word = 0
    /\ map = NULL
    /\ refs = [f \in FutexObj |-> 0]
    /\ obj = [t \in Thread |-> NULL]
    /\ pc = [t \in Thread |-> "user"]
    /\ num = [t \in Thread |-> 0]
    /\ armed = {}
    /\ firing = {}

Goto(t, from, to) ==
    /\ pc[t] = from
    /\ pc' = [pc EXCEPT ![t] = to]

-----------------------------------------------------------------------------
(***************************************************************************)
(* The futex object of the address.                                        *)
(***************************************************************************)

\* get_futex when the hash has an object for the address, or alloc is true.
get_futex(t, alloc) ==
    \E f \in FutexObj :
        /\ IF map = NULL THEN alloc /\ refs[f] = 0 ELSE f = map
        /\ map' = f
        /\ refs' = [refs EXCEPT ![f] = @ + 1]
        /\ obj' = [obj EXCEPT ![t] = f]

drop_futex(t) ==
    /\ refs' = [refs EXCEPT ![obj[t]] = @ - 1]
    /\ map' = IF refs'[obj[t]] = 0 THEN NULL ELSE map
    /\ obj' = [obj EXCEPT ![t] = NULL]

-----------------------------------------------------------------------------
(***************************************************************************)
(* __futex_wait                                                            *)
(***************************************************************************)

\* A waiter calls futex_wait: get_futex.
Wait(t) ==
    /\ t \in Waiter
    /\ Goto(t, "user", "startblock")
    /\ get_futex(t, TRUE)
    /\ UNCHANGED <<blockVars, word, num, armed, firing>>

StartBlock(t) ==
    /\ Goto(t, "startblock", IF t \in Timed THEN "timer_add" ELSE "load")
    /\ blockpoint_startblock(t, obj[t], {})
    /\ UNCHANGED <<word, map, refs, obj, num, armed, firing>>

\* The end of blockpoint_startblock with BLOCK_TIMEOUT.
TimerAdd(t) ==
    /\ Goto(t, "timer_add", "load")
    /\ armed' = armed \cup {t}
    /\ UNCHANGED <<blockVars, word, map, refs, obj, num, firing>>

\* Mutant: __futex_wait that does not look at the word again once it blocks.
Load_Dropped(t) ==
    /\ Goto(t, "load", "schedule")
    /\ UNCHANGED <<blockVars, word, map, refs, obj, num, armed, firing>>

\* The word is read again, now that a waker would find the blockpoint.
Load(t) ==
    /\ Goto(t, "load", IF word = 0 THEN "schedule" ELSE "cleanup")
    /\ UNCHANGED <<blockVars, word, map, refs, obj, num, armed, firing>>

Scheduled(t) ==
    /\ Goto(t, "schedule", "cleanup")
    /\ schedule(t)
    /\ UNCHANGED <<word, map, refs, obj, num, armed, firing>>

Cleanup(t) ==
    /\ Goto(t, "cleanup", IF t \in Timed THEN "timer_remove" ELSE "drop")
    /\ blockpoint_cleanup(t, obj[t])
    /\ UNCHANGED <<word, map, refs, obj, num, armed, firing>>

\* timer_remove takes the timer lock, which a running callback holds.
TimerRemove(t) ==
    /\ Goto(t, "timer_remove", "drop")
    /\ firing = {}
    /\ armed' = armed \ {t}
    /\ UNCHANGED <<blockVars, word, map, refs, obj, num, firing>>

\* drop_futex, then the return to the user, which ends a delivered signal.
WaitReturns(t) ==
    /\ t \in Waiter
    /\ Goto(t, "drop", "user")
    /\ drop_futex(t)
    /\ signal' = signal \ {t}
    /\ UNCHANGED <<state, uninter, onqueue, waitlist, unblocked, result, pending>>
    /\ UNCHANGED <<word, num, armed, firing>>

-----------------------------------------------------------------------------
(***************************************************************************)
(* __futex_wake                                                            *)
(***************************************************************************)

\* A waker changes the word and enters futex_wake.
Store(t) ==
    /\ t \in Waker
    /\ Goto(t, "user", "wake")
    /\ word' = 1 - word
    /\ \E n \in WakeNum : num' = [num EXCEPT ![t] = n]
    /\ UNCHANGED <<blockVars, map, refs, obj, armed, firing>>

Wake(t) ==
    /\ IF map = NULL
       THEN Goto(t, "wake", "user") /\ UNCHANGED <<map, refs, obj>>
       ELSE Goto(t, "wake", "unblock_one") /\ get_futex(t, FALSE)
    /\ UNCHANGED <<blockVars, word, num, armed, firing>>

\* Mutant: __futex_wake that wakes one thread fewer.
UnblockOne_OffByOne(t) ==
    LET more == num[t] > 1 /\ Sleeping(obj[t]) # {}
    IN  /\ Goto(t, "unblock_one", IF more THEN "unblock_one" ELSE "drop")
        /\ num' = [num EXCEPT ![t] = IF more THEN @ - 1 ELSE @]
        /\ IF num[t] > 1 THEN blocklist_unblock_one(obj[t]) ELSE UNCHANGED blockVars
        /\ UNCHANGED <<word, map, refs, obj, armed, firing>>

\* One round of the loop of __futex_wake, or its end.
UnblockOne(t) ==
    LET more == num[t] > 0 /\ Sleeping(obj[t]) # {}
    IN  /\ Goto(t, "unblock_one", IF more THEN "unblock_one" ELSE "drop")
        /\ num' = [num EXCEPT ![t] = IF more THEN @ - 1 ELSE @]
        /\ IF num[t] > 0 THEN blocklist_unblock_one(obj[t]) ELSE UNCHANGED blockVars
        /\ UNCHANGED <<word, map, refs, obj, armed, firing>>

WakeReturns(t) ==
    /\ t \in Waker
    /\ Goto(t, "drop", "user")
    /\ drop_futex(t)
    /\ UNCHANGED <<blockVars, word, num, armed, firing>>

-----------------------------------------------------------------------------
(***************************************************************************)
(* The environment: timers, timer ticks, and signals.                      *)
(***************************************************************************)

\* check_timers takes the expired timer off its list and calls __timeout.
Timeout(t) ==
    /\ t \in armed
    /\ firing = {}
    /\ armed' = armed \ {t}
    /\ firing' = {t}
    /\ timeout(t)
    /\ UNCHANGED <<word, map, refs, obj, pc, num>>

TimeoutUnblocks(t) ==
    /\ t \in firing
    /\ firing' = {}
    /\ blockpoint_unblock({t})
    /\ UNCHANGED <<word, map, refs, obj, pc, num, armed>>

Preempted(t) ==
    /\ pc[t] \notin Blocking
    /\ preempt(t)
    /\ UNCHANGED futexVars

Signal(t) ==
    /\ t \in Signalled
    /\ thread_send_signal(t)
    /\ UNCHANGED futexVars

-----------------------------------------------------------------------------
\* The steps inside the two calls.
Step(t) ==
    \/ StartBlock(t) \/ TimerAdd(t) \/ Load(t) \/ Scheduled(t) \/ Cleanup(t)
    \/ TimerRemove(t) \/ WaitReturns(t)
    \/ Wake(t) \/ UnblockOne(t) \/ WakeReturns(t)

Expire(t) == Timeout(t) \/ TimeoutUnblocks(t)

Next == \E t \in Thread :
    \/ Wait(t) \/ Store(t) \/ Step(t) \/ Expire(t)
    \/ Preempted(t) \/ Signal(t)

\* Threads that can run are run, and timers expire.
Fairness == \A t \in Thread : WF_vars(Step(t)) /\ WF_vars(Expire(t))

Spec == Init /\ [][Next]_vars
FairSpec == Spec /\ Fairness

-----------------------------------------------------------------------------
(***************************************************************************)
(* Properties.                                                             *)
(***************************************************************************)

\* Everybody inside futex_wait or futex_wake on the address works on the same
\* object, the one the hash holds, and its references are exactly theirs: a
\* waker can never be left with an object that new waiters do not use.
OneObject ==
    /\ \A t \in Thread : obj[t] # NULL => obj[t] = map
    /\ \A f \in FutexObj : refs[f] = Cardinality({t \in Thread : obj[t] = f})

\* A waiter that is asleep and that nothing has made runnable.
Asleep(t) ==
    /\ pc[t] = "schedule"
    /\ t \notin onqueue \cup pending

Sleepers == {t \in Waiter : Asleep(t)}

\* The wakers that will still look at the wait list, with a wake-up left for
\* every waiter.
WakeComing == \E w \in Waker :
    /\ pc[w] \in {"wake", "unblock_one"}
    /\ num[w] >= Cardinality(Sleepers)

\* No wake-up is lost between the test of the word in futex_wait and the
\* sleep: a waiter that sleeps although the word is no longer the value it
\* waits for has a waker on its way (for wakers that wake everybody).
NoLostWake == \A t \in Waiter : Asleep(t) /\ word # 0 => WakeComing

\* A blockpoint is on the wait list of its futex exactly from startblock to
\* cleanup, so that nobody wakes, or unlinks, through a dead stack frame.
ListedWhileBlocking ==
    /\ \A f \in FutexObj : NoDuplicates(waitlist[f])
    /\ \A f \in FutexObj : Members(waitlist[f]) =
           {t \in Waiter : obj[t] = f /\ pc[t] \in Blocking}

\* A timer is only armed, and its callback only runs, while the stack frame
\* that holds the blockpoint is still there.
TimerWithinWait == \A t \in armed \cup firing :
    pc[t] \in {"load", "schedule", "cleanup", "timer_remove"}

\* Everybody who uses an address uses one object, and no list or timer refers to
\* a blockpoint after the stack frame that holds it (sys/futex.c, blocklist.c).
ObjectsContained == OneObject /\ ListedWhileBlocking /\ TimerWithinWait

\* A waiter with a timeout always comes back, and one without comes back when
\* the word has changed for good and the wakers wake everybody.
TimedWaitEnds == \A t \in Timed : pc[t] = "schedule" ~> pc[t] = "user"
WokenInTheEnd == \A t \in Waiter : (pc[t] = "schedule" /\ word # 0) ~> (pc[t] # "schedule" \/ word = 0)
-----------------------------------------------------------------------------
(***************************************************************************)
(* The inductive invariant.                                                *)
(***************************************************************************)

\* Where each kind of thread can be, and that it has an object exactly there
\* where it works on one.
Inside ==
    \A t \in Thread :
       /\ t \in Waiter => pc[t] \in WaitPC
       /\ t \in Waker => pc[t] \in WakePC
       /\ pc[t] \in {"timer_add", "timer_remove"} => t \in Timed
       /\ obj[t] # NULL <=> pc[t] \notin {"user", "wake"}

\* A blockpoint that was unblocked before its thread sleeps has put the thread
\* on the run queue, from which nothing but schedule() takes it.
Queued ==
    \A t \in Thread : t \in unblocked /\ pc[t] \in {"timer_add", "load", "schedule"} => t \in onqueue

FutexInv == TypeOK /\ Inside /\ Queued /\ ObjectsContained

\* The waiters that __futex_wake would wake up to the last sleeping one.
AheadOn(f) == Ahead(waitlist[f], unblocked, Sleepers)

\* While the word has changed, some waker has a wake-up left for each of them.
\* Who joins the list now will not sleep, and does not come before the others.
Covered ==
    word # 0 => \A f \in FutexObj : AheadOn(f) # {} =>
       \E w \in Waker : /\ pc[w] \in {"wake", "unblock_one"}
                        /\ num[w] >= Cardinality(AheadOn(f))
=============================================================================
