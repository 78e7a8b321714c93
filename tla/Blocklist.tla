------------------------------ MODULE Blocklist ------------------------------
(***************************************************************************)
(* Blocking and waking of threads: kernel/blocklist.c, and the part of the *)
(* scheduler (kernel/schedule.c, kernel/processor.c) that decides whether  *)
(* a thread that called schedule() comes back from it.                     *)
(*                                                                         *)
(* This module has no behaviour of its own.  It declares the thread and    *)
(* wait-list state and one operator per kernel function; the modules of    *)
(* the code that blocks (Mutex, Futex, Neighbor, Pipe) extend it and put   *)
(* the operators into their own actions.                                   *)
(*                                                                         *)
(* Every thread is taken to be alone on its processor.  Threads never      *)
(* change processor, so this allows every interleaving that sharing a      *)
(* processor allows; how several threads share one is the subject of       *)
(* module Sched.  A thread has at most one blockpoint at a time (poll(),   *)
(* which has several, is not a client of this module).                     *)
(***************************************************************************)
EXTENDS Integers, Sequences

CONSTANTS
    Thread,     \* the threads that block and wake each other
    BlockList   \* the wait lists (struct blocklist)

VARIABLES
    state,      \* thread->state
    uninter,    \* threads with THREAD_UNINTER set
    onqueue,    \* threads with THREAD_ONQUEUE set (they are on the run queue)
    waitlist,   \* bl->waitlist, the longest waiting blockpoint first
    unblocked,  \* threads whose blockpoint has BLOCK_UNBLOCKED set
    result,     \* bp->result of each thread's blockpoint
    pending,    \* threads with a deliverable signal in pending_signals
    signal      \* threads with thread->signal # 0

blockVars == <<state, uninter, onqueue, waitlist, unblocked, result, pending, signal>>

\* enum thread_state, without INIT: module Sched models thread creation.
ThreadState == {"RUNNING", "BLOCKED"}

\* enum block_result
BlockResult == {"BLOCKED", "UNBLOCKED", "TIMEOUT", "INTERRUPTED"}

BlockTypeOK ==
    /\ state \in [Thread -> ThreadState]
    /\ uninter \subseteq Thread
    /\ onqueue \subseteq Thread
    /\ waitlist \in [BlockList -> Seq(Thread)]
    /\ unblocked \subseteq Thread
    /\ result \in [Thread -> BlockResult]
    /\ pending \subseteq Thread
    /\ signal \subseteq Thread

BlockInit ==
    /\ state = [t \in Thread |-> "RUNNING"]
    /\ uninter = {}
    /\ onqueue = {}
    /\ waitlist = [bl \in BlockList |-> << >>]
    /\ unblocked = {}
    /\ result = [t \in Thread |-> "UNBLOCKED"]
    /\ pending = {}
    /\ signal = {}

-----------------------------------------------------------------------------
(***************************************************************************)
(* Wait lists.                                                             *)
(***************************************************************************)

\* The threads with a blockpoint on a list, and that each is on it once.
Members(wl) == {wl[i] : i \in 1..Len(wl)}
NoDuplicates(wl) == \A i, j \in 1..Len(wl) : wl[i] = wl[j] => i = j

\* The list without its k-th blockpoint.
Without(wl, k) == SubSeq(wl, 1, k - 1) \o SubSeq(wl, k + 1, Len(wl))

\* linkedlist_remove of the blockpoint of t from the list wl.
Unlink(wl, t) == Without(wl, CHOOSE i \in 1..Len(wl) : wl[i] = t)

\* The threads of a list that blocklist_unblock_one takes before, or as, the
\* last one of A: those outside up with one of A at, or after, their place.
Ahead(wl, up, A) ==
    {t \in Members(wl) \ up : \E i, j \in 1..Len(wl) : i <= j /\ wl[i] = t /\ wl[j] \in A}

\* The positions of bl whose blockpoint has not been unblocked yet.
Sleeping(bl) == {i \in 1..Len(waitlist[bl]) : waitlist[bl][i] \notin unblocked}

-----------------------------------------------------------------------------
(***************************************************************************)
(* Scheduler.                                                              *)
(***************************************************************************)

\* _check_signals: schedule() moves a pending signal to thread->signal.
check_signals(t) ==
    /\ pending' = pending \ {t}
    /\ signal' = IF t \in pending THEN signal \cup {t} ELSE signal

\* Mutant: __select_thread without the THREAD_UNINTER test.
Selected_NoUninterTest(t) ==
    \/ t \in pending /\ t \notin uninter
    \/ t \in onqueue

\* Whether t, having called schedule(), is selected: either _check_signals
\* makes it the running thread again, or it is popped from the run queue and
\* the test on THREAD_UNINTER of __select_thread lets it through.  A thread
\* that is popped while still BLOCKED and is not THREAD_UNINTER does run.
Selected(t) ==
    \/ t \in pending /\ t \notin uninter
    \/ t \in onqueue /\ (t \in uninter => state[t] = "RUNNING")

\* schedule() returns to t.
schedule(t) ==
    /\ Selected(t)
    /\ onqueue' = onqueue \ {t}
    /\ check_signals(t)
    /\ state' = IF t \in pending /\ t \notin uninter
                THEN [state EXCEPT ![t] = "RUNNING"] ELSE state
    /\ UNCHANGED <<uninter, waitlist, unblocked, result>>

\* The processor of t, whose thread is inside schedule(), pops a stale
\* run-queue entry of t and runs the idle thread instead.
select_idle(t) ==
    /\ t \in onqueue
    /\ ~Selected(t)
    /\ onqueue' = onqueue \ {t}
    /\ UNCHANGED <<state, uninter, waitlist, unblocked, result, pending, signal>>

\* A timer tick, or a schedule() of a thread that is not about to block,
\* takes the processor from t and gives it back.
preempt(t) ==
    /\ t \in onqueue \cup pending
    /\ onqueue' = onqueue \ {t}
    /\ check_signals(t)
    /\ UNCHANGED <<state, uninter, waitlist, unblocked, result>>

\* processor_add_thread for the threads of ts.
processor_add_thread(ts) == onqueue' = onqueue \cup ts

-----------------------------------------------------------------------------
(***************************************************************************)
(* Blockpoints.                                                            *)
(***************************************************************************)

\* blockpoint_create and blockpoint_startblock; the caller adds the timer.
blockpoint_startblock(t, bl, flags) ==
    /\ state' = [state EXCEPT ![t] = "BLOCKED"]
    /\ uninter' = IF "UNINTERRUPT" \in flags THEN uninter \cup {t} ELSE uninter \ {t}
    /\ waitlist' = [waitlist EXCEPT ![bl] = Append(@, t)]
    /\ unblocked' = unblocked \ {t}
    /\ result' = [result EXCEPT ![t] = "BLOCKED"]
    /\ UNCHANGED <<onqueue, pending, signal>>

\* Mutant: blockpoint_cleanup that leaves the blockpoint on the list.
blockpoint_cleanup_KeepsListed(t, bl) ==
    /\ state' = [state EXCEPT ![t] = "RUNNING"]
    /\ uninter' = uninter \ {t}
    /\ UNCHANGED <<onqueue, waitlist, unblocked, result, pending, signal>>

\* blockpoint_cleanup up to the point where preemption is enabled again.
blockpoint_cleanup(t, bl) ==
    /\ state' = [state EXCEPT ![t] = "RUNNING"]
    /\ uninter' = uninter \ {t}
    /\ waitlist' = [waitlist EXCEPT ![bl] = Unlink(@, t)]
    /\ UNCHANGED <<onqueue, unblocked, result, pending, signal>>

\* The result that the rest of blockpoint_cleanup computes, which a signal or
\* a timeout that arrives after the unlinking still influences.
CleanupResult(t, flags) ==
    CASE t \in signal /\ "UNINTERRUPT" \notin flags -> "INTERRUPTED"
      [] result[t] = "BLOCKED" /\ t \in unblocked -> "UNBLOCKED"
      [] OTHER -> result[t]

\* blockpoint_unblock for the blockpoints of the threads of ts.
blockpoint_unblock(ts) ==
    /\ unblocked' = unblocked \cup ts
    /\ state' = [t \in Thread |-> IF t \in ts THEN "RUNNING" ELSE state[t]]
    /\ processor_add_thread(ts)
    /\ UNCHANGED <<uninter, waitlist, result, pending, signal>>

\* Mutant: blocklist_unblock_one without the break.
blocklist_unblock_one_NoBreak(bl) ==
    blockpoint_unblock({waitlist[bl][i] : i \in Sleeping(bl)})

\* Mutant: blocklist_unblock_one that iterates from the head of the list.
blocklist_unblock_one_FromHead(bl) ==
    \/ /\ Sleeping(bl) = {}
       /\ UNCHANGED blockVars
    \/ \E i \in Sleeping(bl) :
          /\ \A j \in Sleeping(bl) : j <= i
          /\ blockpoint_unblock({waitlist[bl][i]})

\* __timeout, the timer callback, up to its call of blockpoint_unblock.
timeout(t) ==
    /\ result' = [result EXCEPT ![t] = "TIMEOUT"]
    /\ UNCHANGED <<state, uninter, onqueue, waitlist, unblocked, pending, signal>>

\* blocklist_unblock_one: the oldest blockpoint not unblocked yet, if any.
blocklist_unblock_one(bl) ==
    \/ /\ Sleeping(bl) = {}
       /\ UNCHANGED blockVars
    \/ \E i \in Sleeping(bl) :
          /\ \A j \in Sleeping(bl) : i <= j
          /\ blockpoint_unblock({waitlist[bl][i]})

blocklist_unblock_all(bl) == blockpoint_unblock({waitlist[bl][i] : i \in Sleeping(bl)})

\* thread_unblock, the way a signal wakes a thread.
thread_unblock(t) ==
    IF t \in uninter
    THEN UNCHANGED <<state, onqueue>>
    ELSE /\ state' = [state EXCEPT ![t] = "RUNNING"]
         /\ processor_add_thread({t})

\* thread_send_signal to a thread other than the sender: an ordinary signal
\* that the receiver does not mask.
thread_send_signal(t) ==
    /\ pending' = pending \cup {t}
    /\ thread_unblock(t)
    /\ UNCHANGED <<uninter, waitlist, unblocked, result, signal>>

\* thread_send_signal of SIGKILL, which goes to thread->signal at once.
thread_send_sigkill(t) ==
    /\ signal' = signal \cup {t}
    /\ thread_unblock(t)
    /\ UNCHANGED <<uninter, waitlist, unblocked, result, pending>>
=============================================================================
