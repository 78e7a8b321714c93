-------------------------------- MODULE Sched --------------------------------
(***************************************************************************)
(* The scheduler and the life of threads: kernel/schedule.c,               *)
(* kernel/processor.c, kernel/thread.c, and the uses that blocklist.c,     *)
(* signal.c, fork.c and the slab allocator make of a thread.               *)
(*                                                                         *)
(* Module Blocklist takes every thread to be alone on its processor.  Here *)
(* threads share processors, are created, exit, and are created again from *)
(* the same memory.  Thread is the set of thread objects of the slab       *)
(* cache.  The priorities of the run queue are not modelled: a pop may     *)
(* return any entry.                                                       *)
(***************************************************************************)
EXTENDS Naturals, Sequences, FiniteSets

CONSTANTS
    Thread,     \* the memory of thread objects
    CPU,        \* the processors (struct processor)
    idle,       \* stands for the idle_thread of any processor
    NULL        \* no list, or no thread

VARIABLES
    current,    \* the thread whose stack each processor runs on
    running,    \* proc->running
    queue,      \* how often each thread is linked in proc->runqueue
    workqueue,  \* the threads whose wi_delete is on proc->workqueue, newest first
    state,      \* thread->state
    onqueue, uninter, dead,     \* threads with these flags
    processor,  \* thread->processor
    list,       \* the processor of thread->runqueue_node.entry.list
    pending,    \* threads with pending_signals
    pc, call,   \* where a thread is, and in which of its calls of the scheduler
    parent,     \* the thread that is creating a thread
    panic,      \* the assertion or panic that failed
    twice       \* a node was inserted in a run queue that still was in one

objVars == <<state, onqueue, uninter, dead, processor, pending>>
queueVars == <<queue, list, twice>>
vars == <<current, running, workqueue, queueVars, objVars, pc, call, parent, panic>>

PC == {"free", "new", "ready", "run", "call", "select", "away", "resume", "back"}
Call == {"none", "block", "preempt", "exit"}

TypeOK ==
    /\ current \in [CPU -> Thread \cup {idle}]
    /\ running \in [CPU -> Thread \cup {idle}]
    /\ queue \in [CPU -> [Thread -> 0..2]]
    /\ workqueue \in [CPU -> Seq(Thread)]
    /\ state \in [Thread -> {"INIT", "RUNNING", "BLOCKED"}]
    /\ onqueue \subseteq Thread /\ uninter \subseteq Thread /\ dead \subseteq Thread
    /\ processor \in [Thread -> CPU]
    /\ list \in [Thread -> CPU \cup {NULL}]
    /\ pending \subseteq Thread
    /\ pc \in [Thread -> PC] /\ call \in [Thread -> Call]
    /\ parent \in [Thread -> Thread \cup {NULL}]
    /\ panic \in {"none", "list", "select", "startblock", "cleanup", "unreachable"}
    /\ twice \in BOOLEAN

\* One thread runs, the others have never been used; the first processor of
\* all threads is arbitrary until processor_add_thread sets it.
Init == \E t \in Thread, c \in CPU :
    /\ current = [d \in CPU |-> IF d = c THEN t ELSE idle]
    /\ running = current
    /\ queue = [d \in CPU |-> [u \in Thread |-> 0]]
    /\ workqueue = [d \in CPU |-> << >>]
    /\ state = [u \in Thread |-> IF u = t THEN "RUNNING" ELSE "INIT"]
    /\ onqueue = {} /\ uninter = {} /\ dead = {} /\ pending = {}
    /\ processor = [u \in Thread |-> c]
    /\ list = [u \in Thread |-> NULL]
    /\ pc = [u \in Thread |-> IF u = t THEN "run" ELSE "free"]
    /\ call = [u \in Thread |-> "none"]
    /\ parent = [u \in Thread |-> NULL]
    /\ panic = "none"
    /\ twice = FALSE

\* The thread t on c is at the point p of the call w.
At(c, t, p, w) ==
    /\ current[c] = t /\ t # idle
    /\ pc[t] = p /\ call[t] = w
    /\ panic = "none"

Goto(t, p, w) ==
    /\ pc' = [pc EXCEPT ![t] = p]
    /\ call' = [call EXCEPT ![t] = w]

-----------------------------------------------------------------------------
(***************************************************************************)
(* Run queues.                                                             *)
(***************************************************************************)

\* processor_add_thread, as far as the flag and the queue go (bound: a node is
\* linked at most twice in a queue).
Add(c, t) ==
    IF t \in onqueue
    THEN UNCHANGED <<queueVars, onqueue>>
    ELSE /\ onqueue' = onqueue \cup {t}
         /\ queue[c][t] < 2
         /\ queue' = [queue EXCEPT ![c][t] = @ + 1]
         /\ list' = [list EXCEPT ![t] = c]
         /\ twice' = (twice \/ \E d \in CPU : queue[d][t] > 0)

\* blockpoint_unblock, and the part of thread_unblock under its test.
MakeRunning(t) ==
    IF state[t] = "INIT"
    THEN UNCHANGED <<state, queueVars, onqueue>>
    ELSE /\ state' = [state EXCEPT ![t] = "RUNNING"]
         /\ Add(processor[t], t)

\* _check_signals on the thread t of processor c
CheckSignals(t) ==
    /\ pending' = pending \ {t}
    /\ IF t \in pending /\ t \notin uninter
       THEN /\ state' = [state EXCEPT ![t] = "RUNNING"]
            /\ running' = [running EXCEPT ![processor[t]] = t]
       ELSE UNCHANGED <<state, running>>

-----------------------------------------------------------------------------
(***************************************************************************)
(* Threads are created: sys_fork, sys_clone, worker_start.                 *)
(***************************************************************************)

\* kobj_allocate gives a free thread object, and _thread_init resets it.
Allocate(c, t) ==
    /\ At(c, t, "run", "none")
    /\ \A u \in Thread : parent[u] # t
    /\ \E n \in Thread :
          /\ pc[n] = "free"
          /\ Goto(n, "new", "none")
          /\ state' = [state EXCEPT ![n] = "INIT"]
          /\ onqueue' = onqueue \ {n}
          /\ uninter' = uninter \ {n}
          /\ dead' = dead \ {n}
          /\ pending' = pending \ {n}
          /\ parent' = [parent EXCEPT ![n] = t]
    /\ UNCHANGED <<current, running, workqueue, queueVars, processor, panic>>

\* The new thread becomes runnable on a processor that select_processor picks.
Start(c, t) ==
    /\ At(c, t, "run", "none")
    /\ \E n \in Thread, d \in CPU :
          /\ parent[n] = t
          /\ Goto(n, "ready", "none")
          /\ state' = [state EXCEPT ![n] = "RUNNING"]
          /\ processor' = [processor EXCEPT ![n] = d]
          /\ parent' = [parent EXCEPT ![n] = NULL]
          /\ Add(d, n)
    /\ UNCHANGED <<current, running, workqueue, uninter, dead, pending, panic>>

-----------------------------------------------------------------------------
(***************************************************************************)
(* Threads call the scheduler to block, to be preempted, and to exit.      *)
(***************************************************************************)

\* The assertions on proc->running in blocklist.c.
RunningOK(t) == running[processor[t]] \in {t, idle}

\* blockpoint_startblock
StartBlock(c, t) ==
    /\ At(c, t, "run", "none")
    /\ \E flag \in BOOLEAN : uninter' = IF flag THEN uninter \cup {t} ELSE uninter \ {t}
    /\ panic' = IF RunningOK(t) THEN panic ELSE "startblock"
    /\ running' = [running EXCEPT ![processor[t]] = idle]
    /\ state' = [state EXCEPT ![t] = "BLOCKED"]
    /\ Goto(t, "call", "block")
    /\ UNCHANGED <<current, workqueue, queueVars, onqueue, dead, processor, pending, parent>>

\* blockpoint_cleanup, after schedule() or, if the thread need not sleep any
\* more, instead of it.
Cleanup(c, t) ==
    /\ At(c, t, "call", "block") \/ At(c, t, "back", "block")
    /\ panic' = IF RunningOK(t) THEN panic ELSE "cleanup"
    /\ running' = [running EXCEPT ![processor[t]] = t]
    /\ state' = [state EXCEPT ![t] = "RUNNING"]
    /\ uninter' = uninter \ {t}
    /\ Goto(t, "run", "none")
    /\ UNCHANGED <<current, workqueue, queueVars, onqueue, dead, processor, pending, parent>>

Preempt(c, t) ==
    /\ At(c, t, "run", "none")
    /\ Goto(t, "call", "preempt")
    /\ UNCHANGED <<current, running, workqueue, queueVars, objVars, parent, panic>>

\* The end of preempt(): a thread does some of the processor's work.  The only
\* work are the wi_delete items, which give exited threads back to the slab.
PreemptReturns(c, t) ==
    /\ At(c, t, "back", "preempt")
    /\ IF workqueue[c] = << >>
       THEN Goto(t, "run", "none") /\ UNCHANGED workqueue
       ELSE /\ pc' = [pc EXCEPT ![t] = "run", ![Head(workqueue[c])] = "free"]
            /\ call' = [call EXCEPT ![t] = "none", ![Head(workqueue[c])] = "none"]
            /\ workqueue' = [workqueue EXCEPT ![c] = Tail(@)]
    /\ UNCHANGED <<current, running, queueVars, objVars, parent, panic>>

\* thread_exit, whose schedule() must not return.
Exit(c, t) ==
    /\ At(c, t, "run", "none")
    /\ \A n \in Thread : parent[n] # t
    /\ uninter' = uninter \cup {t}
    /\ dead' = dead \cup {t}
    /\ running' = [running EXCEPT ![processor[t]] = idle]
    /\ state' = [state EXCEPT ![t] = "INIT"]
    /\ workqueue' = [workqueue EXCEPT ![processor[t]] = <<t>> \o @]
    /\ Goto(t, "call", "exit")
    /\ UNCHANGED <<current, queueVars, onqueue, processor, pending, parent, panic>>

-----------------------------------------------------------------------------
(***************************************************************************)
(* __do_schedule                                                           *)
(***************************************************************************)

BeforeSelect(c, t) ==
    /\ \E w \in Call : At(c, t, "call", w)
    /\ CheckSignals(t)
    /\ Goto(t, "select", call[t])
    /\ UNCHANGED <<current, workqueue, queueVars, onqueue, uninter, dead, processor>>
    /\ UNCHANGED <<parent, panic>>

\* Whether __select_thread runs the thread that it has popped.
Runnable(t) ==
    /\ t \in uninter => state[t] = "RUNNING"
    /\ t \notin dead
    /\ state[t] # "INIT"

\* Mutant: __select_thread that does not throw the old thread back.
ThrownBack_Never(c) == {}

\* The thread that is thrown back on the queue by __select_thread, if any.
ThrownBack(c) ==
    IF running[c] # idle /\ running[c] \notin onqueue
    THEN {t \in {running[c]} : state[t] = "RUNNING"} ELSE {}

\* The links of the run queue of c once that is done.
Linked(c) == [t \in Thread |-> queue[c][t] + IF t \in ThrownBack(c) THEN 1 ELSE 0]

\* __select_thread, in which x is popped, and the switch to the thread that
\* it selects; x = idle when the queue is empty.  The assertion of
\* linkedlist_do_remove fails if the node of x says it is in another list.
Select(c, x) ==
    LET old == current[c]
        links == Linked(c)
        back == ThrownBack(c)
        next == IF x # idle /\ Runnable(x) THEN x ELSE idle
        where == [t \in Thread |-> IF t \in back THEN c ELSE list[t]]
    IN  /\ panic = "none"
        /\ old # idle => pc[old] = "select"
        /\ IF \A t \in Thread : links[t] = 0 THEN x = idle ELSE x # idle /\ links[x] > 0
        /\ panic' = CASE back # {} /\ (back # {old} \/ old \in dead) -> "select"
                      [] x # idle /\ where[x] # c -> "list"
                      [] next = old /\ old # idle /\ call[old] = "exit" -> "unreachable"
                      [] OTHER -> panic
        /\ queue' = [queue EXCEPT ![c] =
               [t \in Thread |-> IF t = x THEN links[t] - 1 ELSE links[t]]]
        /\ list' = [t \in Thread |-> IF t = x THEN NULL ELSE where[t]]
        /\ twice' = (twice \/ \E d \in CPU, t \in Thread : t \in back /\ queue[d][t] > 0)
        /\ onqueue' = (onqueue \cup back) \ {x}
        /\ running' = [running EXCEPT ![c] = next]
        /\ current' = [current EXCEPT ![c] = next]
        /\ pc' = [t \in Thread |->
               CASE t = old /\ t = next -> "back"
                 [] t = old -> "away"
                 [] t = next -> IF pc[t] = "away" THEN "resume" ELSE "run"
                 [] OTHER -> pc[t]]
        /\ UNCHANGED <<workqueue, state, uninter, dead, processor, pending, call, parent>>

\* A thread comes back from the context switch, unless it has exited.
Resume(c, t) ==
    /\ \E w \in Call : At(c, t, "resume", w)
    /\ CheckSignals(t)
    /\ Goto(t, "back", call[t])
    /\ panic' = IF call[t] = "exit" THEN "unreachable" ELSE panic
    /\ UNCHANGED <<current, workqueue, queueVars, onqueue, uninter, dead, processor, parent>>

\* The idle thread does the work that is left (it calls schedule() all the time).
IdleWork(c) ==
    /\ current[c] = idle /\ workqueue[c] # << >>
    /\ panic = "none"
    /\ Goto(Head(workqueue[c]), "free", "none")
    /\ workqueue' = [workqueue EXCEPT ![c] = Tail(@)]
    /\ UNCHANGED <<current, running, queueVars, objVars, parent, panic>>

-----------------------------------------------------------------------------
(***************************************************************************)
(* Other threads, and interrupt handlers, wake a thread.                   *)
(***************************************************************************)

\* blockpoint_unblock of a blockpoint of t, which is on a list from startblock
\* to cleanup.
Unblock(t) ==
    /\ panic = "none"
    /\ call[t] = "block"
    /\ MakeRunning(t)
    /\ UNCHANGED <<current, running, workqueue, uninter, dead, processor, pending>>
    /\ UNCHANGED <<pc, call, parent, panic>>

\* thread_send_signal by another processor, or while t does not run.
SendSignal(t) ==
    /\ panic = "none"
    /\ pc[t] # "free" /\ t \notin pending
    /\ \E c \in CPU : current[c] # t
    /\ pending' = pending \cup {t}
    /\ IF t \in uninter THEN UNCHANGED <<state, queueVars, onqueue>> ELSE MakeRunning(t)
    /\ UNCHANGED <<current, running, workqueue, uninter, dead, processor>>
    /\ UNCHANGED <<pc, call, parent, panic>>

-----------------------------------------------------------------------------
Next ==
    \/ \E c \in CPU, t \in Thread :
          \/ Allocate(c, t) \/ Start(c, t)
          \/ StartBlock(c, t) \/ Cleanup(c, t)
          \/ Preempt(c, t) \/ PreemptReturns(c, t)
          \/ Exit(c, t) \/ BeforeSelect(c, t) \/ Resume(c, t)
    \/ \E c \in CPU, x \in Thread \cup {idle} : Select(c, x)
    \/ \E c \in CPU : IdleWork(c)
    \/ \E t \in Thread : Unblock(t) \/ SendSignal(t)

Spec == Init /\ [][Next]_vars

-----------------------------------------------------------------------------
(***************************************************************************)
(* Properties.  A thread object that is used again while its old node is   *)
(* still in a run queue breaks that queue (see ListAssertion); the other   *)
(* properties say what holds as long as that has not happened.             *)
(***************************************************************************)

\* The assertions of __select_thread and of blocklist.c about proc->running
\* hold, and schedule() never returns to a thread that has exited.
AssertionsHold == ~twice => panic = "none"

\* A runnable thread is never forgotten: it runs, or is linked exactly once in
\* the run queue of its processor, whoever wakes, preempts or selects it at
\* the same time.
NoneForgotten == ~twice => \A t \in Thread :
    state[t] = "RUNNING" => \/ current[processor[t]] = t
                            \/ queue[processor[t]][t] = 1

\* The processors run on different stacks, none of them on that of a thread
\* that has been given back to the slab or is only being created.
StacksInUse == ~twice => \A c \in CPU : current[c] # idle =>
    /\ pc[current[c]] \notin {"free", "new", "ready", "away"}
    /\ \A d \in CPU : current[d] = current[c] => d = c

\* assert(entry->list == list) of linkedlist_do_remove: the node that
\* priqueue_pop takes from a run queue is in that run queue.
ListAssertion == panic # "list"
=============================================================================
