------------------------------- MODULE Process -------------------------------
(***************************************************************************)
(* Processes, from fork to the wait4() that collects them:                 *)
(* kernel/process.c, kernel/sys/fork.c, kernel/wait.c, kernel/signal.c,    *)
(* kernel/thread.c and the part of kernel/schedule.c that takes a pending  *)
(* signal.                                                                 *)
(*                                                                         *)
(* A process is named by its object.  pids are never reused and an object  *)
(* is reused only once its count is zero, so a pid and a live object       *)
(* determine each other.  The fields of an object survive its life: fork   *)
(* publishes a new process in the table before it has set its parent.      *)
(*                                                                         *)
(* A thread that is woken is put on the run queue whether or not it is     *)
(* asleep; schedule() returns once the thread is there (module Sched).     *)
(* queued is that token.  wait4() never blocks uninterruptibly.            *)
(***************************************************************************)
EXTENDS Integers, FiniteSets

CONSTANTS
    Proc,           \* process objects
    InitProc,       \* the process with pid 1
    Thread,         \* thread objects
    InitThread,     \* the only thread of InitProc at the start
    NULL,
    Signal,         \* the signals sys_kill may send
    Masks,          \* the signal masks that sys_sigprocmask may install
    SetActions,     \* <<signal, handler>> pairs that sys_sigaction may install
    WaitPids,       \* the processes that wait4 is called for; NULL stands for pid -1
    WaitOptions,    \* the option sets that wait4 is called with
    MaxForks,       \* bound: how often sys_fork and sys_clone are called
    MaxKills        \* bound: how often sys_kill is called

VARIABLES
    table,      \* the processes in processids
    parent,     \* proc->parent
    threads,    \* proc->threads
    flags,      \* proc->flags
    status,     \* proc->status
    refs,       \* the reference count of the process object
    entries,    \* the processes whose /proc directory exists
    actions,    \* proc->actions[sig].handler
    proc,       \* thread->process
    pc,         \* what the thread is doing
    exiting,    \* threads with THREAD_EXIT set
    sigmask,    \* thread->sigmask
    pending,    \* thread->pending_signals
    signal,     \* thread->signal, 0 when there is none
    queued,     \* threads with THREAD_ONQUEUE set
    child,      \* the process that the thread is creating in sys_fork
    request,    \* the arguments of the thread's wait4
    waiters,    \* the processes that wait4 holds a waiter for
    onlist,     \* those of them whose wait list holds the thread's blockpoint
    ready,      \* whether num > 0 in wait4
    ret,        \* ret in __cleanup_waiters: 0, an error, or the process it reports
    cursor,     \* the waiter that the thread is working on
    forks, kills,
    twice,      \* history: processes for which process_exit was called again
    signalled,  \* history: processes whose status a signal has set
    reports     \* history: how often wait4 returned the process, in this life

procVars == <<table, parent, threads, flags, status, refs, entries, actions>>
threadVars == <<proc, exiting, sigmask, pending, signal, queued, child>>
waitVars == <<request, waiters, onlist, ready, ret, cursor>>
boundVars == <<forks, kills, twice, signalled, reports>>
vars == <<procVars, threadVars, waitVars, boundVars, pc>>

SIGKILL == 9
SIGTERM == 15
SIGCHLD == 17
SIGCONT == 18
SIGSTOP == 19
SIGTSTP == 20

\* The macros that take a status apart.  WIFSTOPPED computes
\* (short)((s * 0x10001) >> 8), which exchanges the two bytes of s.
WTERMSIG(s) == s % 128
WIFEXITED(s) == WTERMSIG(s) = 0
WIFSTOPPED(s) ==
    LET swapped == ((s % 256) * 256) + ((s \div 256) % 256)
    IN  swapped > 32512 /\ swapped < 32768
WIFCONTINUED(s) == s = 65535

\* process_make_status; the core bit is left out, no signal here dumps core.
process_make_status(code, sig, exited) == IF exited THEN code * 256 ELSE sig

\* Handlers: what sys_sigaction installs.
Handlers == {"SIG_DFL", "SIG_IGN", "user"}

\* The places a thread can be at.  "user": in user mode; "ret": about to go
\* back there (thread_check_status_retuser).
Pcs == {"free", "user", "fork", "ret", "sigwake", "exit1", "exit2", "gone",
        "pexit1", "pexit2", "pexit3", "pexit4",
        "wait1", "wait2", "wait3", "schedule", "cleanup",
        "read1", "read2", "read3"}

TypeOK ==
    /\ table \subseteq Proc
    /\ parent \in [Proc -> Proc \cup {NULL}]
    /\ threads \in [Proc -> SUBSET Thread]
    /\ flags \in [Proc -> SUBSET {"EXITED", "CHANGED"}]
    /\ status \in [Proc -> 0 .. 65535]
    /\ refs \in [Proc -> Int]
    /\ entries \subseteq Proc
    /\ actions \in [Proc -> [Signal \cup {SIGCHLD} -> Handlers]]
    /\ proc \in [Thread -> Proc \cup {NULL}]
    /\ pc \in [Thread -> Pcs]
    /\ exiting \subseteq Thread
    /\ sigmask \in [Thread -> SUBSET (Signal \cup {SIGCHLD})]
    /\ pending \in [Thread -> SUBSET (Signal \cup {SIGCHLD})]
    /\ signal \in [Thread -> Signal \cup {0, SIGKILL, SIGCHLD}]
    /\ queued \subseteq Thread
    /\ child \in [Thread -> Proc \cup {NULL}]
    /\ waiters \in [Thread -> SUBSET Proc]
    /\ onlist \in [Thread -> SUBSET Proc]
    /\ ready \in [Thread -> BOOLEAN]
    /\ cursor \in [Thread -> Proc \cup {NULL}]

\* No wait4 is under way.
NoRequest == [pid |-> NULL, options |-> {}]

Init ==
    /\ table = {InitProc}
    /\ parent = [p \in Proc |-> NULL]
    /\ threads = [p \in Proc |-> IF p = InitProc THEN {InitThread} ELSE {}]
    /\ flags = [p \in Proc |-> {}]
    /\ status = [p \in Proc |-> 0]
    /\ refs = [p \in Proc |-> IF p = InitProc THEN 3 ELSE 0]
    /\ entries = {InitProc}
    /\ actions = [p \in Proc |-> [s \in Signal \cup {SIGCHLD} |-> "SIG_DFL"]]
    /\ proc = [t \in Thread |-> IF t = InitThread THEN InitProc ELSE NULL]
    /\ pc = [t \in Thread |-> IF t = InitThread THEN "user" ELSE "free"]
    /\ exiting = {} /\ queued = {}
    /\ sigmask = [t \in Thread |-> {}]
    /\ pending = [t \in Thread |-> {}]
    /\ signal = [t \in Thread |-> 0]
    /\ child = [t \in Thread |-> NULL]
    /\ request = [t \in Thread |-> NoRequest]
    /\ waiters = [t \in Thread |-> {}] /\ onlist = [t \in Thread |-> {}]
    /\ ready = [t \in Thread |-> FALSE]
    /\ ret = [t \in Thread |-> "0"]
    /\ cursor = [t \in Thread |-> NULL]
    /\ forks = 0 /\ kills = 0 /\ twice = {} /\ signalled = {}
    /\ reports = [p \in Proc |-> 0]

At(t, place) == pc[t] = place
Goto(t, place) == pc' = [pc EXCEPT ![t] = place]

\* kobj_getref and kobj_putref on each process of a set (module Slab).
GetRefs(r, S) == [p \in Proc |-> IF p \in S THEN r[p] + 1 ELSE r[p]]
PutRefs(r, S) == [p \in Proc |-> IF p \in S THEN r[p] - 1 ELSE r[p]]

\* blocklist_unblock_all(&p->wait)
WakeWaiters(p) == queued' = queued \cup {t \in Thread : p \in onlist[t]}

-----------------------------------------------------------------------------
\* fork and clone

\* A thread object that was just allocated: _thread_init.  It does not reset
\* thread->signal, which keeps the value it had in the object's previous life.
NewThread(u) ==
    /\ exiting' = exiting \ {u}
    /\ sigmask' = [sigmask EXCEPT ![u] = {}]
    /\ pending' = [pending EXCEPT ![u] = {}]
    /\ UNCHANGED <<signal, queued>>

\* kobj_allocate(&kobj_process): _process_init resets the object and inserts
\* it into the table.  parent keeps the value of the object's previous life.
AllocateProcess(t, p) ==
    /\ At(t, "user") /\ forks < MaxForks
    /\ refs[p] = 0
    /\ table' = table \cup {p}
    /\ refs' = [refs EXCEPT ![p] = 2]
    /\ flags' = [flags EXCEPT ![p] = {}]
    /\ status' = [status EXCEPT ![p] = 0]
    /\ actions' = [actions EXCEPT ![p] = [s \in DOMAIN @ |-> "SIG_DFL"]]
    /\ child' = [child EXCEPT ![t] = p]
    /\ forks' = forks + 1
    /\ reports' = [reports EXCEPT ![p] = 0]
    /\ signalled' = signalled \ {p}
    /\ Goto(t, "fork")
    /\ UNCHANGED <<parent, threads, entries, proc, exiting, sigmask, pending, signal,
                   queued, waitVars, kills, twice>>

copy_process(from, to) ==
    /\ parent' = [parent EXCEPT ![to] = from]
    /\ actions' = [actions EXCEPT ![to] = actions[from]]

\* The directory /proc/<pid>; its twelve entries hold one reference each,
\* which are given back together and count as one here.
__create_proc_entries(p) == entries' = entries \cup {p}

\* The rest of sys_fork: copy_process, process_attach_thread, the /proc
\* directory, and the put of the reference that kobj_allocate returned.
sys_fork(t, u) ==
    LET p == child[t] IN
    /\ At(t, "fork") /\ At(u, "free")
    /\ copy_process(proc[t], p)
    /\ __create_proc_entries(p)
    /\ refs' = [GetRefs(refs, {proc[t]}) EXCEPT ![p] = @ + 2 - 1]
    /\ threads' = [threads EXCEPT ![p] = @ \cup {u}]
    /\ proc' = [proc EXCEPT ![u] = p]
    /\ NewThread(u)
    /\ child' = [child EXCEPT ![t] = NULL]
    /\ pc' = [pc EXCEPT ![t] = "ret", ![u] = "user"]
    /\ UNCHANGED <<table, flags, status, waitVars, boundVars>>

sys_clone(t, u) ==
    LET p == proc[t] IN
    /\ At(t, "user") /\ At(u, "free") /\ forks < MaxForks
    /\ refs' = GetRefs(refs, {p})
    /\ threads' = [threads EXCEPT ![p] = @ \cup {u}]
    /\ proc' = [proc EXCEPT ![u] = p]
    /\ NewThread(u)
    /\ pc' = [pc EXCEPT ![t] = "ret", ![u] = "user"]
    /\ forks' = forks + 1
    /\ UNCHANGED <<table, parent, flags, status, entries, actions, child, waitVars,
                   kills, twice, signalled, reports>>

-----------------------------------------------------------------------------
\* Signals

\* thread_send_signal; the sender itself is not unblocked.
Accepts(u, s) == s \notin sigmask[u]
DeliverTo(S, s, sender) ==
    /\ IF s \in {SIGKILL, SIGSTOP}
         THEN /\ signal' = [u \in Thread |-> IF u \in S THEN SIGKILL ELSE signal[u]]
              /\ UNCHANGED pending
         ELSE /\ pending' = [u \in Thread |-> IF u \in S THEN pending[u] \cup {s} ELSE pending[u]]
              /\ UNCHANGED signal
    /\ queued' = queued \cup (S \ {sender})

\* process_send_signal: SIGKILL and SIGSTOP go to every thread, any other
\* signal to the first thread of the list that does not mask it.
process_send_signal(p, s, sender) ==
    \/ /\ s \in {SIGKILL, SIGSTOP}
       /\ DeliverTo(threads[p], s, sender)
    \/ /\ s \notin {SIGKILL, SIGSTOP}
       /\ \E u \in threads[p] : Accepts(u, s) /\ DeliverTo({u}, s, sender)
    \/ /\ s \notin {SIGKILL, SIGSTOP}
       /\ \A u \in threads[p] : ~Accepts(u, s)
       /\ UNCHANGED <<pending, signal, queued>>

\* init is never killed: it blocks every signal and does not exit.
sys_kill(t, p, s) ==
    /\ At(t, "user") /\ kills < MaxKills
    /\ p \in table \ {InitProc}
    /\ process_send_signal(p, s, t)
    /\ kills' = kills + 1
    /\ Goto(t, "ret")
    /\ UNCHANGED <<procVars, proc, exiting, sigmask, child, waitVars, forks,
                   twice, signalled, reports>>

sys_sigaction(t, s, handler) ==
    /\ At(t, "user")
    /\ <<s, handler>> \in SetActions
    /\ actions' = [actions EXCEPT ![proc[t]][s] = handler]
    /\ Goto(t, "ret")
    /\ UNCHANGED <<table, parent, threads, flags, status, refs, entries, threadVars, waitVars, boundVars>>

sys_sigprocmask(t, mask) ==
    /\ At(t, "user")
    /\ sigmask' = [sigmask EXCEPT ![t] = mask]
    /\ Goto(t, "ret")
    /\ UNCHANGED <<procVars, proc, exiting, pending, signal, queued, child, waitVars, boundVars>>

\* _check_signals: the lowest pending signal replaces thread->signal.
CheckSignals(t) ==
    IF pending[t] = {} THEN UNCHANGED <<pending, signal>>
    ELSE LET s == CHOOSE x \in pending[t] : \A y \in pending[t] : x <= y IN
         /\ pending' = [pending EXCEPT ![t] = @ \ {s}]
         /\ signal' = [signal EXCEPT ![t] = s]

\* thread_check_status_retuser calls preempt(), which takes the thread off
\* the run queue and takes a pending signal.
Preempt(t) ==
    /\ At(t, "ret") /\ pending[t] # {}
    /\ CheckSignals(t)
    /\ queued' = queued \ {t}
    /\ UNCHANGED <<procVars, proc, exiting, sigmask, child, waitVars, boundVars, pc>>

\* What is to be done about thread->signal; SIGKILL has no handler.
Disposition(t) ==
    IF signal[t] = 0 THEN "none"
    ELSE IF signal[t] = SIGKILL THEN "SIG_DFL"
    ELSE actions[proc[t]][signal[t]]

\* A signal that is handled in user mode: x86_64_do_signal clears
\* thread->signal and redirects the thread to its handler.
UserHandler(t) ==
    /\ At(t, "ret") /\ pending[t] = {} /\ Disposition(t) = "user"
    /\ signal' = [signal EXCEPT ![t] = 0]
    /\ queued' = queued \ {t}
    /\ Goto(t, IF t \in exiting THEN "exit1" ELSE "user")
    /\ UNCHANGED <<procVars, proc, exiting, sigmask, pending, child, waitVars, boundVars>>

\* The default action of a signal.
DefaultStatus(s) ==
    CASE s \in {SIGKILL, SIGTERM} -> process_make_status(0, s, FALSE)
      [] s = SIGCONT -> 65535
      [] s = SIGTSTP -> 127

DefaultAction(t) ==
    LET s == signal[t]  p == proc[t] IN
    /\ At(t, "ret") /\ pending[t] = {} /\ Disposition(t) = "SIG_DFL"
    /\ signal' = [signal EXCEPT ![t] = 0]
    /\ exiting' = IF s \in {SIGKILL, SIGTERM} THEN exiting \cup {t} ELSE exiting
    /\ IF s = SIGCHLD THEN UNCHANGED <<status, flags>>
       ELSE /\ status' = [status EXCEPT ![p] = DefaultStatus(s)]
            /\ flags' = [flags EXCEPT ![p] = @ \cup {"CHANGED"}]
    /\ signalled' = IF s = SIGCHLD THEN signalled ELSE signalled \cup {p}
    /\ queued' = queued \ {t}
    /\ Goto(t, "sigwake")
    /\ UNCHANGED <<table, parent, threads, refs, entries, actions, proc, sigmask, pending,
                   child, waitVars, forks, kills, twice, reports>>

\* blocklist_unblock_all(&process->wait) after the default action
SignalWake(t) ==
    /\ At(t, "sigwake")
    /\ WakeWaiters(proc[t])
    /\ Goto(t, IF t \in exiting THEN "exit1" ELSE "user")
    /\ UNCHANGED <<procVars, proc, exiting, sigmask, pending, signal, child, waitVars, boundVars>>

\* SIG_IGN, or no signal at all
ReturnToUser(t) ==
    /\ At(t, "ret") /\ pending[t] = {} /\ Disposition(t) \in {"none", "SIG_IGN"}
    /\ signal' = [signal EXCEPT ![t] = 0]
    /\ queued' = queued \ {t}
    /\ Goto(t, IF t \in exiting THEN "exit1" ELSE "user")
    /\ UNCHANGED <<procVars, proc, exiting, sigmask, pending, child, waitVars, boundVars>>

\* An interrupt takes a thread out of user mode when there is something for
\* thread_check_status_retuser to do.
Interrupt(t) ==
    /\ At(t, "user")
    /\ t \in exiting \/ t \in queued \/ signal[t] # 0 \/ pending[t] # {}
    /\ Goto(t, "ret")
    /\ UNCHANGED <<procVars, threadVars, waitVars, boundVars>>

-----------------------------------------------------------------------------
\* Exit

sys_exit(t) ==
    /\ At(t, "user") /\ proc[t] # InitProc
    /\ exiting' = exiting \cup {t}
    /\ Goto(t, "ret")
    /\ UNCHANGED <<procVars, proc, sigmask, pending, signal, queued, child, waitVars, boundVars>>

\* The threads are marked; none of them is woken.
sys_exit_group(t) ==
    /\ At(t, "user") /\ proc[t] # InitProc
    /\ exiting' = exiting \cup threads[proc[t]]
    /\ Goto(t, "ret")
    /\ UNCHANGED <<procVars, proc, sigmask, pending, signal, queued, child, waitVars, boundVars>>

\* sys_do_exit takes the thread off proc->threads ...
LeaveProcess(t) ==
    /\ At(t, "exit1")
    /\ threads' = [threads EXCEPT ![proc[t]] = @ \ {t}]
    /\ Goto(t, "exit2")
    /\ UNCHANGED <<table, parent, flags, status, refs, entries, actions, threadVars, waitVars, boundVars>>

\* ... and then, without a lock, reads how many are left.
sys_do_exit(t) ==
    /\ At(t, "exit2")
    /\ Goto(t, IF threads[proc[t]] = {} THEN "pexit1" ELSE "gone")
    /\ UNCHANGED <<procVars, threadVars, waitVars, boundVars>>

\* process_exit up to the flags.  WIFEXITED(status) keeps a status that a
\* signal left there.
ExitStatus(t) ==
    LET p == proc[t] IN
    /\ At(t, "pexit1")
    /\ status' = [status EXCEPT ![p] = IF WIFEXITED(@) THEN process_make_status(1, 0, TRUE) ELSE @]
    /\ flags' = [flags EXCEPT ![p] = {"EXITED", "CHANGED"}]
    /\ twice' = IF p \in entries /\ ~\E u \in Thread \ {t} : proc[u] = p /\ pc[u] \in {"pexit2", "pexit3"}
                THEN twice ELSE twice \cup {p}
    /\ Goto(t, "pexit2")
    /\ UNCHANGED <<table, parent, threads, refs, entries, actions, threadVars, waitVars,
                   forks, kills, signalled, reports>>

ExitWake(t) ==
    /\ At(t, "pexit2")
    /\ WakeWaiters(proc[t])
    /\ Goto(t, "pexit3")
    /\ UNCHANGED <<procVars, proc, exiting, sigmask, pending, signal, child, waitVars, boundVars>>

__remove_proc_entries(t) ==
    /\ At(t, "pexit3")
    /\ entries' = entries \ {proc[t]}
    /\ refs' = PutRefs(refs, {proc[t]})
    /\ Goto(t, "pexit4")
    /\ UNCHANGED <<table, parent, threads, flags, status, actions, threadVars, waitVars, boundVars>>

\* Mutant: children that have exited themselves are left behind.
Orphans_Alive(p) == {c \in table : parent[c] = p /\ "EXITED" \notin flags[c]}

\* The children that process_exit finds in the table.
Orphans(p) == {c \in table : parent[c] = p}

\* Mutant: the children point to init without a reference to it.
HandOver_NoGet(p) == [refs EXCEPT ![p] = @ - Cardinality(Orphans(p))]

\* The references of the children move from p to init.
HandOver(p) ==
    [refs EXCEPT ![p] = @ - Cardinality(Orphans(p)), ![InitProc] = @ + Cardinality(Orphans(p))]

\* The end of process_exit, under the lock of the table: SIGCHLD to the
\* parent, and init becomes the parent of the children.
process_exit(t) ==
    LET p == proc[t] IN
    /\ At(t, "pexit4")
    /\ IF parent[p] \in table
         THEN process_send_signal(parent[p], SIGCHLD, t)
         ELSE UNCHANGED <<pending, signal, queued>>
    /\ parent' = [c \in Proc |-> IF c \in Orphans(p) THEN InitProc ELSE parent[c]]
    /\ refs' = HandOver(p)
    /\ Goto(t, "gone")
    /\ UNCHANGED <<table, threads, flags, status, entries, actions, proc, exiting, sigmask,
                   child, waitVars, boundVars>>

\* The end of sys_do_exit and thread_exit: the thread gives up its process
\* and its object is free for the next sys_fork or sys_clone.  thread->signal
\* keeps its value: _thread_init does not reset it.
thread_exit(t) ==
    /\ At(t, "gone")
    /\ refs' = PutRefs(refs, {proc[t]})
    /\ proc' = [proc EXCEPT ![t] = NULL]
    /\ pending' = [pending EXCEPT ![t] = {}]
    /\ exiting' = exiting \ {t} /\ queued' = queued \ {t}
    /\ Goto(t, "free")
    /\ UNCHANGED <<table, parent, threads, flags, status, entries, actions, sigmask, signal,
                   child, waitVars, boundVars>>

-----------------------------------------------------------------------------
\* wait4

sys_wait4(t, pid, options) ==
    /\ At(t, "user")
    /\ request' = [request EXCEPT ![t] = [pid |-> pid, options |-> options]]
    /\ Goto(t, "wait1")
    /\ UNCHANGED <<procVars, threadVars, waiters, onlist, ready, ret, cursor, boundVars>>

\* The processes that __init_waiters starts a waiter for.
Matching(t) ==
    IF request[t].pid # NULL THEN {request[t].pid} \cap table
    ELSE {p \in table : parent[p] = proc[t]}

__init_waiters(t) ==
    /\ At(t, "wait1")
    /\ waiters' = [waiters EXCEPT ![t] = Matching(t)]
    /\ refs' = GetRefs(refs, Matching(t))
    /\ ready' = [ready EXCEPT ![t] = FALSE]
    /\ ret' = [ret EXCEPT ![t] = "0"]
    /\ IF Matching(t) = {}
         THEN Goto(t, "ret") /\ request' = [request EXCEPT ![t] = NoRequest]    \* -ECHILD
         ELSE Goto(t, "wait2") /\ UNCHANGED request
    /\ UNCHANGED <<table, parent, threads, flags, status, entries, actions, threadVars,
                   onlist, cursor, boundVars>>

\* __wait_start: blockpoint_startblock on proc->wait ...
StartBlock(t, p) ==
    /\ At(t, "wait2") /\ p \in waiters[t] \ onlist[t]
    /\ onlist' = [onlist EXCEPT ![t] = @ \cup {p}]
    /\ cursor' = [cursor EXCEPT ![t] = p]
    /\ Goto(t, "wait3")
    /\ UNCHANGED <<procVars, threadVars, request, waiters, ready, ret, boundVars>>

\* Mutant: only an exit counts.
StatusChanged_Exit(p) == "EXITED" \in flags[p]

\* proc->flags & PROC_STATUS_CHANGED
StatusChanged(p) == "CHANGED" \in flags[p]

\* ... and then the test of PROC_STATUS_CHANGED.
__wait_start(t) ==
    /\ At(t, "wait3")
    /\ ready' = [ready EXCEPT ![t] = @ \/ StatusChanged(cursor[t])]
    /\ cursor' = [cursor EXCEPT ![t] = NULL]
    /\ Goto(t, IF waiters[t] # onlist[t] THEN "wait2"
               ELSE IF ready'[t] \/ "WNOHANG" \in request[t].options THEN "cleanup"
               ELSE "schedule")
    /\ UNCHANGED <<procVars, threadVars, request, waiters, onlist, ret, boundVars>>

\* schedule(): a pending signal is taken and puts the thread back in line;
\* the thread runs again once it is on the run queue.
ScheduleSignal(t) ==
    /\ At(t, "schedule") /\ pending[t] # {}
    /\ CheckSignals(t)
    /\ queued' = queued \cup {t}
    /\ UNCHANGED <<procVars, proc, exiting, sigmask, child, waitVars, boundVars, pc>>

Schedule(t) ==
    /\ At(t, "schedule") /\ t \in queued
    /\ queued' = queued \ {t}
    /\ Goto(t, "cleanup")
    /\ UNCHANGED <<procVars, proc, exiting, sigmask, pending, signal, child, waitVars, boundVars>>

\* One round of __cleanup_waiters: blockpoint_cleanup, and what follows it.
Interrupted(t) == signal[t] \notin {0, SIGCHLD}
__cleanup_waiters(t, p) ==
    /\ At(t, "cleanup") /\ p \in onlist[t]
    /\ onlist' = [onlist EXCEPT ![t] = @ \ {p}]
    /\ cursor' = [cursor EXCEPT ![t] = p]
    /\ ret' = [ret EXCEPT ![t] = IF @ = "0" /\ Interrupted(t) THEN "EINTR" ELSE @]
    /\ Goto(t, IF ret'[t] = "0" THEN "read1" ELSE "read3")
    /\ UNCHANGED <<procVars, threadVars, request, waiters, ready, boundVars>>

\* atomic_fetch_and(&proc->flags, ~flag)
TakeFlag(p, flag) == [flags EXCEPT ![p] = @ \ {flag}]

\* __read_status: PROC_EXITED is taken first ...
TakeExited(t) ==
    LET p == cursor[t]  reap == "EXITED" \in flags[p] IN
    /\ At(t, "read1")
    /\ flags' = TakeFlag(p, "EXITED")
    /\ table' = IF reap THEN table \ {p} ELSE table
    /\ refs' = IF reap /\ p \in table THEN PutRefs(refs, {p}) ELSE refs
    /\ Goto(t, "read2")
    /\ UNCHANGED <<parent, threads, status, entries, actions, threadVars, waitVars, boundVars>>

\* ... then PROC_STATUS_CHANGED, and the status if there is one to report.
__read_status(t) ==
    LET p == cursor[t]
        report == /\ "CHANGED" \in flags[p]
                  /\ ~(WIFSTOPPED(status[p]) /\ "WUNTRACED" \notin request[t].options)
                  /\ ~(WIFCONTINUED(status[p]) /\ "WCONTINUED" \notin request[t].options)
    IN
    /\ At(t, "read2")
    /\ flags' = TakeFlag(p, "CHANGED")
    /\ ret' = [ret EXCEPT ![t] = IF report THEN p ELSE "0"]
    /\ reports' = IF report THEN [reports EXCEPT ![p] = @ + 1] ELSE reports
    /\ Goto(t, "read3")
    /\ UNCHANGED <<table, parent, threads, status, refs, entries, actions, threadVars, request,
                   waiters, onlist, ready, cursor, forks, kills, twice, signalled>>

\* proc->status = 0 if a status was reported, and kobj_putref(w->proc).
DropWaiter(t) ==
    LET p == cursor[t] IN
    /\ At(t, "read3")
    /\ status' = IF ret[t] = p THEN [status EXCEPT ![p] = 0] ELSE status
    /\ refs' = PutRefs(refs, {p})
    /\ waiters' = [waiters EXCEPT ![t] = @ \ {p}]
    /\ cursor' = [cursor EXCEPT ![t] = NULL]
    /\ IF onlist[t] # {}
         THEN Goto(t, "cleanup") /\ UNCHANGED <<request, ready, ret>>
         ELSE IF ret[t] = "0" /\ "WNOHANG" \notin request[t].options
         THEN Goto(t, "wait1") /\ UNCHANGED <<request, ready, ret>>
         ELSE /\ Goto(t, "ret")
              /\ request' = [request EXCEPT ![t] = NoRequest]
              /\ ready' = [ready EXCEPT ![t] = FALSE]
              /\ ret' = [ret EXCEPT ![t] = "0"]
    /\ UNCHANGED <<table, parent, threads, flags, entries, actions, threadVars, onlist, boundVars>>

-----------------------------------------------------------------------------
Step(t) ==
    \/ \E p \in Proc : AllocateProcess(t, p) \/ StartBlock(t, p) \/ __cleanup_waiters(t, p)
    \/ \E u \in Thread : sys_fork(t, u) \/ sys_clone(t, u)
    \/ \E p \in Proc, s \in Signal : sys_kill(t, p, s)
    \/ \E a \in SetActions : sys_sigaction(t, a[1], a[2])
    \/ \E mask \in Masks : sys_sigprocmask(t, mask)
    \/ Interrupt(t) \/ Preempt(t) \/ UserHandler(t) \/ DefaultAction(t)
    \/ SignalWake(t) \/ ReturnToUser(t)
    \/ sys_exit(t) \/ sys_exit_group(t) \/ LeaveProcess(t) \/ sys_do_exit(t)
    \/ ExitStatus(t) \/ ExitWake(t) \/ __remove_proc_entries(t) \/ process_exit(t)
    \/ thread_exit(t)
    \/ \E pid \in WaitPids, options \in WaitOptions : sys_wait4(t, pid, options)
    \/ __init_waiters(t) \/ __wait_start(t) \/ ScheduleSignal(t) \/ Schedule(t)
    \/ TakeExited(t) \/ __read_status(t) \/ DropWaiter(t)

Next == \E t \in Thread : Step(t)

Spec == Init /\ [][Next]_vars

-----------------------------------------------------------------------------
\* What holds a reference to process p.
Holders(p) ==
      Cardinality({t \in Thread : proc[t] = p})
    + Cardinality({c \in Proc : refs[c] > 0 /\ parent[c] = p})
    + Cardinality({t \in Thread : child[t] = p})
    + Cardinality({t \in Thread : p \in waiters[t]})
    + Cardinality({p} \cap table) + Cardinality({p} \cap entries)

\* No process object is given back while a thread, a child, a wait4, a fork,
\* the table or its /proc directory still points to it, in any interleaving
\* of fork, exit, adoption by init and wait4; not even by a child that still
\* names the parent of the object's previous life.
HeldWhileNamed == \A p \in Proc \ twice : refs[p] >= Holders(p)

\* No change of status is missed: a thread that sleeps in wait4 while one of
\* the processes it waits for has a new status is about to be woken, by the
\* process_exit or the default action that set the status.
NoMissedChange ==
    \A t \in Thread : \A p \in onlist[t] :
        At(t, "schedule") /\ t \notin queued /\ "CHANGED" \in flags[p] =>
            \E u \in Thread : proc[u] = p /\ pc[u] \in {"sigwake", "pexit2"}

\* The exit of a process that got no signal is reported exactly once, however
\* many threads wait for it: never twice, and not at all only as long as it is
\* still in the table or a wait4 is at it.
ExitReportedOnce ==
    \A p \in Proc \ (signalled \cup twice) :
        /\ reports[p] <= 1
        /\ (refs[p] > 0 /\ p \notin table /\ \A t \in Thread : cursor[t] # p) => reports[p] = 1

\* When the last thread of a process is gone, init is the parent of all its
\* children; a child that sys_fork has not yet given a parent aside.
OrphansAdopted ==
    \A p \in Proc \ twice : \A c \in table :
        parent[c] = p /\ (\A t \in Thread : child[t] # c) => \E t \in Thread : proc[t] = p

\* The assertion at the end of __remove_proc_entries: the directory of the
\* process is there to be removed, so process_exit runs once per process.
RmdirSucceeds == \A t \in Thread : At(t, "pexit3") => proc[t] \in entries
=============================================================================
