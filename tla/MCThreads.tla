----------------------------- MODULE MCThreads -----------------------------
(***************************************************************************)
(* Scheduling for TLC: priority queues (module Priqueue, which this one    *)
(* extends), the scheduler and timers, each checked on its own in one      *)
(* run. "which" names the part that moves; the variables of the others     *)
(* keep a dummy value.                                                     *)
(***************************************************************************)
EXTENDS Priqueue, TLC

CONSTANTS t1, t2, t3, c0, c1, c2, x1, idle, OFF

VARIABLES which, current, running, queue, workqueue, state, onqueue, uninter, dead,
    processor, list, pending, pc, call, parent, panic, twice, counter, ticking,
    ticks, level, on, value, interval, sig, age, asked, failed

allvars == <<which, lists, curhighest, out, current, running, queue, workqueue,
    state, onqueue, uninter, dead, processor, list, pending, pc, call, parent,
    panic, twice, counter, ticking, ticks, level, on, value, interval, sig, age,
    asked, failed>>

\* Three thread objects and two processors.
S == INSTANCE Sched WITH Thread <- {t1, t2, t3}, CPU <- {c1, c2}

\* Timers only meet in the lists, where no operation on one of them changes
\* another, so one is enough; one processor ticks.
T == INSTANCE Timer WITH Timer <- {x1}, CPU <- {c0}, LEVELS <- 3, SIZE <- 3,
         Ticks <- {0, 1, 3, 5, 9, 14, 18, 26}

\* Only the variables of Priqueue are in use.
OnlyPriqueue == current = NULL /\ running = NULL /\ queue = NULL /\
    workqueue = NULL /\ state = NULL /\ onqueue = NULL /\ uninter = NULL /\
    dead = NULL /\ processor = NULL /\ list = NULL /\ pending = NULL /\
    pc = NULL /\ call = NULL /\ parent = NULL /\ panic = NULL /\ twice = NULL /\
    counter = NULL /\ ticking = NULL /\ ticks = NULL /\ level = NULL /\
    on = NULL /\ value = NULL /\ interval = NULL /\ sig = NULL /\ age = NULL /\
    asked = NULL /\ failed = NULL
restPriqueue == <<current, running, queue, workqueue, state, onqueue, uninter,
    dead, processor, list, pending, pc, call, parent, panic, twice, counter,
    ticking, ticks, level, on, value, interval, sig, age, asked, failed>>

\* Only the variables of Sched are in use; those of Priqueue stay as they begin.
OnlySched == Init /\ counter = NULL /\ ticking = NULL /\ ticks = NULL /\
    level = NULL /\ on = NULL /\ value = NULL /\ interval = NULL /\ sig = NULL /\
    age = NULL /\ asked = NULL /\ failed = NULL
restSched == <<lists, curhighest, out, counter, ticking, ticks, level, on, value,
    interval, sig, age, asked, failed>>

\* Only the variables of Timer are in use; those of Priqueue stay as they begin.
OnlyTimer == Init /\ current = NULL /\ running = NULL /\ queue = NULL /\
    workqueue = NULL /\ state = NULL /\ onqueue = NULL /\ uninter = NULL /\
    dead = NULL /\ processor = NULL /\ list = NULL /\ pending = NULL /\
    call = NULL /\ parent = NULL /\ panic = NULL /\ twice = NULL
restTimer == <<lists, curhighest, out, current, running, queue, workqueue, state,
    onqueue, uninter, dead, processor, list, pending, call, parent, panic, twice>>

MCInit ==
    \/ which = "priqueue" /\ Init /\ OnlyPriqueue
    \/ which = "sched" /\ S!Init /\ OnlySched
    \/ which = "timer" /\ T!Init /\ OnlyTimer
MCNext ==
    /\ UNCHANGED which
    /\ \/ which = "priqueue" /\ Next /\ UNCHANGED restPriqueue
       \/ which = "sched" /\ S!Next /\ UNCHANGED restSched
       \/ which = "timer" /\ T!Next /\ UNCHANGED restTimer
MCSpec == MCInit /\ [][MCNext]_allvars

\* Priorities from below the first level to beyond the last.
MCPri == (-1)..4

\* A thread that could run is not forgotten: priqueue_pop finds nothing only in
\* an empty queue and the lists above curhighest are empty (queue.c); in
\* module Sched a runnable thread runs or is in the run queue of its processor,
\* processors run on different stacks that are in use, and the assertions of
\* schedule.c and blocklist.c hold.
NoThreadForgotten ==
    /\ NullOnlyIfEmpty /\ AboveEmpty
    /\ which = "sched" => S!NoneForgotten /\ S!StacksInUse /\ S!AssertionsHold
\* Module Timer: a timer fires in time and not too early, and is in one list,
\* or in none once its thread is gone, whatever a callback does in the middle
\* of setitimer or exit (timer.c, sys/time.c).
TimersOnTime ==
    /\ [](which = "timer" => T!NeverLate /\ T!ListsIntact /\ T!NoneAfterExit)
    /\ [][which = "timer" => \A x \in {x1} : T!Fires(x) => T!EarlyByARound(x)]_allvars

\* The states that the properties of module Sched are about.
Intact == which = "sched" => ~twice
\* Thread objects are interchangeable, and so are processors.
MCSymmetry == Permutations({t1, t2, t3}) \cup Permutations({c1, c2})
=============================================================================
