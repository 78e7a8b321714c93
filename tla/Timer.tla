-------------------------------- MODULE Timer --------------------------------
(***************************************************************************)
(* Timers, kernel/timer.c, and the interval timers of threads, which are   *)
(* their most demanding user: kernel/sys/time.c and thread_exit.           *)
(*                                                                         *)
(* A timer waits in one of several lists.  A list of level t is only       *)
(* looked at when the tick counter is a multiple of SIZE^t, and a timer    *)
(* moves down when fewer than SIZE^t ticks are left.  Each timer here is   *)
(* the ITIMER_REAL of a thread of its own.  No caller uses                 *)
(* TIMER_MODE_PERIODIC, so the mode is left out.                           *)
(***************************************************************************)
EXTENDS Integers, FiniteSets, SequencesExt

CONSTANTS
    Timer,          \* the timers, one per thread
    CPU,            \* the processors, each with a timer interrupt
    LEVELS, SIZE,   \* TIMER_LEVELS and TIMER_LEVEL_SIZE
    Ticks,          \* the times that callers ask for, below SIZE^LEVELS
    NONE,           \* no list
    OFF             \* the time 0, which disarms; under 100 microseconds is 0 ticks, not OFF

VARIABLES
    counter,    \* counter, modulo the largest multiple that check_timers asks about
    ticking,    \* processors between the two halves of timer_tick
    ticks,      \* timer->ticks
    level,      \* timer->level
    on,         \* the level of the list that the timer is really in
    value, interval,    \* what setitimer was asked for, in ticks
    sig,        \* whether thread_timer.sig is SIGALRM
    pc,         \* where the thread of each timer is
    age, asked, \* the ticks since the timer was last added, and what it was given
    failed      \* an assertion of the linked lists failed

timerVars == <<ticks, level, on, age, asked>>
vars == <<counter, ticking, timerVars, value, interval, sig, pc, failed>>

PC == {"user", "exchange", "remove", "add", "sig", "exit_remove", "gone"}
MaxTick == SIZE^LEVELS
Cycle == SIZE^(LEVELS - 1)

TypeOK ==
    /\ counter \in 0..(Cycle - 1)
    /\ ticking \subseteq CPU
    /\ ticks \in [Timer -> (-MaxTick)..MaxTick]
    /\ level \in [Timer -> (-1)..(LEVELS - 1)]
    /\ on \in [Timer -> 0..(LEVELS - 1) \cup {NONE}]
    /\ value \in [Timer -> Ticks \cup {OFF}]
    /\ interval \in [Timer -> Ticks \cup {OFF}]
    /\ sig \subseteq Timer
    /\ pc \in [Timer -> PC]
    /\ age \in [Timer -> Nat] /\ asked \in [Timer -> Nat]
    /\ failed \in BOOLEAN

Init ==
    /\ counter = 0
    /\ ticking = {}
    /\ ticks = [x \in Timer |-> 0]
    /\ level = [x \in Timer |-> 0]
    /\ on = [x \in Timer |-> NONE]
    /\ value = [x \in Timer |-> OFF] /\ interval = [x \in Timer |-> OFF]
    /\ sig = {}
    /\ pc = [x \in Timer |-> "user"]
    /\ age = [x \in Timer |-> 0] /\ asked = [x \in Timer |-> 0]
    /\ failed = FALSE

-----------------------------------------------------------------------------
(***************************************************************************)
(* Timer lists.                                                            *)
(***************************************************************************)

\* The level that the loop of __add_timer computes: that of the leading digit.
Level(n) == CHOOSE t \in 0..LEVELS :
    /\ n < SIZE^(t + 1)
    /\ t > 0 => n >= SIZE^t

\* The part of the state that belongs to one timer.
Record(x) == [ticks |-> ticks[x], level |-> level[x], on |-> on[x],
              age |-> age[x], asked |-> asked[x], bad |-> FALSE]

\* timer_add_locked.  The list must not hold the timer already.
Added(r, n) ==
    [r EXCEPT !.ticks = n, !.level = Level(n), !.on = Level(n), !.age = 0, !.asked = n,
              !.bad = @ \/ r.on # NONE]

\* linkedlist_remove asserts that the entry is in the list it is removed from.
\* The ticks left of a timer in no list matter to nobody, and are not kept.
Removed(r) == [r EXCEPT !.on = NONE, !.ticks = 0, !.age = 0, !.asked = 0,
                        !.bad = @ \/ r.on # r.level]

\* __add_timer of a timer that check_timers moves down.
Moved(r) == [r EXCEPT !.level = Level(r.ticks), !.on = Level(r.ticks)]

\* _itimer_timeout, which adds the timer again if there is an interval.
Expired(r, x) ==
    LET off == [Removed(r) EXCEPT !.level = -1]
    IN  IF interval[x] # OFF THEN Added(off, interval[x]) ELSE off

\* Mutant: check_timers never moves a timer down.
AtLevel_Stays(r, t, x) ==
    LET mult == SIZE^t
        less == [r EXCEPT !.ticks = @ - mult]
    IN  CASE r.on # t \/ counter % mult # 0 -> r
          [] less.ticks <= 0 -> Expired(less, x)
          [] OTHER -> less

\* What check_timers does to the timer x when it goes over the list of level t.
AtLevel(r, t, x) ==
    LET mult == SIZE^t
        less == [r EXCEPT !.ticks = @ - mult]
    IN  CASE r.on # t \/ counter % mult # 0 -> r
          [] less.ticks <= 0 -> Expired(less, x)
          [] less.ticks \in 1..(mult - 1) -> Moved(less)
          [] OTHER -> less

\* An age of MaxTick is later than any time that can be asked for; older is the same.
Older(a) == IF a < MaxTick THEN a + 1 ELSE a

Checked(x) ==
    FoldLeftDomain(LAMBDA r, i : AtLevel(r, i - 1, x),
                   [Record(x) EXCEPT !.age = IF on[x] = NONE THEN 0 ELSE Older(@)],
                   [i \in 1..LEVELS |-> i])

\* The state that the records rs of all timers give.
SetTimers(rs) ==
    /\ ticks' = [x \in Timer |-> rs[x].ticks]
    /\ level' = [x \in Timer |-> rs[x].level]
    /\ on' = [x \in Timer |-> rs[x].on]
    /\ age' = [x \in Timer |-> rs[x].age]
    /\ asked' = [x \in Timer |-> rs[x].asked]
    /\ failed' = (failed \/ \E x \in Timer : rs[x].bad)

Update(x, r) == SetTimers([y \in Timer |-> IF y = x THEN r ELSE Record(y)])

-----------------------------------------------------------------------------
(***************************************************************************)
(* timer_tick                                                              *)
(***************************************************************************)

Tick(c) ==
    /\ c \notin ticking
    /\ ticking' = ticking \cup {c}
    /\ counter' = (counter + 1) % Cycle
    /\ UNCHANGED <<timerVars, value, interval, sig, pc, failed>>

\* check_timers, with the lock of the timers held.
CheckTimers(c) ==
    /\ c \in ticking
    /\ ticking' = ticking \ {c}
    /\ SetTimers([x \in Timer |-> Checked(x)])
    /\ UNCHANGED <<counter, value, interval, sig, pc>>

-----------------------------------------------------------------------------
(***************************************************************************)
(* Interval timers: sys_setitimer, __setup_timer, thread_exit.             *)
(***************************************************************************)

Goto(x, from, to) ==
    /\ pc[x] = from
    /\ pc' = [pc EXCEPT ![x] = to]

SetItimer(x) ==
    /\ Goto(x, "user", "exchange")
    /\ \E v, i \in Ticks \cup {OFF} :
          /\ value' = [value EXCEPT ![x] = v]
          /\ interval' = [interval EXCEPT ![x] = i]
    /\ UNCHANGED <<counter, ticking, timerVars, sig, failed>>

Exchange(x) ==
    /\ Goto(x, "exchange", IF x \in sig THEN "remove" ELSE "add")
    /\ sig' = sig \ {x}
    /\ UNCHANGED <<counter, ticking, timerVars, value, interval, failed>>

\* timer_remove, which leaves timer->level as it is.
timer_remove(x) ==
    IF level[x] = -1 THEN UNCHANGED <<timerVars, failed>> ELSE Update(x, Removed(Record(x)))

SetupRemove(x) ==
    /\ Goto(x, "remove", "add")
    /\ timer_remove(x)
    /\ UNCHANGED <<counter, ticking, value, interval, sig>>

Add(x) ==
    /\ Goto(x, "add", IF value[x] = OFF THEN "user" ELSE "sig")
    /\ IF value[x] = OFF THEN UNCHANGED <<timerVars, failed>>
       ELSE Update(x, Added(Record(x), value[x]))
    /\ value' = [value EXCEPT ![x] = OFF]     \* not read again before it is set
    /\ UNCHANGED <<counter, ticking, interval, sig>>

SetSig(x) ==
    /\ Goto(x, "sig", "user")
    /\ sig' = sig \cup {x}
    /\ UNCHANGED <<counter, ticking, timerVars, value, interval, failed>>

\* thread_exit
Exit(x) ==
    /\ Goto(x, "user", IF x \in sig THEN "exit_remove" ELSE "gone")
    /\ sig' = sig \ {x}
    /\ UNCHANGED <<counter, ticking, timerVars, value, interval, failed>>

ExitRemove(x) ==
    /\ Goto(x, "exit_remove", "gone")
    /\ timer_remove(x)
    /\ UNCHANGED <<counter, ticking, value, interval, sig>>

\* The thread object is used again, and _thread_init clears the timers.
Reuse(x) ==
    /\ Goto(x, "gone", "user")
    /\ Update(x, [Record(x) EXCEPT !.ticks = 0, !.level = 0])
    /\ interval' = [interval EXCEPT ![x] = OFF]
    /\ UNCHANGED <<counter, ticking, value, sig>>

-----------------------------------------------------------------------------
Next ==
    \/ \E c \in CPU : Tick(c) \/ CheckTimers(c)
    \/ \E x \in Timer : \/ SetItimer(x) \/ Exchange(x) \/ SetupRemove(x) \/ Add(x) \/ SetSig(x)
                        \/ Exit(x) \/ ExitRemove(x) \/ Reuse(x)

Spec == Init /\ [][Next]_vars

-----------------------------------------------------------------------------
(***************************************************************************)
(* Properties.                                                             *)
(***************************************************************************)

\* With one processor ticking, a timer never fires late: while it waits, less
\* time has passed than it was given (0 means the next tick).
NeverLate == \A x \in Timer :
    on[x] # NONE => age[x] < asked[x] \/ age[x] = 0

\* With one processor ticking, a timer that check_timers lets fire is early by
\* at most one round of the level that it was added to.
Fires(x) == ticking' # ticking /\ ticking' \subseteq ticking /\ on[x] # NONE /\ age'[x] = 0
EarlyByARound(x) == age[x] + 1 + SIZE^Level(asked[x]) >= asked[x]
NotTooEarly == [][\A x \in Timer : Fires(x) => EarlyByARound(x)]_vars

\* Interval timers use the lists correctly, whatever a callback that fires in
\* the middle of setitimer or thread_exit does: no timer is removed from a
\* list that it is not in, or added to a second one.
ListsIntact == ~failed

\* The timer of an exited thread is in no list, so that no callback can touch
\* memory that belongs to another thread, or to none.
NoneAfterExit == \A x \in Timer : pc[x] = "gone" => on[x] = NONE
=============================================================================
