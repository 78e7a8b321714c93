----------------------------- MODULE MCProcess -----------------------------
(***************************************************************************)
(* Processes and their memory for TLC: fork, exit, wait4 and signals, the  *)
(* address spaces, and the slab allocator (module Slab, which this one     *)
(* extends), each checked on its own in one run. "which" names the part    *)
(* that moves; the variables of the others keep a dummy value, and those   *)
(* of Slab the one they begin with.                                        *)
(***************************************************************************)
EXTENDS Slab, TLC

CONSTANTS init, p1, p2, t0, t1, t2, f1, f2, f3, f4

VARIABLES which, table, parent, threads, flags, status, refs_, entries, actions,
    proc, pc_, exiting, sigmask, pending, signal, queued, child, request,
    waiters, onlist, ready, ret, cursor, forks, kills, twice, signalled,
    reports, maps, pt, frames, cache, disk, alive, mem, file

allvars == <<which, vars, table, parent, threads, flags, status, refs_, entries,
    actions, proc, pc_, exiting, sigmask, pending, signal, queued, child,
    request, waiters, onlist, ready, ret, cursor, forks, kills, twice,
    signalled, reports, maps, pt, frames, cache, disk, alive, mem, file>>

SIGKILL == 9
SIGTERM == 15
SIGCONT == 18

Anon == [file |-> FALSE, shared |-> FALSE, fwrite |-> TRUE]
FilePrivate == [file |-> TRUE, shared |-> FALSE, fwrite |-> FALSE]
FileShared == [file |-> TRUE, shared |-> TRUE, fwrite |-> TRUE]

\* Two processes beside init that fork, clone, wait for any child and are
\* killed.
P1 == INSTANCE Process WITH Proc <- {init, p1, p2}, InitProc <- init, Thread <- {t0, t1, t2}, InitThread <- t0,
          refs <- refs_, pc <- pc_,
          Signal <- {SIGKILL}, Masks <- {}, SetActions <- {}, WaitPids <- {NULL},
          WaitOptions <- {{}}, MaxForks <- 2, MaxKills <- 1
\* One process beside init, with handlers, masks, the options of wait4, and
\* signals that do not kill.
P2 == INSTANCE Process WITH Proc <- {init, p1, p2}, InitProc <- init, Thread <- {t0, t1, t2}, InitThread <- t0,
          refs <- refs_, pc <- pc_,
          Signal <- {SIGTERM, SIGCONT}, Masks <- {{SIGTERM}},
          SetActions <- {<<SIGTERM, "user">>}, WaitPids <- {p1, p2},
          WaitOptions <- {{}, {"WNOHANG", "WCONTINUED"}}, MaxForks <- 1, MaxKills <- 1

\* Anonymous memory of two processes.
M1 == INSTANCE Mapping WITH Proc <- {p1, p2}, VPages <- {0, 1}, Frame <- {f1, f2, f3, f4},
          FilePage <- {0}, Value <- {0, 1}, Kinds <- {Anon},
          MaxRefs <- 3, MaxLen <- 2, Prots <- {TRUE}, NewProts <- {FALSE}
\* A page of a file, mapped by two processes.
M2 == INSTANCE Mapping WITH Proc <- {p1, p2}, VPages <- {0}, Frame <- {f1, f2, f3, f4},
          FilePage <- {0}, Value <- {0, 1}, Kinds <- {Anon, FilePrivate, FileShared},
          MaxRefs <- 3, MaxLen <- 1, Prots <- BOOLEAN, NewProts <- {FALSE}
\* One process that moves its mappings about.
M3 == INSTANCE Mapping WITH Proc <- {init}, VPages <- 0 .. 2, Frame <- {f1, f2, f3, f4},
          FilePage <- {0}, Value <- {0, 1}, Kinds <- {Anon},
          MaxRefs <- 3, MaxLen <- 2, Prots <- {TRUE}, NewProts <- {FALSE}
\* Anonymous memory whose protection is changed to writable.
M4 == INSTANCE Mapping WITH Proc <- {p1, p2}, VPages <- {0}, Frame <- {f1, f2, f3, f4},
          FilePage <- {0}, Value <- {0, 1}, Kinds <- {Anon},
          MaxRefs <- 3, MaxLen <- 1, Prots <- {TRUE}, NewProts <- BOOLEAN

\* Only the variables of Process are in use; those of Slab stay as they begin.
OnlyProcess == Init /\ maps = NULL /\ pt = NULL /\ frames = NULL /\ cache = NULL
    /\ disk = NULL /\ alive = NULL /\ mem = NULL /\ file = NULL
restProcess == <<vars, maps, pt, frames, cache, disk, alive, mem, file>>

\* Only the variables of Mapping are in use.
OnlyMap == Init /\ table = NULL /\ parent = NULL /\ threads = NULL /\
    flags = NULL /\ status = NULL /\ refs_ = NULL /\ entries = NULL /\
    actions = NULL /\ proc = NULL /\ pc_ = NULL /\ exiting = NULL /\
    sigmask = NULL /\ pending = NULL /\ signal = NULL /\ queued = NULL /\
    child = NULL /\ request = NULL /\ waiters = NULL /\ onlist = NULL /\
    ready = NULL /\ ret = NULL /\ cursor = NULL /\ forks = NULL /\ kills = NULL
    /\ twice = NULL /\ signalled = NULL /\ reports = NULL
restMap == <<vars, table, parent, threads, flags, status, refs_, entries,
    actions, proc, pc_, exiting, sigmask, pending, signal, queued, child,
    request, waiters, onlist, ready, ret, cursor, forks, kills, twice,
    signalled, reports>>

\* Only the variables of Slab are in use.
OnlySlab == table = NULL /\ parent = NULL /\ threads = NULL /\ flags = NULL /\
    status = NULL /\ refs_ = NULL /\ entries = NULL /\ actions = NULL /\
    proc = NULL /\ pc_ = NULL /\ exiting = NULL /\ sigmask = NULL /\
    pending = NULL /\ signal = NULL /\ queued = NULL /\ child = NULL /\
    request = NULL /\ waiters = NULL /\ onlist = NULL /\ ready = NULL /\
    ret = NULL /\ cursor = NULL /\ forks = NULL /\ kills = NULL /\ twice = NULL
    /\ signalled = NULL /\ reports = NULL /\ maps = NULL /\ pt = NULL /\
    frames = NULL /\ cache = NULL /\ disk = NULL /\ alive = NULL /\ mem = NULL
    /\ file = NULL
restSlab == <<table, parent, threads, flags, status, refs_, entries, actions,
    proc, pc_, exiting, sigmask, pending, signal, queued, child, request,
    waiters, onlist, ready, ret, cursor, forks, kills, twice, signalled,
    reports, maps, pt, frames, cache, disk, alive, mem, file>>

MCInit ==
    \/ which = "fork" /\ P1!Init /\ OnlyProcess
    \/ which = "signals" /\ P2!Init /\ OnlyProcess
    \/ which = "anon" /\ M1!Init /\ OnlyMap
    \/ which = "filemap" /\ M2!Init /\ OnlyMap
    \/ which = "moves" /\ M3!Init /\ OnlyMap
    \/ which = "slab" /\ Init /\ OnlySlab
MCNext ==
    /\ UNCHANGED which
    /\ \/ which = "fork" /\ P1!Next /\ UNCHANGED restProcess
       \/ which = "signals" /\ P2!Next /\ UNCHANGED restProcess
       \/ which = "anon" /\ M1!Next /\ UNCHANGED restMap
       \/ which = "filemap" /\ M2!Next /\ UNCHANGED restMap
       \/ which = "moves" /\ M3!Next /\ UNCHANGED restMap
       \/ which = "slab" /\ Next /\ UNCHANGED restSlab
MCSpec == MCInit /\ [][MCNext]_allvars

\* Module Process: no process object is given back while something still points
\* to it (process.c, fork.c, wait.c).
HeldWhileNamed ==
    /\ which = "fork" => P1!HeldWhileNamed
    /\ which = "signals" => P2!HeldWhileNamed
\* Module Process: a thread that sleeps in wait4 while a process it waits for
\* has a new status is about to be woken (wait.c).
NoMissedChange ==
    /\ which = "fork" => P1!NoMissedChange
    /\ which = "signals" => P2!NoMissedChange
\* Module Process: an exit is reported exactly once, and init has adopted the
\* children of a process that is gone (process.c:155-170, wait.c:60-90).
ExitsAccounted ==
    /\ which = "fork" => P1!ExitReportedOnce /\ P1!OrphansAdopted
    /\ which = "signals" => P2!ExitReportedOnce /\ P2!OrphansAdopted

-----------------------------------------------------------------------------
\* The processes of "fork" alone.
ExitSpec == which = "fork" /\ P1!Init /\ OnlyProcess /\ [][MCNext]_allvars
\* Module Process: __remove_proc_entries asserts that the directory of the
\* process is there to be removed, "assert(r == 0);" (process.c:138).
RmdirSucceeds == P1!RmdirSucceeds

\* Address spaces whose protection may be changed to writable.
ProtSpec == which = "protect" /\ M4!Init /\ OnlyMap
            /\ [][UNCHANGED which /\ M4!Next /\ UNCHANGED restMap]_allvars
\* Module Mapping: "allow for copy-on-write" (mapping.c:178): a page shared
\* after a fork is not written by one process for the other.
CopyOnWrite == M4!ViewsAgree

\* Process objects other than that of init are interchangeable, and so are
\* thread objects.
Symmetry == Permutations({p1, p2}) \cup Permutations({t1, t2})
=============================================================================
