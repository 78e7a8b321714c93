-------------------------------- MODULE Poll ---------------------------------
(***************************************************************************)
(* sys_ppoll and sys_pselect (kernel/sys/poll.c, select.c), and the poll   *)
(* operation of every kind of file: inodes, pipes, ptys, the keyboard, and *)
(* TCP, UNIX, UDP and raw sockets.  One thread polls Files; the rest of    *)
(* the system makes files ready, or not ready, and unblocks their lists.   *)
(*                                                                         *)
(* A thread that polls is on several block lists at once, which no other   *)
(* user of blockpoint_startblock does: each call sets the thread's state   *)
(* to THREADSTATE_BLOCKED again (blocklist.c:111), whatever was unblocked  *)
(* before it.  overridden records that this happened.                      *)
(***************************************************************************)
EXTENDS Integers, Sequences, FiniteSets

CONSTANTS
    Fds,        \* the descriptors, in order
    Kinds,      \* the kinds of files they may name
    Timeouts,   \* of "none", "zero" and "some"
    MaxRounds,  \* bound: rounds of sys_ppoll's loop
    MaxChanges  \* bound: changes of what a file is ready for

VARIABLES
    file,       \* each file's kind, connection, and what it is ready for
    asked,      \* the events the caller asks for
    events,     \* pollpoint.events
    revents,    \* pollpoint.revents
    bp,         \* pollpoint.bps
    held,       \* files whose reference the poll holds
    state,      \* the thread's state
    pc, at,     \* where the thread is; the file and list __poll_init is at
    ready,      \* sys_ppoll's ready
    limit,      \* sys_ppoll's argument timeout
    expired,    \* whether the end time is past
    armed,      \* whether this round's blockpoints have timers
    signal,     \* whether the thread has a signal
    ret,        \* what the call returns: "count", "EINTR" or "EBADF"
    rounds, changes,    \* counters
    seen,       \* history: what each file has been ready for during the call
    overridden, \* history: a blocked state was set over an unblocked one
    badbp       \* history: blockpoint_cleanup of a point that was not started

pollvars == <<file, asked, events, revents, bp, held, state, pc, at, ready, limit,
              expired, armed, signal, ret, rounds, changes, seen,
              overridden, badbp>>

Fd == {Fds[i] : i \in DOMAIN Fds}
Lists == <<"in", "out", "hup">>         \* POLL_BLOCK_READ, _WRITE, _STATUS
List == {"in", "out", "hup"}
Socket == {"tcp", "unix"}
Points == {f \in Fd : file[f].kind # "bad"}

\* The events whose condition holds: what a test in a poll operation finds.
Cond(f) == {b \in List : file[f][b]}

PollInit ==
    /\ file \in [Fd -> {[kind |-> k, con |-> c, in |-> FALSE, out |-> FALSE, hup |-> FALSE] :
                        k \in Kinds, c \in {"no", "listen"}}]
    /\ \A f \in Fd : file[f].kind \notin Socket => file[f].con = "no"
    /\ asked \in [Fd -> (SUBSET {"in", "out"}) \ {{}}]
    /\ events = asked
    /\ revents = [f \in Fd |-> {}]
    /\ bp = [f \in Fd |-> [b \in List |-> "off"]]
    /\ held = {} /\ state = "running"
    /\ pc = "enter" /\ at = <<1, 1>>
    /\ ready = FALSE
    /\ limit \in Timeouts
    /\ expired = FALSE /\ armed = FALSE /\ signal = FALSE
    /\ ret = "none" /\ rounds = 0 /\ changes = 0
    /\ seen = [f \in Fd |-> {}]
    /\ overridden = FALSE /\ badbp = FALSE

-----------------------------------------------------------------------------
(* The poll operations: the events a file keeps, those it is asked for and  *)
(* has always, and whether it is watched for its end.                       *)

\* The lists a socket has: none before it is bound or connected.
Has(con) == CASE con = "no" -> {} [] con = "listen" -> {"in"} [] con = "yes" -> {"in", "out"}

Kept(evs, con) == evs \cap Has(con)

\* _pipe_poll, _pty_fops_poll: both directions, and the end of the other side.
_pipe_poll(evs) == [wait |-> evs \cup {"hup"}, now |-> {}]
_pty_fops_poll(evs) == _pipe_poll(evs)
\* _fs_inode_poll, _udp_poll, _ipv6_poll: always writable.
_fs_inode_poll(evs) == [wait |-> evs \ {"out"}, now |-> evs \cap {"out"}]
_udp_poll(evs) == _fs_inode_poll(evs)
_ipv6_poll(evs) == _fs_inode_poll(evs)
\* _poll of the keyboard: never writable.
_poll(evs) == [wait |-> evs \cap {"in"}, now |-> {}]
_tcp_poll(evs, con) == [wait |-> Kept(evs, con) \cup {"hup"}, now |-> {}]
_unix_poll(evs, con) ==
    [wait |-> Kept(evs, con) \cup (IF con = "yes" THEN {"hup"} ELSE {}), now |-> {}]
\* A file with no poll operation has everything it is asked for.
NoPoll(evs) == [wait |-> {}, now |-> evs]

Op(f, evs) ==
    CASE file[f].kind = "pipe" -> _pipe_poll(evs)
      [] file[f].kind = "pty" -> _pty_fops_poll(evs)
      [] file[f].kind = "inode" -> _fs_inode_poll(evs)
      [] file[f].kind = "udp" -> _udp_poll(evs)
      [] file[f].kind = "raw" -> _ipv6_poll(evs)
      [] file[f].kind = "keyboard" -> _poll(evs)
      [] file[f].kind = "tcp" -> _tcp_poll(evs, file[f].con)
      [] file[f].kind = "unix" -> _unix_poll(evs, file[f].con)
      [] file[f].kind = "none" -> NoPoll(evs)

\* The lists a poll operation starts to block on.
HasList(f, b) ==
    file[f].kind \in Socket /\ b # "hup" => b \in Has(file[f].con)
Startable(f, b) == b \in events'[f] /\ HasList(f, b)

-----------------------------------------------------------------------------
(* sys_ppoll *)

\* The files are looked up, and nothing is waited for when there are none.
Enter ==
    /\ pc = "enter"
    /\ held' = Points
    /\ revents' = [f \in Fd |-> IF f \in Points THEN {} ELSE {"nval"}]
    /\ pc' = IF Points = {} THEN "out" ELSE "round"
    /\ seen' = [f \in Fd |-> Cond(f)]
    /\ UNCHANGED <<file, asked, events, bp, state, at, ready, limit, expired, armed, signal,
                   ret, rounds, overridden, badbp, changes>>

Round ==
    /\ pc = "round" /\ rounds < MaxRounds
    /\ rounds' = rounds + 1
    /\ armed' = (limit = "some" /\ ~expired)
    /\ ready' = FALSE
    /\ at' = <<1, 1>>
    /\ pc' = "init"
    /\ UNCHANGED <<file, asked, events, revents, bp, held, state, limit, expired, signal,
                   ret, seen, overridden, badbp, changes>>

Next3(i, k) == IF k < 3 THEN <<i, k + 1>> ELSE <<i + 1, 1>>

\* One list of one file of __poll_init.  The operation starts to block and then
\* looks whether it is ready.
Found(f, b) == file[f][b]
PollList ==
    /\ pc = "init" /\ at[1] <= Len(Fds)
    /\ LET f == Fds[at[1]]
           b == Lists[at[2]]
           first == at[2] = 1
           op == Op(f, IF first THEN events[f] \cap {"in", "out"} ELSE events[f])
       IN
       IF f \notin Points
       THEN /\ at' = <<at[1] + 1, 1>>
            /\ UNCHANGED <<events, revents, bp, state, ready, overridden>>
       ELSE /\ at' = Next3(at[1], at[2])
            /\ events' = IF first THEN [events EXCEPT ![f] = op.wait] ELSE events
            /\ LET now == IF first THEN op.now ELSE {}
                   start == Startable(f, b)
                   found == now \cup (IF start /\ Found(f, b) THEN {b} ELSE {})
               IN  /\ revents' = [revents EXCEPT ![f] = (IF first THEN {} ELSE @) \cup found]
                   /\ ready' = (ready \/ found # {})
                   /\ bp' = IF start THEN [bp EXCEPT ![f][b] = "on"] ELSE bp
                   /\ state' = IF start THEN "blocked" ELSE state
                   /\ overridden' = (overridden \/ (start /\ \E g \in Fd, c \in List :
                                                       bp[g][c] \notin {"off", "on"}))
    /\ UNCHANGED <<file, asked, held, pc, limit, expired, armed, signal, ret, rounds, seen,
                   badbp, changes>>

\* schedule(), unless something is ready or the timeout is zero.
Sleep ==
    /\ pc = "init" /\ at[1] > Len(Fds)
    /\ pc' = IF ~ready /\ limit # "zero" THEN "asleep" ELSE "clean"
    /\ UNCHANGED <<file, asked, events, revents, bp, held, state, at, ready, limit, expired,
                   armed, signal, ret, rounds, seen, overridden, badbp, changes>>
Wake ==
    /\ pc = "asleep" /\ state = "running"
    /\ pc' = "clean"
    /\ UNCHANGED <<file, asked, events, revents, bp, held, state, at, ready, limit, expired,
                   armed, signal, ret, rounds, seen, overridden, badbp, changes>>

\* __poll_cleanup and the end of the round.
Unblocked(x) == x = "unblocked"
Cleanup ==
    /\ pc = "clean"
    /\ LET cleaned == [f \in Fd |-> IF f \in Points THEN events[f] ELSE {}]
           got == [f \in Fd |-> IF signal THEN {}
                                ELSE {b \in cleaned[f] : Unblocked(bp[f][b])}]
           some == \E f \in Fd : cleaned[f] # {}
           up == \E f \in Fd : got[f] # {}
           intr == signal /\ some /\ ~ready
           done == ready \/ up \/ (limit # "none" /\ (expired \/ limit = "zero"))
       IN  /\ badbp' = (badbp \/ \E f \in Fd : \E b \in cleaned[f] : bp[f][b] = "off")
           /\ bp' = [f \in Fd |-> [b \in List |-> IF b \in cleaned[f] THEN "off" ELSE bp[f][b]]]
           /\ revents' = [f \in Fd |-> revents[f] \cup got[f]]
           /\ state' = IF some THEN "running" ELSE state
           /\ ret' = IF intr THEN "EINTR" ELSE ret
           /\ pc' = IF intr \/ done THEN "out" ELSE "round"
    /\ ready' = FALSE /\ at' = <<1, 1>>
    /\ UNCHANGED <<file, asked, events, held, limit, expired, armed, signal, rounds, seen,
                   overridden, changes>>

\* __cleanup_points, and the sets sys_pselect returns: a bad descriptor makes it
\* an error.
Return ==
    /\ pc = "out"
    /\ held' = {}
    /\ pc' = "done"
    /\ \E r \in {"count"} \cup (IF \E f \in Fd : "nval" \in revents[f] THEN {"EBADF"} ELSE {}) :
         ret' = IF ret = "EINTR" THEN ret ELSE r
    /\ UNCHANGED <<file, asked, events, revents, bp, state, at, ready, limit, expired, armed,
                   signal, rounds, seen, overridden, badbp, changes>>

-----------------------------------------------------------------------------
(* The rest of the system. *)

\* blocklist_unblock_all of a list, after the file has become ready.
MakeReady(f, b) ==
    /\ pc \notin {"enter", "done"} /\ ~file[f][b] /\ f \in Points
    /\ changes < MaxChanges /\ changes' = changes + 1
    /\ file' = [file EXCEPT ![f][b] = TRUE]
    /\ seen' = [seen EXCEPT ![f] = @ \cup {b}]
    /\ IF bp[f][b] # "off"
       THEN /\ bp' = [bp EXCEPT ![f][b] = IF @ = "on" THEN "unblocked" ELSE @]
            /\ state' = IF bp[f][b] = "on" THEN "running" ELSE state
       ELSE UNCHANGED <<bp, state>>
    /\ UNCHANGED <<asked, events, revents, held, pc, at, ready, limit, expired, armed, signal,
                   ret, rounds, overridden, badbp>>
\* Another thread takes what there was.
TakeAway(f, b) ==
    /\ pc # "done" /\ b # "hup" /\ file[f][b]
    /\ changes < MaxChanges /\ changes' = changes + 1
    /\ file' = [file EXCEPT ![f][b] = FALSE]
    /\ UNCHANGED <<asked, events, revents, bp, held, state, pc, at, ready, limit, expired,
                   armed, signal, ret, rounds, seen, overridden, badbp>>
\* A socket is connected.
Connect(f) ==
    /\ pc # "done" /\ file[f].kind \in Socket /\ file[f].con = "no" /\ at[2] = 1
    /\ file' = [file EXCEPT ![f].con = "yes"]
    /\ UNCHANGED <<asked, events, revents, bp, held, state, pc, at, ready, limit, expired,
                   armed, signal, ret, rounds, seen, overridden, badbp, changes>>
Signal ==
    /\ pc # "done" /\ ~signal
    /\ signal' = TRUE
    /\ state' = "running"
    /\ UNCHANGED <<file, asked, events, revents, bp, held, pc, at, ready, limit, expired,
                   armed, ret, rounds, seen, overridden, badbp, changes>>
Expire ==
    /\ pc \notin {"enter", "done"} /\ limit = "some" /\ ~expired
    /\ expired' = TRUE
    /\ UNCHANGED <<file, asked, events, revents, bp, held, state, pc, at, ready, limit, armed,
                   signal, ret, rounds, seen, overridden, badbp, changes>>
\* __timeout of a blockpoint.
Timer(f, b) ==
    /\ armed /\ expired /\ bp[f][b] = "on"
    /\ bp' = [bp EXCEPT ![f][b] = "timeout"]
    /\ state' = "running"
    /\ UNCHANGED <<file, asked, events, revents, held, pc, at, ready, limit, expired, armed,
                   signal, ret, rounds, seen, overridden, badbp, changes>>

PollNext ==
    \/ Enter \/ Round \/ PollList \/ Sleep \/ Wake \/ Cleanup \/ Return
    \/ Signal \/ Expire
    \/ \E f \in Fd : Connect(f) \/ \E b \in List : MakeReady(f, b) \/ TakeAway(f, b) \/ Timer(f, b)

PollSpec == PollInit /\ [][PollNext]_pollvars

-----------------------------------------------------------------------------
\* __poll_init, the poll operations and __poll_cleanup: what is started is cleaned
\* up and nothing else is (blocklist.c:99 and 125 assert it), so between two rounds and
\* after the call the thread is on no list, and the files are put back.
PointsCleaned ==
    /\ ~badbp
    /\ pc \in {"enter", "round", "out", "done"} =>
         \A f \in Fd, b \in List : bp[f][b] = "off"
    /\ pc = "done" => held = {}

\* sys_ppoll sleeps only while no file it watches is ready, unless the state of the
\* thread has been set over a wakeup (blocklist.c:111); and with a timer to wake it
\* unless its time was over when the round began (poll.c:110-116).
SleepsUnready ==
    pc = "asleep" /\ state = "blocked" /\ ~overridden =>
      /\ \A f \in Points : \A b \in events[f] : bp[f][b] = "on" => b \notin Cond(f)
      /\ limit = "some" => armed \/ expired

\* What sys_ppoll and sys_pselect report was so at some time during the call.
ReportsTruth ==
    \A f \in Points : file[f].kind \in {"pipe", "pty", "tcp", "unix", "keyboard"} =>
      revents[f] \subseteq seen[f]
=============================================================================
