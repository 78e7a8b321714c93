-------------------------------- MODULE Files --------------------------------
(***************************************************************************)
(* File descriptors: the descriptor tables and open file objects of        *)
(* kernel/fs/file.c, and the system calls on them (kernel/sys/open.c,      *)
(* kernel/sys/ctl.c).                                                      *)
(*                                                                         *)
(* Threads of one process share a table.  The process may fork; the child, *)
(* which has no thread here, only exits.  Every descriptor also has a      *)
(* symbolic link /proc/<pid>/fd/<n>, made and removed by the same system   *)
(* calls, whose failure is an assertion failure.                           *)
(***************************************************************************)
EXTENDS Integers, FiniteSets

CONSTANTS
    Thread,     \* the threads of the process
    File,       \* struct file objects
    MaxFd,      \* MAX_FD
    MaxOps,     \* bound: system calls of each thread
    SelfDup,    \* whether dup2 is called with two equal descriptors
    NULL

VARIABLES
    files,      \* proc->files[fd].file, of the process ("self") and the child
    cloexec,    \* descriptors of the process with FD_CLOEXEC
    procfd,     \* the links in /proc/<pid>/fd
    refs,       \* references of each file; 0: free
    opens,      \* calls of ops->open minus calls of ops->close
    leaked,     \* history: references that dup2 never gives back
    child,      \* whether the child exists
    ops,        \* system calls of each thread, for the bound
    pc,         \* where each thread is
    held,       \* the file it holds a reference to
    fd,         \* its descriptor argument
    to,         \* its second descriptor: new for dup2, start for F_DUPFD
    old,        \* the file dup2 replaced
    crash       \* what ended the run: a failed assertion, a NULL dereference

vars == <<files, cloexec, procfd, refs, opens, leaked, child, ops, pc, held, fd, to,
          old, crash>>
local == <<held, fd, to, old>>

Fd == 0 .. MaxFd - 1
Proc == {"self", "child"}

FilesInit ==
    /\ files = [p \in Proc |-> [i \in Fd |-> NULL]]
    /\ cloexec = {}
    /\ procfd = [p \in Proc |-> {}]
    /\ refs = [f \in File |-> 0]
    /\ opens = [f \in File |-> 0]
    /\ leaked = [f \in File |-> 0]
    /\ child = FALSE
    /\ ops = [t \in Thread |-> 0]
    /\ pc = [t \in Thread |-> "idle"]
    /\ held = [t \in Thread |-> NULL]
    /\ fd = [t \in Thread |-> 0]
    /\ to = [t \in Thread |-> 0]
    /\ old = [t \in Thread |-> NULL]
    /\ crash = "no"

-----------------------------------------------------------------------------
\* kobj_getref and kobj_putref.
Get(r, f) == [r EXCEPT ![f] = @ + 1]
Put(r, f) == [r EXCEPT ![f] = @ - 1]

Begin(t) == pc[t] = "idle" /\ ops[t] < MaxOps /\ ops' = [ops EXCEPT ![t] = @ + 1]
Go(t, where) == pc' = [pc EXCEPT ![t] = where]

\* The call returns: its locals are dead.
Return(t) ==
    /\ Go(t, "idle")
    /\ held' = [held EXCEPT ![t] = NULL]
    /\ fd' = [fd EXCEPT ![t] = 0]
    /\ to' = [to EXCEPT ![t] = 0]
    /\ old' = [old EXCEPT ![t] = NULL]

\* process_get_file, as the first step of a call: without a file the call
\* returns EBADF.
process_get_file(t, i, j, where) ==
    /\ Begin(t)
    /\ files["self"][i] # NULL
    /\ refs' = Get(refs, files["self"][i])
    /\ held' = [held EXCEPT ![t] = files["self"][i]]
    /\ fd' = [fd EXCEPT ![t] = i]
    /\ to' = [to EXCEPT ![t] = j]
    /\ Go(t, where)
    /\ UNCHANGED <<files, cloexec, procfd, opens, leaked, child, old, crash>>

\* The last step of most calls: kobj_putref(file).
PutHeld(t) ==
    /\ pc[t] = "put"
    /\ refs' = Put(refs, held[t])
    /\ Return(t)
    /\ UNCHANGED <<files, cloexec, procfd, opens, leaked, child, ops, crash>>

-----------------------------------------------------------------------------
(***************************************************************************)
(* sys_openat, sys_dup and fcntl(F_DUPFD).                                 *)
(***************************************************************************)

\* sys_openat resolves the path and file_create makes the file, or the call
\* returns an error before there is one.
sys_openat(t, f) ==
    /\ Begin(t)
    /\ refs[f] = 0
    /\ refs' = Get(refs, f)
    /\ opens' = [opens EXCEPT ![f] = 0]
    /\ leaked' = [leaked EXCEPT ![f] = 0]
    /\ held' = [held EXCEPT ![t] = f]
    /\ Go(t, "alloc")
    /\ UNCHANGED <<files, cloexec, procfd, child, fd, to, old, crash>>

FreeFds(start) == {i \in Fd : i >= start /\ files["self"][i] = NULL}

\* Mutant: the table entry holds no reference of its own.
InTable_NoRef(f) == refs

\* The reference of a table entry.
InTable(f) == Get(refs, f)

\* process_allocate_fd: the lowest free descriptor, or EMFILE.
process_allocate_fd(t, from, next) ==
    LET free == FreeFds(to[t])
        i == CHOOSE x \in free : \A y \in free : x <= y IN
    /\ pc[t] = from
    /\ IF free = {}
       THEN Go(t, "put") /\ UNCHANGED <<files, cloexec, refs, opens, to>>
       ELSE /\ files' = [files EXCEPT !["self"][i] = held[t]]
            /\ cloexec' = cloexec \ {i}
            /\ refs' = InTable(held[t])
            /\ opens' = [opens EXCEPT ![held[t]] = @ + 1]
            /\ to' = [to EXCEPT ![t] = i]
            /\ Go(t, next)
    /\ UNCHANGED <<procfd, leaked, child, ops, held, fd, old, crash>>

\* process_create_proc_fd: the assertion that the link could be made.
process_create_proc_fd(t, c) ==
    /\ pc[t] = "link"
    /\ cloexec' = IF c THEN cloexec \cup {to[t]} ELSE cloexec
    /\ IF to[t] \in procfd["self"]
       THEN crash' = "assert" /\ UNCHANGED <<procfd, pc>>
       ELSE /\ procfd' = [procfd EXCEPT !["self"] = @ \cup {to[t]}]
            /\ Go(t, "put")
            /\ UNCHANGED crash
    /\ UNCHANGED <<files, refs, opens, leaked, child, ops, local>>

\* process_copy_proc_fd within the process: the old link must be there and the
\* new one not.
process_copy_proc_fd(t, from, next) ==
    /\ pc[t] = from
    /\ IF fd[t] \notin procfd["self"] \/ to[t] \in procfd["self"]
       THEN crash' = "assert" /\ UNCHANGED <<procfd, pc, local>>
       ELSE /\ procfd' = [procfd EXCEPT !["self"] = @ \cup {to[t]}]
            /\ IF next = "idle" THEN Return(t) ELSE Go(t, next) /\ UNCHANGED local
            /\ UNCHANGED crash
    /\ UNCHANGED <<files, cloexec, refs, opens, leaked, child, ops>>

-----------------------------------------------------------------------------
(***************************************************************************)
(* sys_close and sys_dup2.                                                 *)
(***************************************************************************)

\* process_release_fd.  The entry may have changed since process_get_file:
\* when it is empty, kobj_putref(NULL).
process_release_fd(t) ==
    LET f == files["self"][fd[t]] IN
    /\ pc[t] = "release"
    /\ IF f = NULL
       THEN crash' = "null" /\ UNCHANGED <<files, refs, procfd, pc>>
       ELSE /\ files' = [files EXCEPT !["self"][fd[t]] = NULL]
            /\ refs' = Put(refs, f)
            /\ IF fd[t] \in procfd["self"]
               THEN /\ procfd' = [procfd EXCEPT !["self"] = @ \ {fd[t]}]
                    /\ Go(t, "close")
                    /\ UNCHANGED crash
               ELSE crash' = "assert" /\ UNCHANGED <<procfd, pc>>
    /\ UNCHANGED <<cloexec, opens, leaked, child, ops, local>>

\* ops->close
Closed(f) == [opens EXCEPT ![f] = @ - 1]

\* file_close at the end of sys_close.
file_close(t) ==
    /\ pc[t] = "close"
    /\ opens' = Closed(held[t])
    /\ refs' = Put(refs, held[t])
    /\ Return(t)
    /\ UNCHANGED <<files, cloexec, procfd, leaked, child, ops, crash>>

\* sys_dup2 with a descriptor out of range: ERANGE, and the reference of
\* process_get_file is not given back.
sys_dup2_range(t, i) ==
    /\ Begin(t)
    /\ files["self"][i] # NULL
    /\ refs' = Get(refs, files["self"][i])
    /\ leaked' = [leaked EXCEPT ![files["self"][i]] = @ + 1]
    /\ UNCHANGED <<files, cloexec, procfd, opens, child, pc, local, crash>>

\* process_exchange_fd, and kobj_putref(file) after it.
process_exchange_fd(t) ==
    LET f == held[t] IN
    /\ pc[t] = "exchange"
    /\ old' = [old EXCEPT ![t] = files["self"][to[t]]]
    /\ files' = [files EXCEPT !["self"][to[t]] = f]
    /\ opens' = [opens EXCEPT ![f] = @ + 1]
    /\ held' = [held EXCEPT ![t] = NULL]
    /\ Go(t, "replace")
    /\ UNCHANGED <<cloexec, procfd, refs, leaked, child, ops, fd, to, crash>>

\* The file that was there, if any: its link is removed and it is closed.
dup2_close_old(t) ==
    /\ pc[t] = "replace"
    /\ IF old[t] = NULL THEN Go(t, "copy2") /\ UNCHANGED <<procfd, opens, refs, crash>>
       ELSE IF to[t] \notin procfd["self"]
       THEN crash' = "assert" /\ UNCHANGED <<procfd, opens, refs, pc>>
       ELSE /\ procfd' = [procfd EXCEPT !["self"] = @ \ {to[t]}]
            /\ opens' = Closed(old[t])
            /\ refs' = Put(refs, old[t])
            /\ Go(t, "copy2")
            /\ UNCHANGED crash
    /\ UNCHANGED <<files, cloexec, leaked, child, ops, local>>

\* fcntl(F_SETFD).
fcntl_setfd(t, c) ==
    /\ pc[t] = "setfd"
    /\ cloexec' = IF c THEN cloexec \cup {fd[t]} ELSE cloexec \ {fd[t]}
    /\ Go(t, "put")
    /\ UNCHANGED <<files, procfd, refs, opens, leaked, child, ops, local, crash>>

-----------------------------------------------------------------------------
(***************************************************************************)
(* fork, exit and exec.                                                    *)
(***************************************************************************)

Named(p, f) == {i \in Fd : files[p][i] = f}

\* process_copy_files, under files_lock.
process_copy_files(t) ==
    /\ Begin(t)
    /\ ~child
    /\ child' = TRUE
    /\ IF \E i \in Fd : files["self"][i] # NULL /\ i \notin procfd["self"]
       THEN crash' = "assert" /\ UNCHANGED <<files, refs, opens, procfd>>
       ELSE /\ files' = [files EXCEPT !["child"] = files["self"]]
            /\ refs' = [f \in File |-> refs[f] + Cardinality(Named("self", f))]
            /\ opens' = [f \in File |-> opens[f] + Cardinality(Named("self", f))]
            /\ procfd' = [procfd EXCEPT !["child"] = {i \in Fd : files["self"][i] # NULL}]
            /\ UNCHANGED crash
    /\ UNCHANGED <<cloexec, leaked, pc, local>>

\* process_close_files of the descriptors in set S of process p.
process_close_files(p, S) ==
    /\ files' = [files EXCEPT ![p] = [i \in Fd |-> IF i \in S THEN NULL ELSE @[i]]]
    /\ refs' = [f \in File |-> refs[f] - Cardinality(Named(p, f) \cap S)]
    /\ opens' = [f \in File |-> opens[f] - Cardinality(Named(p, f) \cap S)]
    /\ IF S \subseteq procfd[p]
       THEN procfd' = [procfd EXCEPT ![p] = @ \ S] /\ UNCHANGED crash
       ELSE crash' = "assert" /\ UNCHANGED procfd

Open(p) == {i \in Fd : files[p][i] # NULL}

\* The child exits.
ChildExit ==
    /\ child
    /\ child' = FALSE
    /\ process_close_files("child", Open("child"))
    /\ UNCHANGED <<cloexec, leaked, ops, pc, local>>

\* execve by thread t, alone in its process by then.
Exec(t) ==
    /\ Begin(t)
    /\ \A u \in Thread : pc[u] = "idle"
    /\ process_close_files("self", Open("self") \cap cloexec)
    /\ cloexec' = cloexec \ Open("self")
    /\ UNCHANGED <<leaked, child, pc, local>>

FilesNext ==
    /\ crash = "no"
    /\ \/ ChildExit
       \/ \E t \in Thread :
            \/ \E f \in File : sys_openat(t, f)
            \/ process_allocate_fd(t, "alloc", "link")
            \/ \E c \in BOOLEAN : process_create_proc_fd(t, c)
            \/ \E i \in Fd, j \in {0, 1} : process_get_file(t, i, j, "dupalloc") \* dup, F_DUPFD
            \/ process_allocate_fd(t, "dupalloc", "copy")
            \/ process_copy_proc_fd(t, "copy", "put")
            \/ \E i \in Fd : process_get_file(t, i, 0, "release") \* close
            \/ process_release_fd(t)
            \/ file_close(t)
            \/ \E i \in Fd : sys_dup2_range(t, i)
            \/ \E i, j \in Fd : (i # j \/ SelfDup) /\ process_get_file(t, i, j, "exchange") \* dup2
            \/ process_exchange_fd(t)
            \/ dup2_close_old(t)
            \/ process_copy_proc_fd(t, "copy2", "idle")
            \/ \E i \in Fd : process_get_file(t, i, 0, "setfd")
            \/ \E c \in BOOLEAN : fcntl_setfd(t, c)
            \/ PutHeld(t)
            \/ process_copy_files(t)
            \/ Exec(t)

FilesSpec == FilesInit /\ [][FilesNext]_vars

-----------------------------------------------------------------------------
(***************************************************************************)
(* Properties.                                                             *)
(***************************************************************************)

Tables(f) == Cardinality(Named("self", f)) + Cardinality(Named("child", f))

\* A file has as many references as there are descriptors in all tables,
\* calls that hold it and files dup2 has taken out and not closed yet, plus
\* those that dup2 leaked: no interleaving of opens, dups, closes and forks
\* frees a file that is in use or keeps one that is not.
FileRefsAddUp ==
    crash = "no" =>
        \A f \in File :
            refs[f] = Tables(f) + leaked[f]
                      + Cardinality({t \in Thread : held[t] = f})
                      + Cardinality({t \in Thread : pc[t] = "replace" /\ old[t] = f})

\* The open and close callbacks are balanced (a pipe counts its readers and
\* writers with them): a file has been opened once for every descriptor.
\* A thread alone in its process; two threads that close the same descriptor
\* call close twice.
OpensMatchDescriptors ==
    crash = "no" /\ Cardinality(Thread) = 1 =>
        \A t \in Thread : pc[t] = "idle" =>
            \A f \in File : refs[f] > 0 => opens[f] = Tables(f)

\* The assertions that the link of a descriptor could be made, read and
\* removed (file.c:74, 89, 103, 105), and the dereference in
\* process_release_fd, never fail.
LinksFollowDescriptors == crash = "no"
=============================================================================
