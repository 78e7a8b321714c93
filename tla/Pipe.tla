-------------------------------- MODULE Pipe ---------------------------------
(***************************************************************************)
(* Character buffers, kernel/charbuffer.c, and pipes, kernel/fs/pipe.c,    *)
(* the main user of them.                                                  *)
(*                                                                         *)
(* charbuffer_write and charbuffer_read are mirror images, so that one     *)
(* action here is a step of both.  They run at the same time: each has a   *)
(* lock of its own, and they only meet in the atomic counter cb->pending   *)
(* and in the two wait lists.                                              *)
(*                                                                         *)
(* A thread stands for a process with at most one end of the pipe open, as *)
(* a writer or as a reader.  The bytes of a write are chosen when they are *)
(* copied.  poll() is not modelled here.                                   *)
(***************************************************************************)
EXTENDS Blocklist

CONSTANTS
    Reader, Writer,         \* the threads that may open each end
    Kinds,                  \* the values of pipe->named to consider
    Byte, Capacity,
    Word,                   \* size_t arithmetic is modulo Word
    Lens,                   \* the lengths asked for
    ReadFlags, WriteFlags,  \* the flags that the users of the buffer pass
    Signalled,              \* the threads that receive signals
    NULL                    \* a lock that is free

ASSUME Threads == Reader \cup Writer = Thread /\ Reader \cap Writer = {}
ASSUME Lists == BlockList = {"wait_read", "wait_write"}
\* The capacity is 0x1000, a power of two.
ASSUME Indices == Capacity \in Nat \ {0} /\ Word \in Nat /\ Word % Capacity = 0 /\ Word > Capacity
ASSUME NamedOrNot == Kinds \subseteq BOOLEAN
ASSUME Lengths == Lens \subseteq Nat
\* _pipe_read and _pipe_write pass CHARBUFFER_DO_ANY with CHARBUFFER_DO_NONBLOCK.
ASSUME FlagSets == \A f \in ReadFlags \cup WriteFlags : "NONBLOCK" \in f => "ANY" \in f
ASSUME NoHolder == NULL \notin Thread

VARIABLES
    buffer,     \* cb->buffer
    index,      \* cb->head and cb->tail: where a write and a read continue
    cbpending,  \* cb->pending
    term, eof,  \* cb->term, cb->eof
    lock,       \* the threads that hold cb->write and cb->read
    named,      \* pipe->named
    open,       \* threads with an end open: pipe->readers and pipe->writers
    flags,      \* the flags of each thread's call
    remaining,  \* the bytes it still has to move
    moved,      \* amount_written # 0, or amount_read # 0
    chunk,      \* the bytes that its memcpy has moved; their number is amount
    pc

bufVars == <<buffer, index, cbpending>>
endVars == <<term, eof, open>>
locals == <<flags, remaining, moved, chunk>>
vars == <<blockVars, bufVars, endVars, lock, locals, pc, named>>

PC == {"user", "lock", "copy", "eof", "startblock", "count", "index", "wake", "test",
       "test_term", "schedule", "cleanup", "result", "relock", "again", "last", "return",
       "zero", "zero_eof", "open_eof", "close", "close_again", "close_eof", "eof_wake", "term_read",
       "term_write", "term_wake", "term_done"}

TypeOK ==
    /\ BlockTypeOK
    /\ buffer \in [0..(Capacity - 1) -> Byte]
    /\ index \in [{"write", "read"} -> 0..(Word - 1)]
    /\ cbpending \in 0..Capacity
    /\ term \in BOOLEAN /\ eof \in BOOLEAN
    /\ lock \in [{"write", "read"} -> Thread \cup {NULL}]
    /\ open \subseteq Thread
    /\ flags \in [Thread -> {{}} \cup ReadFlags \cup WriteFlags]
    /\ remaining \in [Thread -> Nat]
    /\ moved \subseteq Thread
    /\ chunk \in [Thread -> Seq(Byte)]
    /\ pc \in [Thread -> PC]
    /\ named \in Kinds

\* charbuffer_create, and the opening of both ends by sys_pipe.
Init ==
    /\ BlockInit
    /\ \E b \in Byte : buffer = [i \in 0..(Capacity - 1) |-> b]
    /\ index = [side \in {"write", "read"} |-> 0]
    /\ cbpending = 0
    /\ term = FALSE /\ eof = FALSE
    /\ lock = [side \in {"write", "read"} |-> NULL]
    /\ named \in Kinds
    /\ IF named THEN open = {}
       ELSE \E r \in Reader, w \in Writer : open = {r, w}
    /\ flags = [t \in Thread |-> {}]
    /\ remaining = [t \in Thread |-> 0]
    /\ moved = {}
    /\ chunk = [t \in Thread |-> << >>]
    /\ pc = [t \in Thread |-> "user"]

Goto(t, from, to) ==
    /\ pc[t] = from
    /\ pc' = [pc EXCEPT ![t] = to]

\* The lock and the wait list of the calls of t, and the list of its peers.
Side(t) == IF t \in Writer THEN "write" ELSE "read"
Own(t) == IF t \in Writer THEN "wait_write" ELSE "wait_read"
Peers(t) == IF t \in Writer THEN "wait_read" ELSE "wait_write"

Free(t) == lock[Side(t)] = NULL
Acquire(t) == lock' = [lock EXCEPT ![Side(t)] = t]
Release(t) == lock' = [lock EXCEPT ![Side(t)] = NULL]

NoWriters == open \cap Writer = {}
NoReaders == open \cap Reader = {}

-----------------------------------------------------------------------------
(***************************************************************************)
(* charbuffer_write and charbuffer_read                                    *)
(***************************************************************************)

\* A terminated buffer takes no bytes, but those in it may still be read.
Terminated(t) == term /\ (t \in Reader => cbpending = 0)

\* The room, or the bytes, that t finds.
Avail(t) == IF t \in Writer THEN Capacity - cbpending ELSE cbpending

\* The condition of the loops.
More(t) == remaining[t] # 0 /\ ("ANY" \notin flags[t] \/ t \notin moved)

\* The first lock, and the end of a call that has nothing to do.
Enter(t) ==
    /\ Free(t)
    /\ Goto(t, "lock", IF Terminated(t) THEN "zero" ELSE IF More(t) THEN "copy" ELSE "last")
    /\ IF pc'[t] = "copy" THEN Acquire(t) ELSE UNCHANGED lock
    /\ UNCHANGED <<blockVars, bufVars, endVars, locals>>

\* As much as the other side, the request and the end of the buffer allow.
Least(a, b) == IF a < b THEN a ELSE b
Amount(t) == Least(Least(Avail(t), remaining[t]), Capacity - (index[Side(t)] % Capacity))

\* Where the i-th byte of a copy is in the buffer.
Place(t, i) == (index[Side(t)] + i - 1) % Capacity

\* One round of the loop up to the decision to block.
Copy(t) ==
    /\ pc[t] = "copy"
    /\ \E n \in {Amount(t)} : \E s \in [1..n -> Byte] :
        /\ IF t \in Writer
           THEN buffer' = [p \in DOMAIN buffer |->
                    IF \E i \in 1..n : Place(t, i) = p
                    THEN s[CHOOSE i \in 1..n : Place(t, i) = p] ELSE buffer[p]]
           ELSE (\A i \in 1..n : s[i] = buffer[Place(t, i)]) /\ UNCHANGED buffer
        /\ chunk' = [chunk EXCEPT ![t] = s]
        /\ remaining' = [remaining EXCEPT ![t] = @ - n]
        /\ moved' = IF n > 0 THEN moved \cup {t} ELSE moved
        /\ UNCHANGED <<blockVars, index, cbpending, endVars, lock, flags>>
        /\ Goto(t, "copy",
                IF ~More(t)' \/ "NONBLOCK" \in flags[t] THEN "count"
                ELSE IF t \in Reader THEN "eof" ELSE "startblock")

\* A reader that would have to wait, and has nothing yet, consumes an eof.
Eof(t) ==
    LET ends == eof /\ t \notin moved
    IN  /\ Goto(t, "eof", IF ends THEN "zero_eof" ELSE "startblock")
        /\ eof' = (eof /\ ~ends)
        /\ IF ends THEN Release(t) ELSE UNCHANGED lock
        /\ UNCHANGED <<blockVars, bufVars, term, open, locals>>

StartBlock(t) ==
    /\ Goto(t, "startblock", "count")
    /\ blockpoint_startblock(t, Own(t), {})
    /\ UNCHANGED <<bufVars, endVars, lock, locals>>

\* atomic_fetch_add, or atomic_fetch_sub, of cb->pending
Count(t) ==
    LET n == Len(chunk[t])
    IN  /\ Goto(t, "count", "index")
        /\ cbpending' = IF t \in Writer THEN cbpending + n ELSE cbpending - n
        /\ UNCHANGED <<blockVars, buffer, index, endVars, lock, locals>>

\* Mutant: the index only advances when the whole request is done.
Index_IfDone(t) ==
    /\ Goto(t, "index", IF More(t) /\ "NONBLOCK" \in flags[t] THEN "return" ELSE "wake")
    /\ index' = IF remaining[t] > 0 THEN index
                ELSE [index EXCEPT ![Side(t)] = (@ + Len(chunk[t])) % Word]
    /\ chunk' = [chunk EXCEPT ![t] = << >>]
    /\ Release(t)
    /\ UNCHANGED <<blockVars, buffer, cbpending, endVars, flags, remaining, moved>>

\* The index advances and the lock is released.  A call that may not wait
\* returns without waking its peers.
Index(t) ==
    /\ Goto(t, "index", IF More(t) /\ "NONBLOCK" \in flags[t] THEN "return" ELSE "wake")
    /\ index' = [index EXCEPT ![Side(t)] = (@ + Len(chunk[t])) % Word]
    /\ chunk' = [chunk EXCEPT ![t] = << >>]
    /\ Release(t)
    /\ UNCHANGED <<blockVars, buffer, cbpending, endVars, flags, remaining, moved>>

WakePeers(t) ==
    /\ Goto(t, "wake", IF More(t) THEN "test" ELSE "again")
    /\ blocklist_unblock_all(Peers(t))
    /\ UNCHANGED <<bufVars, endVars, lock, locals>>

\* Mutant: the caller goes to sleep without looking at cb->pending again.
Test_Dropped(t) ==
    /\ Goto(t, "test", IF t \in Reader THEN "test_term" ELSE "schedule")
    /\ UNCHANGED <<blockVars, bufVars, endVars, lock, locals>>

\* The last look at cb->pending, and of a reader at cb->term, before sleeping.
Test(t) ==
    /\ Goto(t, "test", IF Avail(t) # 0 THEN "cleanup"
                       ELSE IF t \in Reader THEN "test_term" ELSE "schedule")
    /\ UNCHANGED <<blockVars, bufVars, endVars, lock, locals>>

TestTerm(t) ==
    /\ Goto(t, "test_term", IF term THEN "cleanup" ELSE "schedule")
    /\ UNCHANGED <<blockVars, bufVars, endVars, lock, locals>>

Scheduled(t) ==
    /\ Goto(t, "schedule", "cleanup")
    /\ schedule(t)
    /\ UNCHANGED <<bufVars, endVars, lock, locals>>

Cleanup(t) ==
    /\ Goto(t, "cleanup", "result")
    /\ blockpoint_cleanup(t, Own(t))
    /\ UNCHANGED <<bufVars, endVars, lock, locals>>

\* The result of blockpoint_cleanup, after which the blockpoint is gone.
Result(t) ==
    /\ Goto(t, "result", IF CleanupResult(t, {}) = "INTERRUPTED" THEN "return" ELSE "relock")
    /\ unblocked' = unblocked \ {t}
    /\ result' = [result EXCEPT ![t] = "UNBLOCKED"]
    /\ UNCHANGED <<state, uninter, onqueue, waitlist, pending, signal>>
    /\ UNCHANGED <<bufVars, endVars, lock, locals>>

Relock(t) ==
    /\ Free(t)
    /\ Goto(t, "relock", IF ~Terminated(t) THEN "copy"
                         ELSE IF t \in moved THEN "return" ELSE "zero")
    /\ IF Terminated(t) THEN UNCHANGED lock ELSE Acquire(t)
    /\ UNCHANGED <<blockVars, bufVars, endVars, locals>>

\* A call that is done takes its lock once more, and wakes its peers again.
Again(t) ==
    /\ Free(t)
    /\ Goto(t, "again", "last")
    /\ UNCHANGED <<blockVars, bufVars, endVars, lock, locals>>

WakeAgain(t) ==
    /\ Goto(t, "last", "return")
    /\ blocklist_unblock_all(Peers(t))
    /\ UNCHANGED <<bufVars, endVars, lock, locals>>

\* The return to the user, which ends a delivered signal.
Return(t) ==
    /\ pc[t] \in {"return", "zero", "zero_eof"}
    /\ pc' = [pc EXCEPT ![t] = "user"]
    /\ signal' = signal \ {t}
    /\ flags' = [flags EXCEPT ![t] = {}]
    /\ remaining' = [remaining EXCEPT ![t] = 0]
    /\ moved' = moved \ {t}
    /\ UNCHANGED <<state, uninter, onqueue, waitlist, unblocked, result, pending>>
    /\ UNCHANGED <<bufVars, endVars, lock, chunk>>

-----------------------------------------------------------------------------
(***************************************************************************)
(* The operations of a pipe file.                                          *)
(***************************************************************************)

\* _pipe_read and _pipe_write, which returns -EPIPE when nobody can read (the
\* SIGPIPE that it sends to the caller takes effect after the call).  When
\* the last writer is gone, pipe->writers stays 0, so that the two tests of
\* _pipe_read act as one.
ReadWrite(t) ==
    LET zero == ~named /\ t \in Reader /\ NoWriters /\ cbpending = 0
        epipe == ~named /\ t \in Writer /\ NoReaders
    IN  /\ t \in open
        /\ Goto(t, "user", IF zero THEN "zero" ELSE IF epipe THEN "return" ELSE "lock")
        /\ \E n \in Lens, f \in IF t \in Reader THEN ReadFlags ELSE WriteFlags :
              /\ remaining' = [remaining EXCEPT ![t] = n]
              /\ flags' = [flags EXCEPT ![t] = f]
        /\ UNCHANGED <<blockVars, bufVars, endVars, lock, moved, chunk>>

\* _pipe_open, by open() of a named pipe, or by a fork or dup of a process
\* with the same end open: first the count, then the reset of eof.
Open(t) ==
    /\ Goto(t, "user", "open_eof")
    /\ t \notin open
    /\ named \/ \E u \in open : Side(u) = Side(t)
    /\ open' = open \cup {t}
    /\ UNCHANGED <<blockVars, bufVars, term, eof, lock, locals>>

OpenEof(t) ==
    /\ Goto(t, "open_eof", "user")
    /\ eof' = FALSE
    /\ UNCHANGED <<blockVars, bufVars, term, open, lock, locals>>

\* _pipe_close: the count, and then its tests, each of which reads the counts.
Close(t) ==
    /\ t \in open
    /\ Goto(t, "user", "close")
    /\ open' = open \ {t}
    /\ UNCHANGED <<blockVars, bufVars, term, eof, lock, locals>>

CloseTest(t) ==
    /\ Goto(t, "close", IF ~named /\ (NoWriters \/ NoReaders) THEN "term_read"
                        ELSE "close_again")
    /\ UNCHANGED <<blockVars, bufVars, endVars, lock, locals>>

CloseTestAgain(t) ==
    /\ Goto(t, "close_again", IF NoWriters THEN "close_eof" ELSE "user")
    /\ UNCHANGED <<blockVars, bufVars, endVars, lock, locals>>

CloseEof(t) ==
    /\ Goto(t, "close_eof", "eof_wake")
    /\ eof' = TRUE
    /\ UNCHANGED <<blockVars, bufVars, term, open, lock, locals>>

EofWake(t) ==
    /\ Goto(t, "eof_wake", "user")
    /\ blocklist_unblock_all("wait_read")
    /\ UNCHANGED <<bufVars, endVars, lock, locals>>

\* charbuffer_terminate
TermRead(t) ==
    /\ Goto(t, "term_read", "term_write")
    /\ lock["read"] = NULL
    /\ lock' = [lock EXCEPT !["read"] = t]
    /\ UNCHANGED <<blockVars, bufVars, endVars, locals>>

TermWrite(t) ==
    /\ Goto(t, "term_write", "term_wake")
    /\ lock["write"] = NULL
    /\ lock' = [lock EXCEPT !["write"] = t]
    /\ term' = TRUE
    /\ UNCHANGED <<blockVars, bufVars, eof, open, locals>>

TermWake(t) ==
    /\ Goto(t, "term_wake", "term_done")
    /\ blocklist_unblock_all("wait_write")
    /\ UNCHANGED <<bufVars, endVars, lock, locals>>

TermDone(t) ==
    /\ Goto(t, "term_done", "user")
    /\ blocklist_unblock_all("wait_read")
    /\ lock' = [side \in {"write", "read"} |-> NULL]
    /\ UNCHANGED <<bufVars, endVars, locals>>

-----------------------------------------------------------------------------
\* A timer tick, which does nothing while a lock or startblock forbids it.
Preempted(t) ==
    /\ pc[t] \in {"user", "lock", "relock", "again", "result", "last", "return", "zero",
                 "zero_eof"}
    /\ preempt(t)
    /\ UNCHANGED <<bufVars, endVars, lock, locals, pc>>

Signal(t) ==
    /\ t \in Signalled
    /\ thread_send_signal(t)
    /\ UNCHANGED <<bufVars, endVars, lock, locals, pc>>

-----------------------------------------------------------------------------
\* The steps inside the calls.
Step(t) ==
    \/ Enter(t) \/ Copy(t) \/ Eof(t) \/ StartBlock(t) \/ Count(t) \/ Index(t)
    \/ WakePeers(t) \/ Test(t) \/ TestTerm(t) \/ Scheduled(t) \/ Cleanup(t) \/ Result(t)
    \/ Relock(t) \/ Again(t) \/ WakeAgain(t) \/ Return(t)
    \/ OpenEof(t) \/ CloseTest(t) \/ CloseTestAgain(t) \/ CloseEof(t) \/ EofWake(t)
    \/ TermRead(t) \/ TermWrite(t) \/ TermWake(t) \/ TermDone(t)

Next ==
    /\ \E t \in Thread : \/ ReadWrite(t) \/ Open(t) \/ Close(t) \/ Step(t)
                         \/ Preempted(t) \/ Signal(t)
    /\ UNCHANGED named

Spec == Init /\ [][Next]_vars

-----------------------------------------------------------------------------
(***************************************************************************)
(* Properties.                                                             *)
(***************************************************************************)

\* The bytes that a reader inside the copying part has already taken out,
\* although cb->pending, or cb->tail, does not show it yet.
NotCounted == IF \E r \in Reader : pc[r] \in {"eof", "startblock", "count"}
              THEN Len(chunk[CHOOSE r \in Reader : pc[r] \in {"eof", "startblock", "count"}])
              ELSE 0
NotIndexed == IF \E r \in Reader : pc[r] = "index"
              THEN Len(chunk[CHOOSE r \in Reader : pc[r] = "index"]) ELSE NotCounted

Contents == [i \in 1..(cbpending - NotCounted) |->
                buffer[(index["read"] + NotIndexed + i - 1) % Capacity]]

\* The buffer is a first-in first-out stream, whatever its two sides do at the
\* same time: a read takes the oldest bytes at its memcpy, and a write adds
\* its bytes when it adds to cb->pending.
Abstract == INSTANCE Stream WITH stream <- Contents, taken <- [r \in Reader |-> chunk[r]]
ImplementsStream == Abstract!Spec

\* Threads that are inside schedule() and that nothing has made runnable.
Asleep(t) ==
    /\ pc[t] = "schedule"
    /\ t \notin onqueue \cup pending

\* No wake-up is lost: a reader only sleeps on a buffer with bytes, a writer
\* only on one with room, and both only on a terminated one, while somebody
\* is on the way to wake them.
NoLostWakeup == \A t \in Thread : Asleep(t) =>
    /\ Avail(t) > 0 => \E u \in Thread : /\ Peers(u) = Own(t)
                                         /\ pc[u] \in {"index", "wake"}
    /\ term => \E u \in Thread : pc[u] \in {"term_wake", "term_done"}

\* read() returns 0 on an unnamed pipe only at the end: no writer is left that
\* could still write, and every byte written has been read.  Only a 0 that
\* comes from cb->eof may leave bytes behind: two writers that close at the
\* same time can set it between the look of the reader at cb->pending and its
\* look at cb->eof.
ZeroOnlyAtEnd == ~named => \A r \in Reader :
    /\ pc[r] \in {"zero", "zero_eof"} => NoWriters
    /\ pc[r] = "zero" => cbpending = 0

\* What a pipe promises to those that wait: nobody sleeps in charbuffer_read
\* or charbuffer_write on a buffer that has work for it, or that is
\* terminated, unless a wake-up is on its way; and read() returns 0 only when
\* no writer is left and every byte has been read.
PipeWakeups == NoLostWakeup /\ ZeroOnlyAtEnd

-----------------------------------------------------------------------------
(***************************************************************************)
(* The inductive invariant.                                                *)
(***************************************************************************)

\* Who holds the locks: copying is done under the lock of the side, and
\* charbuffer_terminate holds both while it wakes everybody.
Copying == {"copy", "eof", "startblock", "count", "index"}
Terminating == {"term_wake", "term_done"}

Locked == \A t \in Thread :
    /\ pc[t] \in Copying => lock[Side(t)] = t
    /\ pc[t] \in Terminating \cup {"term_write"} => lock["read"] = t
    /\ pc[t] \in Terminating => lock["write"] = t

\* The bytes of a copy that cb->pending does not show yet: the reader leaves
\* as many in it, and the writer has as much room.
Fits == \A t \in Thread :
    /\ pc[t] = "eof" => t \in Reader
    /\ pc[t] \in {"eof", "startblock", "count"} => Len(chunk[t]) <= Avail(t)
    /\ pc[t] \in {"eof", "startblock"} => More(t) /\ "NONBLOCK" \notin flags[t]
    /\ pc[t] = "wake" /\ More(t) => "NONBLOCK" \notin flags[t]
    /\ pc[t] \in {"eof", "startblock", "count", "index"} /\ Len(chunk[t]) > 0 => t \in moved

\* Between blockpoint_startblock and blockpoint_cleanup.
Blocking(t) ==
    \/ pc[t] \in {"count", "index", "wake"} /\ More(t) /\ "NONBLOCK" \notin flags[t]
    \/ pc[t] \in {"test", "test_term", "schedule", "cleanup"}

Listed ==
    /\ \A bl \in BlockList : NoDuplicates(waitlist[bl])
    /\ \A bl \in BlockList : Members(waitlist[bl]) = {t \in Thread : Own(t) = bl /\ Blocking(t)}

\* Whoever is unblocked before it sleeps is on the run queue.
Queued == \A t \in Thread : t \in unblocked /\ Blocking(t) /\ pc[t] # "cleanup" => t \in onqueue

Runnable(t) == t \in onqueue \cup pending

\* Whoever finds work after its last look at cb->pending has been woken, or
\* will be, by a peer that does not return from "index".
PeerComing(t) == \E u \in Thread :
    /\ Peers(u) = Own(t)
    /\ \/ pc[u] = "wake"
       \/ pc[u] = "index" /\ ~(More(u) /\ "NONBLOCK" \in flags[u])

PeersWake == \A t \in Thread :
    pc[t] \in {"test_term", "schedule"} /\ ~Runnable(t) /\ Avail(t) > 0 => PeerComing(t)

\* The same for charbuffer_terminate.  No writer blocks any more once cb->term
\* is set, and a reader looks at it again before it sleeps.
TermWakes ==
    /\ \A t \in Writer : term => pc[t] \notin Copying
    /\ \A t \in Writer : term /\ Blocking(t) /\ pc[t] # "cleanup" /\ ~Runnable(t) =>
           \E u \in Thread : pc[u] = "term_wake"
    /\ \A t \in Reader : term /\ pc[t] = "schedule" /\ ~Runnable(t) =>
           \E u \in Thread : pc[u] \in Terminating

\* Those inside a call have their end open, and on an unnamed pipe a side
\* that everybody has closed is never opened again.
InCall == {"lock", "wake", "test", "test_term", "schedule", "cleanup", "result", "relock", "again",
           "last", "return", "zero", "zero_eof", "open_eof"} \cup Copying

Ends ==
    /\ \A t \in Thread : pc[t] \in InCall => t \in open
    /\ ~named /\ (term \/ \E t \in Thread : pc[t] \in Terminating \cup {"term_read", "term_write"}) =>
          NoWriters \/ NoReaders
    /\ ~named /\ (eof \/ \E t \in Thread : pc[t] = "close_eof") => NoWriters

WakeInv == TypeOK /\ Locked /\ Fits /\ Listed /\ Queued /\ PeersWake /\ TermWakes
PipeInv == WakeInv /\ Ends /\ ZeroOnlyAtEnd
=============================================================================
