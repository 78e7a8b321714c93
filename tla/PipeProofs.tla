----------------------------- MODULE PipeProofs ------------------------------
(***************************************************************************)
(* Pipes lose no wake-up, and a read returns 0 only at the end, for every  *)
(* number of readers and writers and every capacity.                       *)
(*                                                                         *)
(* The first part says what a step of a thread t can be: where it leads    *)
(* (Route) and which variables it leaves alone (Frame).  The other parts   *)
(* show from these two, one conjunct of the invariant after the other,     *)
(* that every step preserves it: the types, the owners of the two locks,   *)
(* the bytes that are copied and not yet counted, the wait lists, and who  *)
(* wakes whom.                                                             *)
(***************************************************************************)
EXTENDS Pipe, BlocklistProofs

\* The time limits of the provers, in seconds.
USE SMTT(30), ZenonT(30)

-----------------------------------------------------------------------------
(***************************************************************************)
(* What a step does to the threads.                                        *)
(***************************************************************************)

\* The two sides are mirror images.
LEMMA Sides ==
    ASSUME NEW t \in Thread
    PROVE  /\ Side(t) \in {"write", "read"} /\ Own(t) \in BlockList /\ Peers(t) \in BlockList
           /\ t \in Writer => t \notin Reader /\ Side(t) = "write" /\ Own(t) = "wait_write"
           /\ t \notin Writer => t \in Reader /\ Side(t) = "read" /\ Own(t) = "wait_read"
  BY Threads, Lists DEF Side, Own, Peers

\* The steps that wake everybody on a list.
Wakes(t) == WakePeers(t) \/ WakeAgain(t) \/ EofWake(t) \/ TermWake(t) \/ TermDone(t)

\* The control flow of the calls.
Route(t) ==
    \/ Enter(t) /\ pc[t] = "lock" /\ pc'[t] \in {"zero", "copy", "last"}
    \/ Copy(t) /\ pc[t] = "copy" /\ pc'[t] \in {"count", "eof", "startblock"}
    \/ Eof(t) /\ pc[t] = "eof" /\ pc'[t] \in {"zero_eof", "startblock"}
    \/ StartBlock(t) /\ pc[t] = "startblock" /\ pc'[t] = "count"
    \/ Count(t) /\ pc[t] = "count" /\ pc'[t] = "index"
    \/ Index(t) /\ pc[t] = "index" /\ pc'[t] \in {"return", "wake"}
    \/ WakePeers(t) /\ pc[t] = "wake" /\ pc'[t] \in {"test", "again"}
    \/ Test(t) /\ pc[t] = "test" /\ pc'[t] \in {"cleanup", "test_term", "schedule"}
    \/ TestTerm(t) /\ pc[t] = "test_term" /\ pc'[t] \in {"cleanup", "schedule"}
    \/ Scheduled(t) /\ pc[t] = "schedule" /\ pc'[t] = "cleanup"
    \/ Cleanup(t) /\ pc[t] = "cleanup" /\ pc'[t] = "result"
    \/ Result(t) /\ pc[t] = "result" /\ pc'[t] \in {"return", "relock"}
    \/ Relock(t) /\ pc[t] = "relock" /\ pc'[t] \in {"copy", "return", "zero"}
    \/ Again(t) /\ pc[t] = "again" /\ pc'[t] = "last"
    \/ WakeAgain(t) /\ pc[t] = "last" /\ pc'[t] = "return"
    \/ Return(t) /\ pc[t] \in {"return", "zero", "zero_eof"} /\ pc'[t] = "user"
    \/ ReadWrite(t) /\ pc[t] = "user" /\ pc'[t] \in {"zero", "return", "lock"}
    \/ Open(t) /\ pc[t] = "user" /\ pc'[t] = "open_eof"
    \/ OpenEof(t) /\ pc[t] = "open_eof" /\ pc'[t] = "user"
    \/ Close(t) /\ pc[t] = "user" /\ pc'[t] = "close"
    \/ CloseTest(t) /\ pc[t] = "close" /\ pc'[t] \in {"term_read", "close_again"}
    \/ CloseTestAgain(t) /\ pc[t] = "close_again" /\ pc'[t] \in {"close_eof", "user"}
    \/ CloseEof(t) /\ pc[t] = "close_eof" /\ pc'[t] = "eof_wake"
    \/ EofWake(t) /\ pc[t] = "eof_wake" /\ pc'[t] = "user"
    \/ TermRead(t) /\ pc[t] = "term_read" /\ pc'[t] = "term_write"
    \/ TermWrite(t) /\ pc[t] = "term_write" /\ pc'[t] = "term_wake"
    \/ TermWake(t) /\ pc[t] = "term_wake" /\ pc'[t] = "term_done"
    \/ TermDone(t) /\ pc[t] = "term_done" /\ pc'[t] = "user"
    \/ /\ Preempted(t) /\ pc'[t] = pc[t]
       /\ pc[t] \in {"user", "lock", "relock", "again", "result", "last", "return", "zero", "zero_eof"}
    \/ Signal(t) /\ pc'[t] = pc[t]

\* The steps that change each variable.
Frame(t) ==
    /\ UNCHANGED blockVars \/ Wakes(t) \/ StartBlock(t) \/ Scheduled(t) \/ Cleanup(t) \/ Result(t)
                           \/ Return(t) \/ Preempted(t) \/ Signal(t)
    /\ waitlist' = waitlist \/ StartBlock(t) \/ Cleanup(t)
    /\ buffer' = buffer \/ Copy(t)
    /\ index' = index \/ Index(t)
    /\ cbpending' = cbpending \/ Count(t)
    /\ term' = term \/ TermWrite(t)
    /\ eof' = eof \/ Eof(t) \/ OpenEof(t) \/ CloseEof(t)
    /\ lock' = lock \/ Enter(t) \/ Eof(t) \/ Index(t) \/ Relock(t) \/ TermRead(t) \/ TermWrite(t) \/ TermDone(t)
    /\ open' = open \/ Open(t) \/ Close(t)
    /\ chunk' = chunk \/ Copy(t) \/ Index(t)
    /\ UNCHANGED <<flags, remaining, moved>> \/ ReadWrite(t) \/ Copy(t) \/ Return(t)
    /\ pc' = [pc EXCEPT ![t] = pc'[t]]

LEMMA Routes ==
    ASSUME TypeOK, Next
    PROVE  \E t \in Thread : Route(t)
  <1>0. pc \in [Thread -> PC]
    BY DEF TypeOK
  <1>1. PICK t \in Thread : ReadWrite(t) \/ Open(t) \/ Close(t) \/ Step(t) \/ Preempted(t) \/ Signal(t)
    BY DEF Next
  <1>2. /\ Enter(t) => pc[t] = "lock" /\ pc'[t] \in {"zero", "copy", "last"}
        /\ Copy(t) => pc[t] = "copy" /\ pc'[t] \in {"count", "eof", "startblock"}
        /\ Eof(t) => pc[t] = "eof" /\ pc'[t] \in {"zero_eof", "startblock"}
    BY <1>0 DEF Enter, Copy, Eof, Goto
  <1>3. /\ StartBlock(t) => pc[t] = "startblock" /\ pc'[t] = "count"
        /\ Count(t) => pc[t] = "count" /\ pc'[t] = "index"
        /\ Index(t) => pc[t] = "index" /\ pc'[t] \in {"return", "wake"}
        /\ WakePeers(t) => pc[t] = "wake" /\ pc'[t] \in {"test", "again"}
    BY <1>0 DEF StartBlock, Count, Index, WakePeers, Goto
  <1>4. /\ Test(t) => pc[t] = "test" /\ pc'[t] \in {"cleanup", "test_term", "schedule"}
        /\ TestTerm(t) => pc[t] = "test_term" /\ pc'[t] \in {"cleanup", "schedule"}
        /\ Scheduled(t) => pc[t] = "schedule" /\ pc'[t] = "cleanup"
        /\ Cleanup(t) => pc[t] = "cleanup" /\ pc'[t] = "result"
        /\ Result(t) => pc[t] = "result" /\ pc'[t] \in {"return", "relock"}
    BY <1>0 DEF Test, TestTerm, Scheduled, Cleanup, Result, Goto
  <1>5. /\ Relock(t) => pc[t] = "relock" /\ pc'[t] \in {"copy", "return", "zero"}
        /\ Again(t) => pc[t] = "again" /\ pc'[t] = "last"
        /\ WakeAgain(t) => pc[t] = "last" /\ pc'[t] = "return"
        /\ Return(t) => pc[t] \in {"return", "zero", "zero_eof"} /\ pc'[t] = "user"
        /\ ReadWrite(t) => pc[t] = "user" /\ pc'[t] \in {"zero", "return", "lock"}
    BY <1>0 DEF Relock, Again, WakeAgain, Return, ReadWrite, Goto
  <1>6. /\ Open(t) => pc[t] = "user" /\ pc'[t] = "open_eof"
        /\ OpenEof(t) => pc[t] = "open_eof" /\ pc'[t] = "user"
        /\ Close(t) => pc[t] = "user" /\ pc'[t] = "close"
        /\ CloseTest(t) => pc[t] = "close" /\ pc'[t] \in {"term_read", "close_again"}
        /\ CloseTestAgain(t) => pc[t] = "close_again" /\ pc'[t] \in {"close_eof", "user"}
        /\ CloseEof(t) => pc[t] = "close_eof" /\ pc'[t] = "eof_wake"
        /\ EofWake(t) => pc[t] = "eof_wake" /\ pc'[t] = "user"
    BY <1>0 DEF Open, OpenEof, Close, CloseTest, CloseTestAgain, CloseEof, EofWake, Goto
  <1>7. /\ TermRead(t) => pc[t] = "term_read" /\ pc'[t] = "term_write"
        /\ TermWrite(t) => pc[t] = "term_write" /\ pc'[t] = "term_wake"
        /\ TermWake(t) => pc[t] = "term_wake" /\ pc'[t] = "term_done"
        /\ TermDone(t) => pc[t] = "term_done" /\ pc'[t] = "user"
    BY <1>0 DEF TermRead, TermWrite, TermWake, TermDone, Goto
  <1>8. /\ Preempted(t) => /\ pc'[t] = pc[t]
                           /\ pc[t] \in {"user", "lock", "relock", "again", "result", "last", "return", "zero",
                                         "zero_eof"}
        /\ Signal(t) => pc'[t] = pc[t]
    BY ZenonT(40) DEF Preempted, Signal
  <1>9. Route(t)
    BY <1>1, <1>2, <1>3, <1>4, <1>5, <1>6, <1>7, <1>8 DEF Step, Route
  <1>10. QED
    BY <1>9

LEMMA Frames ==
    ASSUME TypeOK, NEW t \in Thread, Route(t)
    PROVE  Frame(t)
  <1>0. pc \in [Thread -> PC]
    BY DEF TypeOK
  <1>1. CASE Enter(t) \/ Relock(t) \/ Eof(t)
    BY <1>0, <1>1 DEF Frame, Enter, Relock, Eof, Goto, bufVars, endVars, locals, blockVars
  <1>2. CASE Test(t) \/ TestTerm(t) \/ Again(t) \/ CloseTest(t) \/ CloseTestAgain(t)
    BY <1>0, <1>2, ZenonT(40) DEF Frame, Test, TestTerm, Again, CloseTest, CloseTestAgain, Goto, bufVars, endVars, locals,
                      blockVars
  <1>3. CASE Open(t) \/ OpenEof(t) \/ Close(t) \/ CloseEof(t) \/ TermRead(t) \/ TermWrite(t)
    BY <1>0, <1>3 DEF Frame, Open, OpenEof, Close, CloseEof, TermRead, TermWrite, Goto, bufVars, locals,
                      endVars, blockVars
  <1>4. CASE Wakes(t)
    <2>1. waitlist' = waitlist
      BY <1>4 DEF Wakes, WakePeers, WakeAgain, EofWake, TermWake, TermDone, blocklist_unblock_all,
                  blockpoint_unblock
    <2>2. CASE TermDone(t)
      BY <1>0, <1>4, <2>1, <2>2 DEF Frame, TermDone, Goto, bufVars, endVars, locals
    <2>3. CASE WakePeers(t) \/ WakeAgain(t) \/ EofWake(t) \/ TermWake(t)
      <3>1. UNCHANGED <<buffer, index, cbpending, lock, term, eof, open, chunk, flags, remaining, moved>>
        BY <2>3 DEF WakePeers, WakeAgain, EofWake, TermWake, bufVars, endVars, locals
      <3>2. pc' = [pc EXCEPT ![t] = pc'[t]]
        BY <1>0, <2>3 DEF WakePeers, WakeAgain, EofWake, TermWake, Goto
      <3>3. QED
        BY <1>4, <2>1, <3>1, <3>2 DEF Frame
    <2>4. QED
      BY <1>4, <2>2, <2>3, ZenonT(40) DEF Wakes
  <1>5. CASE StartBlock(t) \/ Cleanup(t)
    <2>1. UNCHANGED <<buffer, index, cbpending, lock, term, eof, open, chunk, flags, remaining, moved>>
      BY <1>5 DEF StartBlock, Cleanup, bufVars, endVars, locals
    <2>2. pc' = [pc EXCEPT ![t] = pc'[t]]
      BY <1>0, <1>5 DEF StartBlock, Cleanup, Goto
    <2>3. QED
      BY <1>5, <2>1, <2>2 DEF Frame
  <1>6. CASE Scheduled(t) \/ Result(t)
    BY <1>0, <1>6, ZenonT(40) DEF Frame, Scheduled, Result, schedule, Goto, bufVars, endVars, locals
  <1>7. CASE Count(t) \/ Index(t)
    BY <1>0, <1>7 DEF Frame, Count, Index, Goto, bufVars, endVars, locals, blockVars
  <1>8. CASE Copy(t)
    <2>1. UNCHANGED <<blockVars, index, cbpending, endVars, lock>>
      BY <1>8, ZenonT(40) DEF Copy
    <2>2. pc' = [pc EXCEPT ![t] = pc'[t]]
      BY <1>0, <1>8 DEF Copy, Goto
    <2>3. QED
      BY <1>8, <2>1, <2>2 DEF Frame, endVars, blockVars
  <1>9. CASE ReadWrite(t) \/ Return(t)
    BY <1>0, <1>9 DEF Frame, ReadWrite, Return, Goto, bufVars, endVars, blockVars
  <1>10. CASE Preempted(t) \/ Signal(t)
    BY <1>0, <1>10 DEF Frame, Preempted, Signal, preempt, thread_send_signal, bufVars, endVars, locals
  <1>11. QED
    BY <1>1, <1>2, <1>3, <1>4, <1>5, <1>6, <1>7, <1>8, <1>9, <1>10, ZenonT(40) DEF Route, Wakes

\* The steps that wake everybody on a list.
LEMMA WakesLists ==
    ASSUME WakeInv, NEW t \in Thread, Wakes(t)
    PROVE  \E bl \in BlockList : /\ blocklist_unblock_all(bl)
                                 /\ BlockTypeOK' /\ pending' = pending
                                 /\ unblocked' = unblocked \cup Members(waitlist[bl])
                                 /\ onqueue' = onqueue \cup (Members(waitlist[bl]) \ unblocked)
  <1>1. PICK bl \in BlockList : blocklist_unblock_all(bl)
    BY Sides, Lists, ZenonT(40) DEF Wakes, WakePeers, WakeAgain, EofWake, TermWake, TermDone
  <1>2. BlockTypeOK
    BY DEF WakeInv, TypeOK
  <1>3. QED
    BY <1>1, <1>2, UnblockAllLists

\* How much a copy moves.
LEMMA Amounts ==
    ASSUME TypeOK, NEW t \in Thread
    PROVE  /\ Amount(t) \in Nat
           /\ Amount(t) <= Avail(t)
           /\ Amount(t) <= remaining[t]
           /\ Avail(t) \in Nat
  <1>1. Avail(t) \in Nat /\ remaining[t] \in Nat
    BY Indices DEF TypeOK, Avail
  <1>2. index[Side(t)] \in Int
    BY Sides, Indices DEF TypeOK
  <1>3. index[Side(t)] % Capacity \in 0..(Capacity - 1)
    BY <1>2, Indices
  <1>4. QED
    BY <1>1, <1>3, Indices DEF Amount, Least

\* One round of the loops, up to the decision to block.
LEMMA Copies ==
    ASSUME TypeOK, NEW t \in Thread, Copy(t)
    PROVE  \E n \in Nat, s \in Seq(Byte) :
              /\ n = Amount(t) /\ Len(s) = n
              /\ chunk' = [chunk EXCEPT ![t] = s]
              /\ remaining' = [remaining EXCEPT ![t] = @ - n]
              /\ moved' = IF n > 0 THEN moved \cup {t} ELSE moved
              /\ flags' = flags
  <1>1. PICK s \in [1..Amount(t) -> Byte] :
              /\ chunk' = [chunk EXCEPT ![t] = s]
              /\ remaining' = [remaining EXCEPT ![t] = @ - Amount(t)]
              /\ moved' = IF Amount(t) > 0 THEN moved \cup {t} ELSE moved
              /\ flags' = flags
    BY ZenonT(40) DEF Copy
  <1>2. Amount(t) \in Nat
    BY Amounts
  <1>3. s \in Seq(Byte) /\ Len(s) = Amount(t)
    BY <1>2
  <1>4. QED
    BY <1>1, <1>2, <1>3, ZenonT(40)

\* The other threads stay where they are, with their variables.
Same(u) ==
    /\ pc'[u] = pc[u]
    /\ chunk'[u] = chunk[u]
    /\ flags'[u] = flags[u]
    /\ remaining'[u] = remaining[u]
    /\ u \in moved' <=> u \in moved
    /\ More(u)' <=> More(u)
    /\ Blocking(u)' <=> Blocking(u)

LEMMA OthersSame ==
    ASSUME TypeOK, NEW t \in Thread, NEW u \in Thread \ {t}, Frame(t)
    PROVE  Same(u)
  <1>1. pc'[u] = pc[u]
    BY DEF TypeOK, Frame
  <1>2. chunk'[u] = chunk[u]
    <2>1. CASE Copy(t)
      BY <2>1, Copies DEF TypeOK
    <2>2. CASE Index(t)
      BY <2>2, ZenonT(40) DEF TypeOK, Index
    <2>3. QED
      BY <2>1, <2>2 DEF Frame
  <1>3. flags'[u] = flags[u] /\ remaining'[u] = remaining[u] /\ (u \in moved' <=> u \in moved)
    <2>1. CASE Copy(t)
      BY <2>1, Copies DEF TypeOK
    <2>2. CASE ReadWrite(t) \/ Return(t)
      BY <2>2, ZenonT(40) DEF TypeOK, ReadWrite, Return
    <2>3. QED
      BY <2>1, <2>2 DEF Frame
  <1>4. More(u)' <=> More(u)
    BY <1>3 DEF More
  <1>5. QED
    BY <1>1, <1>2, <1>3, <1>4 DEF Same, Blocking

-----------------------------------------------------------------------------
(***************************************************************************)
(* Types.                                                                  *)
(***************************************************************************)

\* A thread joins a list where it is not yet, and leaves one where it is.
LEMMA ListedWhenBlocking ==
    ASSUME WakeInv, NEW t \in Thread
    PROVE  /\ NoDuplicates(waitlist[Own(t)])
           /\ t \in Members(waitlist[Own(t)]) <=> Blocking(t)
  <1>1. Own(t) \in BlockList
    BY Sides
  <1>2. QED
    BY <1>1 DEF WakeInv, Listed

LEMMA BlockTypes ==
    ASSUME WakeInv, NEW t \in Thread, Route(t), Frame(t)
    PROVE  BlockTypeOK'
  <1>0. BlockTypeOK /\ Own(t) \in BlockList
    BY Sides DEF WakeInv, TypeOK
  <1>1. CASE UNCHANGED blockVars
    BY <1>0, <1>1 DEF BlockTypeOK, blockVars
  <1>2. CASE Wakes(t)
    BY <1>2, WakesLists
  <1>3. CASE StartBlock(t)
    <2>1. ~Blocking(t)
      BY <1>3, ZenonT(40) DEF StartBlock, Goto, Blocking
    <2>2. QED
      BY <1>0, <1>3, <2>1, ListedWhenBlocking, StartBlockLists DEF StartBlock
  <1>4. CASE Cleanup(t)
    <2>1. Blocking(t)
      BY <1>4 DEF Cleanup, Goto, Blocking
    <2>2. QED
      BY <1>0, <1>4, <2>1, ListedWhenBlocking, CleanupLists DEF Cleanup
  <1>5. CASE Scheduled(t) \/ Preempted(t) \/ Signal(t)
    BY <1>0, <1>5, StateTypes DEF Scheduled, Preempted, Signal
  <1>6. CASE Result(t) \/ Return(t)
    BY <1>0, <1>6 DEF Result, Return, BlockTypeOK, BlockResult
  <1>7. QED
    BY <1>1, <1>2, <1>3, <1>4, <1>5, <1>6 DEF Frame

\* The bytes of a copy go into the buffer.
LEMMA BufferTypes ==
    ASSUME TypeOK, NEW t \in Thread, Copy(t)
    PROVE  buffer' \in [0..(Capacity - 1) -> Byte]
  <1>1. PICK n \in {Amount(t)} : \E s \in [1..n -> Byte] :
            IF t \in Writer
            THEN buffer' = [p \in DOMAIN buffer |->
                    IF \E i \in 1..n : Place(t, i) = p
                    THEN s[CHOOSE i \in 1..n : Place(t, i) = p] ELSE buffer[p]]
            ELSE UNCHANGED buffer
    BY ZenonT(40) DEF Copy
  <1>2. PICK s \in [1..n -> Byte] :
            IF t \in Writer
            THEN buffer' = [p \in DOMAIN buffer |->
                    IF \E i \in 1..n : Place(t, i) = p
                    THEN s[CHOOSE i \in 1..n : Place(t, i) = p] ELSE buffer[p]]
            ELSE UNCHANGED buffer
    BY <1>1, ZenonT(40)
  <1>3. ASSUME NEW p \in DOMAIN buffer, \E i \in 1..n : Place(t, i) = p
        PROVE  s[CHOOSE i \in 1..n : Place(t, i) = p] \in Byte
    <2> DEFINE j == CHOOSE i \in 1..n : Place(t, i) = p
    <2>1. j \in 1..n
      BY <1>3
    <2> HIDE DEF j
    <2>2. s[j] \in Byte
      BY <2>1
    <2>3. QED
      BY <2>2 DEF j
  <1>4. DOMAIN buffer = 0..(Capacity - 1) /\ \A p \in DOMAIN buffer : buffer[p] \in Byte
    BY ZenonT(40) DEF TypeOK
  <1>5. QED
    BY <1>2, <1>3, <1>4, ZenonT(40) DEF TypeOK

LEMMA BytesTypes ==
    ASSUME WakeInv, NEW t \in Thread, Frame(t)
    PROVE  /\ buffer' \in [0..(Capacity - 1) -> Byte]
           /\ index' \in [{"write", "read"} -> 0..(Word - 1)]
           /\ cbpending' \in 0..Capacity
  <1>0. TypeOK /\ Side(t) \in {"write", "read"} /\ Len(chunk[t]) \in Nat
    BY Sides DEF WakeInv, TypeOK
  <1>1. buffer' \in [0..(Capacity - 1) -> Byte]
    BY <1>0, BufferTypes, ZenonT(40) DEF Frame, TypeOK
  <1>2. index' \in [{"write", "read"} -> 0..(Word - 1)]
    <2>1. CASE Index(t)
      <3>1. index[Side(t)] \in 0..(Word - 1)
        BY <1>0 DEF TypeOK
      <3>0. Word \in Nat /\ Word > 0
        BY Indices
      <3>2. (index[Side(t)] + Len(chunk[t])) % Word \in 0..(Word - 1)
        BY <1>0, <3>0, <3>1
      <3>3. QED
        BY <1>0, <2>1, <3>2 DEF Index, TypeOK
    <2>2. QED
      BY <1>0, <2>1 DEF Frame, TypeOK
  <1>3. cbpending' \in 0..Capacity
    <2>1. CASE Count(t)
      <3>1. Len(chunk[t]) <= Avail(t)
        BY <2>1, ZenonT(40) DEF WakeInv, Fits, Count, Goto
      <3>2. QED
        <4>1. cbpending \in 0..Capacity /\ Capacity \in Nat
          BY <1>0, Indices DEF TypeOK
        <4>2. CASE t \in Writer
          BY <1>0, <2>1, <3>1, <4>1, <4>2 DEF Count, Avail
        <4>3. CASE t \notin Writer
          BY <1>0, <2>1, <3>1, <4>1, <4>3 DEF Count, Avail
        <4>4. QED
          BY <4>2, <4>3
    <2>2. QED
      BY <1>0, <2>1, ZenonT(40) DEF Frame, TypeOK
  <1>4. QED
    BY <1>1, <1>2, <1>3

LEMMA LocalTypes ==
    ASSUME TypeOK, NEW t \in Thread, Frame(t)
    PROVE  /\ flags' \in [Thread -> {{}} \cup ReadFlags \cup WriteFlags]
           /\ remaining' \in [Thread -> Nat]
           /\ moved' \subseteq Thread
           /\ chunk' \in [Thread -> Seq(Byte)]
  <1>1. CASE Copy(t)
    <2>1. PICK n \in Nat, s \in Seq(Byte) :
              /\ n = Amount(t)
              /\ chunk' = [chunk EXCEPT ![t] = s]
              /\ remaining' = [remaining EXCEPT ![t] = @ - n]
              /\ moved' = IF n > 0 THEN moved \cup {t} ELSE moved
              /\ flags' = flags
      BY <1>1, Copies
    <2>2. remaining[t] - n \in Nat
      BY <2>1, Amounts DEF TypeOK
    <2>3. QED
      BY <2>1, <2>2 DEF TypeOK
  <1>2. CASE ReadWrite(t)
    <2>1. PICK n \in Nat, f \in ReadFlags \cup WriteFlags :
              /\ remaining' = [remaining EXCEPT ![t] = n]
              /\ flags' = [flags EXCEPT ![t] = f]
              /\ UNCHANGED <<moved, chunk>>
      BY <1>2, Lengths, ZenonT(40) DEF ReadWrite
    <2>2. QED
      BY <2>1 DEF TypeOK
  <1>0. CASE Return(t)
    BY <1>0 DEF Return, TypeOK
  <1>3. CASE Index(t)
    <2>1. << >> \in Seq(Byte)
      OBVIOUS
    <2>2. QED
      BY <1>3, <2>1 DEF Index, TypeOK
  <1>4. CASE chunk' = chunk /\ UNCHANGED <<flags, remaining, moved>>
    BY <1>4 DEF TypeOK
  <1>5. QED
    BY <1>0, <1>1, <1>2, <1>3, <1>4 DEF Frame

LEMMA TypesKept ==
    ASSUME WakeInv, NEW t \in Thread, UNCHANGED named, Route(t), Frame(t)
    PROVE  TypeOK'
  <1>0. TypeOK /\ Side(t) \in {"write", "read"}
    BY Sides, ZenonT(40) DEF WakeInv
  <1>1. lock' \in [{"write", "read"} -> Thread \cup {NULL}]
    <2>1. CASE Enter(t) \/ Eof(t) \/ Index(t) \/ Relock(t)
      BY <1>0, <2>1, ZenonT(40) DEF TypeOK, Enter, Eof, Index, Relock, Acquire, Release
    <2>2. CASE TermRead(t) \/ TermWrite(t) \/ TermDone(t)
      BY <1>0, <2>2, ZenonT(40) DEF TypeOK, TermRead, TermWrite, TermDone
    <2>3. QED
      BY <1>0, <2>1, <2>2, ZenonT(40) DEF Frame, TypeOK
  <1>2. term' \in BOOLEAN /\ eof' \in BOOLEAN
    <2>1. TermWrite(t) => term' \in BOOLEAN
      BY DEF TermWrite
    <2>2. Eof(t) \/ OpenEof(t) \/ CloseEof(t) => eof' \in BOOLEAN
      BY ZenonT(40) DEF Eof, OpenEof, CloseEof
    <2>3. QED
      BY <1>0, <2>1, <2>2 DEF Frame, TypeOK
  <1>3. open' \subseteq Thread
    <2>1. Open(t) \/ Close(t) => open' \in {open \cup {t}, open \ {t}}
      BY DEF Open, Close
    <2>2. QED
      BY <1>0, <2>1 DEF Frame, TypeOK
  <1>4. pc' \in [Thread -> PC]
    <2>1. pc[t] \in PC
      BY <1>0 DEF TypeOK
    <2>2. pc'[t] \in PC
      BY <2>1, ZenonT(40) DEF Route, PC
    <2>3. QED
      BY <1>0, <2>2, ZenonT(40) DEF Frame, TypeOK
  <1>5. QED
    BY <1>0, <1>1, <1>2, <1>3, <1>4, BlockTypes, BytesTypes, LocalTypes, ZenonT(40) DEF TypeOK

-----------------------------------------------------------------------------
(***************************************************************************)
(* The locks, and the bytes on their way.                                  *)
(***************************************************************************)

\* Nobody takes or releases a lock that somebody else holds.
LEMMA LocksMine ==
    ASSUME WakeInv, NEW t \in Thread, NEW side \in {"write", "read"}, Frame(t)
    PROVE  lock[side] \in {NULL, t} \/ lock'[side] = lock[side]
  <1>0. /\ lock \in [{"write", "read"} -> Thread \cup {NULL}]
        /\ Side(t) \in {"write", "read"}
        /\ pc[t] \in {"eof", "index"} => lock[Side(t)] = t
        /\ pc[t] = "term_done" => lock["read"] = t /\ lock["write"] = t
    BY Sides DEF WakeInv, TypeOK, Locked, Copying, Terminating
  <1>1. CASE Enter(t) \/ Relock(t)
    <2>1. lock[Side(t)] = NULL /\ (lock' = lock \/ lock' = [lock EXCEPT ![Side(t)] = t])
      BY <1>1 DEF Enter, Relock, Free, Acquire
    <2>2. QED
      BY <1>0, <2>1
  <1>2. CASE Eof(t) \/ Index(t)
    <2>1. lock[Side(t)] = t /\ (lock' = lock \/ lock' = [lock EXCEPT ![Side(t)] = NULL])
      BY <1>0, <1>2 DEF Eof, Index, Goto, Release
    <2>2. QED
      BY <1>0, <2>1, ZenonT(40)
  <1>3. CASE TermRead(t) \/ TermWrite(t) \/ TermDone(t)
    BY <1>0, <1>3 DEF TermRead, TermWrite, TermDone, Goto
  <1>4. QED
    BY <1>1, <1>2, <1>3, ZenonT(40) DEF Frame

\* What t holds after its own step.
LEMMA LockedSelf ==
    ASSUME WakeInv, NEW t \in Thread, Route(t), Frame(t)
    PROVE  /\ pc'[t] \in Copying => lock'[Side(t)] = t
           /\ pc'[t] \in Terminating \cup {"term_write"} => lock'["read"] = t
           /\ pc'[t] \in Terminating => lock'["write"] = t
  <1>0. /\ lock \in [{"write", "read"} -> Thread \cup {NULL}]
        /\ Side(t) \in {"write", "read"}
        /\ pc[t] \in Copying => lock[Side(t)] = t
        /\ pc[t] \in Terminating \cup {"term_write"} => lock["read"] = t
        /\ pc[t] \in Terminating => lock["write"] = t
    BY Sides, ZenonT(40) DEF WakeInv, TypeOK, Locked
  <1>1. CASE Enter(t) \/ Relock(t)
    <2>1. pc'[t] \in {"zero", "last", "return"} \/ (pc'[t] = "copy" /\ Acquire(t))
      BY <1>1, ZenonT(40) DEF Enter, Relock, Goto, WakeInv, TypeOK
    <2>2. QED
      BY <1>0, <2>1, ZenonT(40) DEF Acquire, Copying, Terminating
  <1>2. CASE Eof(t)
    <2>1. pc[t] = "eof" /\ (pc'[t] = "zero_eof" \/ (pc'[t] = "startblock" /\ lock' = lock))
      BY <1>2 DEF Eof, Goto, WakeInv, TypeOK
    <2>2. QED
      BY <1>0, <2>1 DEF Copying, Terminating
  <1>3. CASE TermRead(t) \/ TermWrite(t)
    BY <1>0, <1>3 DEF TermRead, TermWrite, Goto, Copying, Terminating, WakeInv, TypeOK
  <1>4. CASE Index(t) \/ TermDone(t)
    <2>1. pc'[t] \in {"return", "wake", "user"}
      BY <1>4, ZenonT(40) DEF Index, TermDone, Goto, WakeInv, TypeOK
    <2>2. QED
      BY <2>1 DEF Copying, Terminating
  <1>5. CASE ~(Enter(t) \/ Relock(t) \/ Eof(t) \/ TermRead(t) \/ TermWrite(t) \/ Index(t) \/ TermDone(t))
    <2>1. lock' = lock
      BY <1>5 DEF Frame
    <2>2. /\ pc'[t] \in Copying => pc[t] \in Copying
          /\ pc'[t] \in Terminating \cup {"term_write"} => pc[t] \in Terminating \cup {"term_write"}
          /\ pc'[t] \in Terminating => pc[t] \in Terminating
      BY <1>5, ZenonT(40) DEF Route, Copying, Terminating
    <2>3. QED
      BY <1>0, <2>1, <2>2, ZenonT(40)
  <1>6. QED
    BY <1>1, <1>2, <1>3, <1>4, <1>5, ZenonT(40)

LEMMA LockedKept ==
    ASSUME WakeInv, NEW t \in Thread, Route(t), Frame(t)
    PROVE  Locked'
  <1>1. ASSUME NEW u \in Thread \ {t}
        PROVE  /\ pc'[u] \in Copying => lock'[Side(u)] = u
               /\ pc'[u] \in Terminating \cup {"term_write"} => lock'["read"] = u
               /\ pc'[u] \in Terminating => lock'["write"] = u
    <2>1. pc'[u] = pc[u] /\ u # NULL
      BY OthersSame, NoHolder, ZenonT(40) DEF Same, WakeInv
    <2>2. /\ Side(u) \in {"write", "read"}
          /\ pc[u] \in Copying => lock[Side(u)] = u
          /\ pc[u] \in Terminating \cup {"term_write"} => lock["read"] = u
          /\ pc[u] \in Terminating => lock["write"] = u
      BY Sides, ZenonT(40) DEF WakeInv, Locked
    <2>3. \A side \in {"write", "read"} : lock[side] = u => lock'[side] = u
      BY <2>1, LocksMine, ZenonT(40)
    <2>4. QED
      BY <2>1, <2>2, <2>3, ZenonT(40)
  <1>2. QED
    BY <1>1, LockedSelf DEF Locked, Side

\* Count gives the other side more to do, and its own side less.
LEMMA CountGives ==
    ASSUME WakeInv, NEW t \in Thread, Count(t), NEW u \in Thread
    PROVE  /\ Len(chunk[t]) \in Nat /\ Len(chunk[t]) <= Avail(t) /\ Avail(u) \in Nat
           /\ (u \in Writer <=> t \in Writer) => Avail(u)' = Avail(u) - Len(chunk[t])
           /\ ~(u \in Writer <=> t \in Writer) => Avail(u)' = Avail(u) + Len(chunk[t])
  <1>1. Len(chunk[t]) \in Nat /\ Len(chunk[t]) <= Avail(t)
    BY DEF WakeInv, TypeOK, Fits, Count, Goto
  <1>2. cbpending \in 0..Capacity /\ Capacity \in Nat
    BY Indices DEF WakeInv, TypeOK
  <1>3. cbpending' = IF t \in Writer THEN cbpending + Len(chunk[t]) ELSE cbpending - Len(chunk[t])
    BY DEF Count
  <1>4. CASE t \in Writer /\ u \in Writer
    BY <1>1, <1>2, <1>3, <1>4 DEF Avail
  <1>5. CASE t \in Writer /\ u \notin Writer
    BY <1>1, <1>2, <1>3, <1>5 DEF Avail
  <1>6. CASE t \notin Writer /\ u \in Writer
    BY <1>1, <1>2, <1>3, <1>6 DEF Avail
  <1>7. CASE t \notin Writer /\ u \notin Writer
    BY <1>1, <1>2, <1>3, <1>7 DEF Avail
  <1>8. QED
    BY <1>4, <1>5, <1>6, <1>7, ZenonT(40)

LEMMA FitsOther ==
    ASSUME WakeInv, NEW t \in Thread, NEW u \in Thread \ {t}, Frame(t)
    PROVE  /\ pc'[u] = "eof" => u \in Reader
           /\ pc'[u] \in {"eof", "startblock", "count"} => Len(chunk'[u]) <= Avail(u)'
           /\ pc'[u] \in {"eof", "startblock"} => More(u)' /\ "NONBLOCK" \notin flags'[u]
           /\ pc'[u] = "wake" /\ More(u)' => "NONBLOCK" \notin flags'[u]
           /\ pc'[u] \in {"eof", "startblock", "count", "index"} /\ Len(chunk'[u]) > 0 => u \in moved'
  <1>1. Same(u)
    BY OthersSame, ZenonT(40) DEF WakeInv
  <1>2. /\ pc[u] = "eof" => u \in Reader
        /\ pc[u] \in {"eof", "startblock", "count"} => Len(chunk[u]) <= Avail(u)
        /\ pc[u] \in {"eof", "startblock"} => More(u) /\ "NONBLOCK" \notin flags[u]
        /\ pc[u] = "wake" /\ More(u) => "NONBLOCK" \notin flags[u]
        /\ pc[u] \in {"eof", "startblock", "count", "index"} /\ Len(chunk[u]) > 0 => u \in moved
        /\ Len(chunk[u]) \in Nat
    BY DEF WakeInv, Fits, TypeOK
  <1>3. ASSUME pc[u] \in {"eof", "startblock", "count"}
        PROVE  Len(chunk[u]) <= Avail(u)'
    <2>1. CASE Count(t)
      <3>1. lock[Side(t)] = t /\ lock[Side(u)] = u
        BY <1>3, <2>1 DEF WakeInv, Locked, Count, Goto, Copying
      <3>2. ~(u \in Writer <=> t \in Writer)
        BY <3>1, Sides
      <3>3. Avail(u)' = Avail(u) + Len(chunk[t]) /\ Len(chunk[t]) \in Nat /\ Avail(u) \in Nat
        BY <2>1, <3>2, CountGives, ZenonT(40)
      <3>4. QED
        BY <1>2, <1>3, <3>3
    <2>2. CASE ~Count(t)
      <3>1. Avail(u)' = Avail(u)
        BY <2>2 DEF Frame, Avail
      <3>2. QED
        BY <1>2, <1>3, <3>1, ZenonT(40)
    <2>3. QED
      BY <2>1, <2>2, ZenonT(40)
  <1>4. QED
    BY <1>1, <1>2, <1>3 DEF Same

LEMMA FitsSelf ==
    ASSUME WakeInv, NEW t \in Thread, Route(t), Frame(t)
    PROVE  /\ pc'[t] = "eof" => t \in Reader
           /\ pc'[t] \in {"eof", "startblock", "count"} => Len(chunk'[t]) <= Avail(t)'
           /\ pc'[t] \in {"eof", "startblock"} => More(t)' /\ "NONBLOCK" \notin flags'[t]
           /\ pc'[t] = "wake" /\ More(t)' => "NONBLOCK" \notin flags'[t]
           /\ pc'[t] \in {"eof", "startblock", "count", "index"} /\ Len(chunk'[t]) > 0 => t \in moved'
  <1>0. /\ pc[t] = "eof" => t \in Reader
        /\ pc[t] \in {"eof", "startblock", "count"} => Len(chunk[t]) <= Avail(t)
        /\ pc[t] \in {"eof", "startblock"} => More(t) /\ "NONBLOCK" \notin flags[t]
        /\ pc[t] = "wake" /\ More(t) => "NONBLOCK" \notin flags[t]
        /\ pc[t] \in {"eof", "startblock", "count", "index"} /\ Len(chunk[t]) > 0 => t \in moved
        /\ pc \in [Thread -> PC]
    BY ZenonT(40) DEF WakeInv, Fits, TypeOK
  <1>1. CASE Copy(t)
    <2>1. PICK n \in Nat, s \in Seq(Byte) :
              /\ n = Amount(t) /\ Len(s) = n
              /\ chunk' = [chunk EXCEPT ![t] = s]
              /\ moved' = IF n > 0 THEN moved \cup {t} ELSE moved
      BY <1>1, Copies, ZenonT(40) DEF WakeInv
    <2>2. Len(chunk'[t]) = n /\ n <= Avail(t) /\ (n > 0 => t \in moved')
      BY <2>1, Amounts DEF WakeInv, TypeOK
    <2>3. /\ pc'[t] = "eof" => t \in Reader
          /\ pc'[t] \in {"eof", "startblock"} => More(t)' /\ "NONBLOCK" \notin flags'[t]
          /\ pc'[t] # "wake"
          /\ cbpending' = cbpending
      BY <1>0, <1>1, ZenonT(40) DEF Copy, Goto
    <2>4. Avail(t)' = Avail(t)
      BY <2>3, ZenonT(40) DEF Avail
    <2>5. QED
      BY <2>2, <2>3, <2>4
  <1>2. CASE Count(t)
    BY <1>0, <1>2, ZenonT(40) DEF Count, Goto, locals
  <1>3. CASE Index(t)
    BY <1>0, <1>3, ZenonT(40) DEF Index, Goto, More
  <1>4. CASE ReadWrite(t) \/ Return(t)
    BY <1>0, <1>4 DEF ReadWrite, Return, Goto
  <1>5. CASE ~(Copy(t) \/ Count(t) \/ Index(t) \/ ReadWrite(t) \/ Return(t))
    <2>1. UNCHANGED <<cbpending, flags, remaining, moved, chunk>>
      BY <1>5, ZenonT(40) DEF Frame
    <2>2. (More(t)' <=> More(t)) /\ Avail(t)' = Avail(t)
      BY <2>1 DEF More, Avail
    <2>3. \/ pc'[t] = pc[t]
          \/ pc'[t] = "startblock" /\ pc[t] = "eof"
          \/ pc'[t] = "count" /\ pc[t] = "startblock"
          \/ pc'[t] \notin {"eof", "startblock", "count", "index", "wake"}
      BY <1>5, ZenonT(40) DEF Route
    <2>4. QED
      BY <1>0, <2>1, <2>2, <2>3, ZenonT(40)
  <1>6. QED
    BY <1>1, <1>2, <1>3, <1>4, <1>5, ZenonT(40)

LEMMA FitsKept ==
    ASSUME WakeInv, NEW t \in Thread, Route(t), Frame(t)
    PROVE  Fits'
  BY FitsOther, FitsSelf, ZenonT(40) DEF Fits, Avail, More

-----------------------------------------------------------------------------
(***************************************************************************)
(* The wait lists and the run queue.                                       *)
(***************************************************************************)

\* A thread begins to block in StartBlock and ends in Cleanup.
LEMMA BlockingSelf ==
    ASSUME WakeInv, NEW t \in Thread, Route(t), Frame(t)
    PROVE  /\ StartBlock(t) => Blocking(t)' /\ ~Blocking(t)
           /\ Cleanup(t) => Blocking(t) /\ ~Blocking(t)'
           /\ ~StartBlock(t) /\ ~Cleanup(t) => (Blocking(t)' <=> Blocking(t))
  <1>0. /\ pc \in [Thread -> PC]
        /\ pc[t] = "startblock" => More(t) /\ "NONBLOCK" \notin flags[t]
        /\ pc[t] = "wake" /\ More(t) => "NONBLOCK" \notin flags[t]
    BY DEF WakeInv, TypeOK, Fits
  <1>1. CASE Copy(t)
    <2>1. /\ pc[t] = "copy" /\ pc'[t] \in {"count", "eof", "startblock"}
          /\ pc'[t] = "count" => ~More(t)' \/ "NONBLOCK" \in flags'[t]
      BY <1>0, <1>1, ZenonT(40) DEF Copy, Goto
    <2>2. QED
      BY <2>1, ZenonT(40) DEF Blocking, StartBlock, Cleanup, Goto
  <1>2. CASE ReadWrite(t) \/ Return(t)
    BY <1>0, <1>2 DEF ReadWrite, Return, Goto, Blocking, StartBlock, Cleanup
  <1>3. CASE ~(Copy(t) \/ ReadWrite(t) \/ Return(t))
    <2>1. UNCHANGED <<flags, remaining, moved>>
      BY <1>3 DEF Frame
    <2>2. More(t)' <=> More(t)
      BY <2>1 DEF More
    <2>3. CASE Index(t) \/ WakePeers(t)
      BY <1>0, <2>1, <2>2, <2>3, ZenonT(40) DEF Index, WakePeers, Goto, Blocking, StartBlock, Cleanup
    <2>4. CASE StartBlock(t) \/ Cleanup(t)
      BY <1>0, <2>1, <2>2, <2>4, ZenonT(40) DEF StartBlock, Cleanup, Goto, Blocking
    <2>5. CASE ~(Index(t) \/ WakePeers(t) \/ StartBlock(t) \/ Cleanup(t))
      <3> DEFINE early == {"count", "index", "wake"}
                 late == {"test", "test_term", "schedule", "cleanup"}
      <3>1. (pc'[t] \in early <=> pc[t] \in early) /\ (pc'[t] \in late <=> pc[t] \in late)
        BY <1>3, <2>5, ZenonT(40) DEF Route
      <3>2. QED
        BY <2>1, <2>2, <2>5, <3>1, ZenonT(40) DEF Blocking
    <2>6. QED
      BY <2>3, <2>4, <2>5, ZenonT(40)
  <1>4. QED
    BY <1>1, <1>2, <1>3, ZenonT(40)

LEMMA ListedKept ==
    ASSUME WakeInv, NEW t \in Thread, Route(t), Frame(t)
    PROVE  Listed'
  <1>0. /\ BlockTypeOK /\ Own(t) \in BlockList
        /\ \A bl \in BlockList : NoDuplicates(waitlist[bl])
        /\ \A bl \in BlockList : Members(waitlist[bl]) = {u \in Thread : Own(u) = bl /\ Blocking(u)}
    BY Sides DEF WakeInv, TypeOK, Listed
  <1>1. \A u \in Thread \ {t} : Blocking(u)' <=> Blocking(u)
    BY OthersSame, ZenonT(40) DEF WakeInv, Same
  <1>2. SUFFICES ASSUME NEW bl \in BlockList
                 PROVE  /\ NoDuplicates(waitlist'[bl])
                        /\ Members(waitlist'[bl]) = {u \in Thread : Own(u) = bl /\ Blocking(u)'}
    BY ZenonT(40) DEF Listed, Own, Members, NoDuplicates
  <1>3. CASE StartBlock(t)
    <2>1. Blocking(t)' /\ ~Blocking(t)
      BY <1>3, BlockingSelf
    <2>2. NoDuplicates(waitlist[Own(t)]) /\ t \notin Members(waitlist[Own(t)])
      BY <2>1, ListedWhenBlocking
    <2>3. /\ NoDuplicates(waitlist'[Own(t)])
          /\ Members(waitlist'[Own(t)]) = Members(waitlist[Own(t)]) \cup {t}
          /\ \A b \in BlockList \ {Own(t)} : waitlist'[b] = waitlist[b]
      BY <1>0, <1>3, <2>2, StartBlockLists, ZenonT(40) DEF StartBlock
    <2>4. CASE bl = Own(t)
      <3>1. Members(waitlist[bl]) = {u \in Thread : Own(u) = bl /\ Blocking(u)}
        BY <1>0
      <3>2. Members(waitlist[bl]) \cup {t} = {u \in Thread : Own(u) = bl /\ Blocking(u)'}
        BY <1>1, <2>1, <2>4, <3>1, ZenonT(40)
      <3>3. /\ NoDuplicates(waitlist'[bl])
            /\ Members(waitlist'[bl]) = Members(waitlist[bl]) \cup {t}
        BY <2>3, <2>4
      <3>4. QED
        BY <3>2, <3>3
    <2>5. CASE bl # Own(t)
      <3>1. /\ NoDuplicates(waitlist[bl]) /\ waitlist'[bl] = waitlist[bl]
            /\ Members(waitlist[bl]) = {u \in Thread : Own(u) = bl /\ Blocking(u)}
        BY <1>0, <2>3, <2>5
      <3>2. \A u \in Thread : Own(u) = bl /\ Blocking(u)' <=> Own(u) = bl /\ Blocking(u)
        BY <1>1, <2>5, ZenonT(40)
      <3>3. QED
        BY <3>1, <3>2, ZenonT(40) DEF Members, NoDuplicates
    <2>6. QED
      BY <2>4, <2>5, ZenonT(40)
  <1>4. CASE Cleanup(t)
    <2>1. Blocking(t) /\ ~Blocking(t)'
      BY <1>4, BlockingSelf
    <2>2. NoDuplicates(waitlist[Own(t)]) /\ t \in Members(waitlist[Own(t)])
      BY <2>1, ListedWhenBlocking
    <2>3. /\ NoDuplicates(waitlist'[Own(t)])
          /\ Members(waitlist'[Own(t)]) = Members(waitlist[Own(t)]) \ {t}
          /\ \A b \in BlockList \ {Own(t)} : waitlist'[b] = waitlist[b]
      BY <1>0, <1>4, <2>2, CleanupLists, ZenonT(40) DEF Cleanup
    <2>4. QED
      BY <1>0, <1>1, <2>1, <2>3, ZenonT(40)
  <1>5. CASE ~StartBlock(t) /\ ~Cleanup(t)
    <2>1. waitlist' = waitlist /\ \A u \in Thread : Blocking(u)' <=> Blocking(u)
      BY <1>1, <1>5, BlockingSelf DEF Frame
    <2>2. QED
      BY <1>0, <2>1, ZenonT(40)
  <1>6. QED
    BY <1>3, <1>4, <1>5, ZenonT(40)

\* Only its own schedule() and timer ticks take a thread from the run queue,
\* and whoever is unblocked is put on it.
LEMMA QueueKeeps ==
    ASSUME WakeInv, NEW t \in Thread, NEW u \in Thread, Frame(t)
    PROVE  /\ u \in onqueue => u \in onqueue' \/ (u = t /\ (Scheduled(t) \/ Preempted(t)))
           /\ u \in pending => u \in pending' \/ (u = t /\ (Scheduled(t) \/ Preempted(t)))
           /\ u \in unblocked' => u \in unblocked \/ u \in onqueue'
  <1>1. CASE UNCHANGED blockVars
    BY <1>1 DEF blockVars
  <1>2. CASE Wakes(t)
    BY <1>2, WakesLists, ZenonT(40)
  <1>3. CASE StartBlock(t) \/ Cleanup(t) \/ Result(t) \/ Return(t)
    BY <1>3, ZenonT(40) DEF StartBlock, Cleanup, Result, Return, blockpoint_startblock, blockpoint_cleanup
  <1>4. CASE Scheduled(t)
    BY <1>4, ZenonT(40) DEF Scheduled, schedule, check_signals
  <1>5. CASE Preempted(t)
    BY <1>5 DEF Preempted, preempt, check_signals
  <1>6. CASE Signal(t)
    BY <1>6, ZenonT(40) DEF Signal, thread_send_signal, thread_unblock, processor_add_thread
  <1>7. QED
    BY <1>1, <1>2, <1>3, <1>4, <1>5, <1>6 DEF Frame

\* A thread that still blocks, and is not at its end, has not run schedule().
LEMMA StillBlocking ==
    ASSUME WakeInv, NEW t \in Thread, Blocking(t)', pc'[t] # "cleanup", ~StartBlock(t), Route(t), Frame(t)
    PROVE  Blocking(t) /\ pc[t] # "cleanup" /\ ~Scheduled(t) /\ ~Preempted(t)
  <1>1. Blocking(t) /\ ~Cleanup(t)
    BY BlockingSelf
  <1>2. pc[t] # "cleanup"
    BY <1>1, ZenonT(40) DEF Route
  <1>3. ~Scheduled(t)
    BY ZenonT(40) DEF Scheduled, Goto, WakeInv, TypeOK
  <1>4. ~Preempted(t)
    BY <1>1, ZenonT(40) DEF Preempted, Blocking
  <1>5. QED
    BY <1>1, <1>2, <1>3, <1>4

LEMMA QueuedKept ==
    ASSUME WakeInv, NEW t \in Thread, Route(t), Frame(t)
    PROVE  Queued'
  <1>1. SUFFICES ASSUME NEW u \in Thread, u \in unblocked', Blocking(u)', pc'[u] # "cleanup"
                 PROVE  u \in onqueue'
    BY DEF Queued
  <1>2. u \in unblocked /\ Blocking(u) /\ pc[u] # "cleanup" => u \in onqueue
    BY ZenonT(40) DEF WakeInv, Queued
  <1>3. CASE u # t
    <2>1. pc'[u] = pc[u] /\ Blocking(u)
      BY <1>1, <1>3, OthersSame DEF WakeInv, Same
    <2>2. QED
      BY <1>1, <1>2, <1>3, <2>1, QueueKeeps, ZenonT(40)
  <1>4. CASE u = t /\ StartBlock(t)
    BY <1>1, <1>4 DEF StartBlock, blockpoint_startblock
  <1>5. CASE u = t /\ ~StartBlock(t)
    <2>1. Blocking(t) /\ pc[t] # "cleanup" /\ ~Scheduled(t) /\ ~Preempted(t)
      BY <1>1, <1>5, StillBlocking, ZenonT(40)
    <2>2. QED
      BY <1>1, <1>2, <1>5, <2>1, QueueKeeps, ZenonT(40)
  <1>6. QED
    BY <1>3, <1>4, <1>5

-----------------------------------------------------------------------------
(***************************************************************************)
(* Nobody sleeps on a buffer that gives it work.                           *)
(***************************************************************************)

\* blocklist_unblock_all makes everybody runnable that blocks on the list.
LEMMA WokenUp ==
    ASSUME WakeInv, NEW u \in Thread, Blocking(u), pc[u] # "cleanup", blocklist_unblock_all(Own(u))
    PROVE  u \in onqueue'
  <1>1. BlockTypeOK /\ Own(u) \in BlockList
    BY Sides DEF WakeInv, TypeOK
  <1>2. onqueue' = onqueue \cup (Members(waitlist[Own(u)]) \ unblocked)
    BY <1>1, UnblockAllLists
  <1>3. u \in Members(waitlist[Own(u)])
    BY ListedWhenBlocking
  <1>4. u \in unblocked => u \in onqueue
    BY DEF WakeInv, Queued
  <1>5. QED
    BY <1>2, <1>3, <1>4, ZenonT(40)

\* A wake-up that is on its way stays so until it arrives.
LEMMA PeerStays ==
    ASSUME WakeInv, NEW t \in Thread, NEW u \in Thread, PeerComing(u), u = t => pc[u] \notin {"index", "wake"},
           pc[u] \in {"test_term", "schedule"}, ~Runnable(u)', Route(t), Frame(t)
    PROVE  PeerComing(u)'
  <1>1. PICK w \in Thread : /\ Peers(w) = Own(u)
                            /\ \/ pc[w] = "wake"
                               \/ pc[w] = "index" /\ ~(More(w) /\ "NONBLOCK" \in flags[w])
    BY DEF PeerComing
  <1>2. CASE w # t
    <2>1. Same(w)
      BY <1>2, OthersSame, ZenonT(40) DEF WakeInv
    <2>2. QED
      BY <1>1, <2>1, ZenonT(40) DEF PeerComing, Same, Peers, Own
  <1>3. CASE w = t /\ Signal(t)
    <2>1. UNCHANGED <<pc, flags, remaining, moved>>
      BY <1>3, ZenonT(40) DEF Signal, locals
    <2>2. More(w)' <=> More(w)
      BY <2>1 DEF More
    <2>3. QED
      BY <1>1, <2>1, <2>2 DEF PeerComing, Peers, Own
  <1>4. CASE w = t /\ WakePeers(t)
    <2>1. blocklist_unblock_all(Own(u))
      BY <1>1, <1>4, ZenonT(40) DEF WakePeers
    <2>2. Blocking(u) /\ pc[u] # "cleanup"
      BY DEF Blocking
    <2>3. QED
      BY <2>1, <2>2, WokenUp DEF Runnable
  <1>5. CASE w = t /\ Index(t)
    <2>1. ~(More(t) /\ "NONBLOCK" \in flags[t])
      BY <1>1, <1>5, ZenonT(40) DEF Index, Goto
    <2>2. pc'[t] = "wake"
      BY <1>5, <2>1 DEF Index, Goto, WakeInv, TypeOK
    <2>3. QED
      BY <1>1, <1>5, <2>2, ZenonT(40) DEF PeerComing, Peers, Own
  <1>6. w = t => Signal(t) \/ WakePeers(t) \/ Index(t)
    BY <1>1, ZenonT(40) DEF Route
  <1>7. QED
    BY <1>2, <1>3, <1>4, <1>5, <1>6, ZenonT(40)

\* Who adds to the work of the other side wakes it: it does not return from
\* the middle of the loop, since it has moved something.
LEMMA CountWakes ==
    ASSUME WakeInv, NEW t \in Thread, Count(t), Len(chunk[t]) > 0, NEW u, Peers(t) = Own(u)
    PROVE  PeerComing(u)'
  <1>1. t \in moved
    BY ZenonT(40) DEF WakeInv, Fits, Count, Goto
  <1>2. "NONBLOCK" \in flags[t] => "ANY" \in flags[t]
    BY FlagSets, ZenonT(40) DEF WakeInv, TypeOK
  <1>3. ~(More(t) /\ "NONBLOCK" \in flags[t])
    BY <1>1, <1>2, ZenonT(40) DEF More
  <1>4. pc'[t] = "index" /\ UNCHANGED <<flags, remaining, moved>>
    BY ZenonT(40) DEF Count, Goto, WakeInv, TypeOK, locals
  <1>5. ~(More(t)' /\ "NONBLOCK" \in flags'[t])
    BY <1>3, <1>4 DEF More
  <1>6. QED
    BY <1>4, <1>5 DEF PeerComing, Peers, Own

LEMMA PeersWakeKept ==
    ASSUME WakeInv, NEW t \in Thread, Route(t), Frame(t)
    PROVE  PeersWake'
  <1>1. SUFFICES ASSUME NEW u \in Thread, pc'[u] \in {"test_term", "schedule"}, ~Runnable(u)', Avail(u)' > 0
                 PROVE  PeerComing(u)'
    BY ZenonT(40) DEF PeersWake
  <1>0. /\ pc \in [Thread -> PC] /\ Avail(u) \in Nat
        /\ pc[u] \in {"test_term", "schedule"} /\ ~Runnable(u) /\ Avail(u) > 0 => PeerComing(u)
    BY Amounts DEF WakeInv, TypeOK, PeersWake
  <1>2. CASE u # t
    <2>1. pc[u] \in {"test_term", "schedule"} /\ ~Runnable(u)
      BY <1>1, <1>2, OthersSame, QueueKeeps, ZenonT(40) DEF WakeInv, Same, Runnable
    <2>2. CASE Avail(u) > 0
      BY <1>0, <1>1, <1>2, <2>1, <2>2, PeerStays
    <2>3. CASE ~(Avail(u) > 0)
      <3>1. Count(t) /\ Avail(u) = 0
        BY <1>0, <1>1, <2>3 DEF Avail, Frame
      <3>2. Len(chunk[t]) \in Nat
        BY <3>1, CountGives
      <3>3. Len(chunk[t]) > 0 /\ ~(u \in Writer <=> t \in Writer)
        <4>1. \/ Avail(u)' = Avail(u) - Len(chunk[t]) /\ (u \in Writer <=> t \in Writer)
              \/ Avail(u)' = Avail(u) + Len(chunk[t]) /\ ~(u \in Writer <=> t \in Writer)
          BY <3>1, CountGives
        <4>2. QED
          BY <1>1, <3>1, <3>2, <4>1
      <3>4. Peers(t) = Own(u)
        BY <3>3 DEF Peers, Own
      <3>5. QED
        BY <3>1, <3>3, <3>4, CountWakes, ZenonT(40)
    <2>4. QED
      BY <2>2, <2>3
  <1>3. CASE u = t
    <2>1. ~Signal(t) /\ ~Preempted(t) /\ pc'[t] \in {"test_term", "schedule"}
      BY <1>1, <1>3, ZenonT(40) DEF Signal, thread_send_signal, Runnable, Preempted
    <2>2. /\ (Test(t) /\ pc[t] = "test") \/ (TestTerm(t) /\ pc[t] = "test_term")
          /\ UNCHANGED <<cbpending, onqueue, pending>>
      <3>1. (Test(t) /\ pc[t] = "test") \/ (TestTerm(t) /\ pc[t] = "test_term")
        BY <2>1, ZenonT(40) DEF Route
      <3>2. QED
        BY <3>1 DEF Test, TestTerm, bufVars, blockVars
    <2>3. ~Test(t)
      BY <1>0, <1>1, <1>3, <2>2 DEF Test, Goto, Avail
    <2>4. pc[t] = "test_term" /\ PeerComing(t)
      BY <1>0, <1>1, <1>3, <2>2, <2>3, ZenonT(40) DEF Runnable, Avail
    <2>5. PICK w \in Thread : /\ Peers(w) = Own(t)
                              /\ \/ pc[w] = "wake"
                                 \/ pc[w] = "index" /\ ~(More(w) /\ "NONBLOCK" \in flags[w])
      BY <2>4, ZenonT(40) DEF PeerComing
    <2>6. Same(w)
      BY <2>4, <2>5, OthersSame, ZenonT(40) DEF WakeInv
    <2>7. QED
      BY <1>3, <2>5, <2>6, ZenonT(40) DEF PeerComing, Same, Peers, Own
  <1>4. QED
    BY <1>2, <1>3

-----------------------------------------------------------------------------
(***************************************************************************)
(* Nobody sleeps on a buffer that is terminated.                           *)
(***************************************************************************)

\* Nobody begins to copy on a terminated buffer.
LEMMA BeginsToCopy ==
    ASSUME WakeInv, NEW t \in Thread, pc'[t] \in Copying, Route(t)
    PROVE  pc[t] \in Copying \/ ~Terminated(t)
  <1>1. CASE Enter(t) \/ Relock(t)
    BY <1>1 DEF Enter, Relock, Goto, Copying, WakeInv, TypeOK
  <1>2. CASE ~(Enter(t) \/ Relock(t))
    BY <1>2, ZenonT(40) DEF Route, Copying
  <1>3. QED
    BY <1>1, <1>2, ZenonT(40)

LEMMA NoWriterCopies ==
    ASSUME WakeInv, NEW t \in Thread, NEW w \in Writer, term', Route(t), Frame(t)
    PROVE  pc'[w] \notin Copying
  <1>0. w \in Thread /\ w \notin Reader /\ pc \in [Thread -> PC]
    BY Threads DEF WakeInv, TypeOK
  <1>1. CASE TermWrite(t)
    <2>1. pc[w] \notin Copying
      BY <1>0, <1>1, NoHolder, Sides, ZenonT(40) DEF WakeInv, Locked, TermWrite
    <2>2. pc'[t] = "term_wake" /\ \A u \in Thread \ {t} : pc'[u] = pc[u]
      BY <1>0, <1>1 DEF TermWrite, Goto
    <2>3. QED
      BY <1>0, <2>1, <2>2, ZenonT(40) DEF Copying
  <1>2. CASE ~TermWrite(t)
    <2>1. term /\ pc[w] \notin Copying
      BY <1>2, ZenonT(40) DEF WakeInv, TermWakes, Frame
    <2>2. CASE w # t
      BY <1>0, <2>1, <2>2, OthersSame, ZenonT(40) DEF WakeInv, Same
    <2>3. CASE w = t
      <3>1. Terminated(t)
        BY <1>0, <2>1, <2>3 DEF Terminated
      <3>2. QED
        BY <2>1, <2>3, <3>1, BeginsToCopy
    <2>4. QED
      BY <2>2, <2>3
  <1>3. QED
    BY <1>1, <1>2, ZenonT(40)

LEMMA WritersWoken ==
    ASSUME WakeInv, NEW t \in Thread, NEW w \in Writer, term', Blocking(w)', pc'[w] # "cleanup", ~Runnable(w)', Route(t), Frame(t)
    PROVE  \E u \in Thread : pc'[u] = "term_wake"
  <1>0. w \in Thread /\ pc \in [Thread -> PC]
    BY Threads DEF WakeInv, TypeOK
  <1>1. CASE TermWrite(t)
    BY <1>0, <1>1 DEF TermWrite, Goto
  <1>2. CASE ~TermWrite(t)
    <2>1. term /\ (w = t => ~StartBlock(t))
      BY <1>2, ZenonT(40) DEF WakeInv, TermWakes, Frame, StartBlock, Goto, Copying
    <2>2. Blocking(w) /\ pc[w] # "cleanup" /\ (w = t => ~Scheduled(t) /\ ~Preempted(t))
      <3>1. CASE w = t
        BY <2>1, <3>1, StillBlocking, ZenonT(40)
      <3>2. CASE w # t
        BY <1>0, <3>2, OthersSame, ZenonT(40) DEF WakeInv, Same
      <3>3. QED
        BY <3>1, <3>2, ZenonT(40)
    <2>3. ~Runnable(w)
      BY <1>0, <2>2, QueueKeeps DEF Runnable
    <2>4. PICK u \in Thread : pc[u] = "term_wake"
      BY <2>1, <2>2, <2>3, ZenonT(40) DEF WakeInv, TermWakes
    <2>5. CASE u # t
      BY <2>4, <2>5, OthersSame, ZenonT(40) DEF WakeInv, Same
    <2>6. CASE u = t
      <3>1. Signal(t) \/ TermWake(t)
        BY <2>4, <2>6, ZenonT(40) DEF Route
      <3>2. ~TermWake(t)
        <4>1. Own(w) = "wait_write"
          BY <1>0, Sides
        <4>2. QED
          BY <1>0, <2>2, <4>1, WokenUp, ZenonT(40) DEF TermWake, Runnable
      <3>3. QED
        BY <2>4, <2>6, <3>1, <3>2 DEF Signal
    <2>7. QED
      BY <2>5, <2>6
  <1>3. QED
    BY <1>1, <1>2, ZenonT(40)

LEMMA ReadersWoken ==
    ASSUME WakeInv, NEW t \in Thread, NEW r \in Reader, term', pc'[r] = "schedule", ~Runnable(r)', Route(t), Frame(t)
    PROVE  \E u \in Thread : pc'[u] \in Terminating
  <1>0. r \in Thread /\ r \notin Writer /\ pc \in [Thread -> PC]
    BY Threads DEF WakeInv, TypeOK
  <1>1. CASE TermWrite(t)
    BY <1>0, <1>1 DEF TermWrite, Goto, Terminating
  <1>2. CASE ~TermWrite(t)
    <2>1. term
      BY <1>2, ZenonT(40) DEF Frame
    <2>2. r # t
      <3>1. SUFFICES ASSUME r = t PROVE FALSE
        OBVIOUS
      <3>3. ~Signal(t) /\ ~Preempted(t)
        BY <3>1, ZenonT(40) DEF Preempted, Signal, thread_send_signal, Runnable
      <3>4. Test(t) \/ TestTerm(t)
        BY <3>1, <3>3, ZenonT(40) DEF Route
      <3>5. QED
        BY <1>0, <2>1, <3>1, <3>4 DEF Test, TestTerm, Goto
    <2>3. pc[r] = "schedule" /\ ~Runnable(r)
      BY <1>0, <2>2, OthersSame, QueueKeeps, ZenonT(40) DEF WakeInv, Same, Runnable
    <2>4. PICK u \in Thread : pc[u] \in Terminating
      BY <2>1, <2>3, ZenonT(40) DEF WakeInv, TermWakes
    <2>5. CASE u # t
      BY <2>4, <2>5, OthersSame, ZenonT(40) DEF WakeInv, Same
    <2>6. CASE u = t
      <3>1. Signal(t) \/ TermWake(t) \/ TermDone(t)
        BY <2>4, <2>6, ZenonT(40) DEF Route, Terminating
      <3>2. ~TermDone(t)
        <4>1. Own(r) = "wait_read" /\ Blocking(r)
          BY <1>0, <2>3, Sides, ZenonT(40) DEF Blocking
        <4>2. QED
          BY <1>0, <2>3, <4>1, WokenUp DEF TermDone, Runnable
      <3>3. TermWake(t) => pc'[t] = "term_done"
        BY <1>0, ZenonT(40) DEF TermWake, Goto
      <3>4. QED
        BY <2>4, <2>6, <3>1, <3>2, <3>3 DEF Signal, Terminating
    <2>7. QED
      BY <2>5, <2>6
  <1>3. QED
    BY <1>1, <1>2, ZenonT(40)

LEMMA TermWakesKept ==
    ASSUME WakeInv, NEW t \in Thread, Route(t), Frame(t)
    PROVE  TermWakes'
  BY NoWriterCopies, WritersWoken, ReadersWoken DEF TermWakes

-----------------------------------------------------------------------------
(***************************************************************************)
(* The ends of a pipe.                                                     *)
(***************************************************************************)

\* A side of an unnamed pipe that everybody has closed stays closed.
LEMMA StaysClosed ==
    ASSUME ~named, WakeInv, NEW t \in Thread, Route(t), Frame(t)
    PROVE  (NoWriters => NoWriters') /\ (NoReaders => NoReaders')
  <1>1. CASE Open(t)
    <2>1. PICK u \in open : Side(u) = Side(t)
      BY <1>1, ZenonT(40) DEF Open
    <2>2. u \in Thread /\ (u \in Writer <=> t \in Writer) /\ (u \in Reader <=> t \in Reader)
      BY <2>1, Threads DEF WakeInv, TypeOK, Side
    <2>3. open' = open \cup {t}
      BY <1>1 DEF Open
    <2>4. QED
      BY <2>1, <2>2, <2>3 DEF NoWriters, NoReaders
  <1>2. CASE Close(t)
    BY <1>2, ZenonT(40) DEF Close, NoWriters, NoReaders
  <1>3. CASE ~Open(t) /\ ~Close(t)
    BY <1>3 DEF Frame, NoWriters, NoReaders
  <1>4. QED
    BY <1>1, <1>2, <1>3

\* Whoever is inside a call has its end open.
LEMMA InCallOpen ==
    ASSUME WakeInv, Ends, NEW t \in Thread, NEW u \in Thread, pc'[u] \in InCall, Route(t), Frame(t)
    PROVE  u \in open'
  <1>0. pc \in [Thread -> PC] /\ (pc[u] \in InCall => u \in open)
    BY DEF WakeInv, TypeOK, Ends
  <1>1. u # t => pc'[u] = pc[u]
    BY OthersSame, ZenonT(40) DEF WakeInv, Same
  <1>2. CASE Open(t) \/ Close(t)
    BY <1>0, <1>1, <1>2, ZenonT(40) DEF Open, Close, Goto, InCall, Copying
  <1>3. CASE ~(Open(t) \/ Close(t)) /\ u # t
    BY <1>0, <1>1, <1>3 DEF Frame
  <1>4. CASE ~(Open(t) \/ Close(t)) /\ u = t
    <2>1. open' = open
      BY <1>4, ZenonT(40) DEF Frame
    <2>2. CASE ReadWrite(t)
      BY <1>4, <2>1, <2>2 DEF ReadWrite
    <2>3. CASE ~ReadWrite(t)
      <3>1. pc[t] \in InCall
        BY <1>4, <2>3, ZenonT(40) DEF Route, InCall, Copying
      <3>2. QED
        BY <1>0, <1>4, <2>1, <3>1
    <2>4. QED
      BY <2>2, <2>3, ZenonT(40)
  <1>5. QED
    BY <1>2, <1>3, <1>4, ZenonT(40)

\* What leads to charbuffer_terminate and to cb->eof.
LEMMA EndSelf ==
    ASSUME WakeInv, NEW t \in Thread, Route(t), Frame(t)
    PROVE  /\ pc'[t] \in Terminating \cup {"term_read", "term_write"} =>
                 pc[t] \in Terminating \cup {"term_read", "term_write"} \/ NoWriters \/ NoReaders
           /\ term' => term \/ pc[t] = "term_write"
           /\ pc'[t] = "close_eof" => pc[t] = "close_eof" \/ NoWriters
           /\ eof' => eof \/ pc[t] = "close_eof"
  <1>0. pc \in [Thread -> PC]
    BY ZenonT(40) DEF WakeInv, TypeOK
  <1>1. CASE CloseTest(t) \/ CloseTestAgain(t)
    BY <1>0, <1>1 DEF CloseTest, CloseTestAgain, Goto, Terminating, endVars
  <1>2. CASE ~(CloseTest(t) \/ CloseTestAgain(t))
    <2>1. /\ pc'[t] \in Terminating \cup {"term_read", "term_write"} =>
                pc[t] \in Terminating \cup {"term_read", "term_write"}
          /\ pc'[t] = "close_eof" => pc[t] = "close_eof"
      BY <1>2, ZenonT(40) DEF Route, Terminating
    <2>2. term' => term \/ pc[t] = "term_write"
      BY ZenonT(40) DEF Frame, TermWrite, Goto
    <2>3. Eof(t) => (eof' => eof)
      BY ZenonT(40) DEF Eof
    <2>4. eof' => eof \/ pc[t] = "close_eof"
      BY <2>3, ZenonT(40) DEF Frame, OpenEof, CloseEof, Goto
    <2>5. QED
      BY <2>1, <2>2, <2>4, ZenonT(40)
  <1>3. QED
    BY <1>1, <1>2, ZenonT(40)

LEMMA EndsKept ==
    ASSUME WakeInv, Ends, NEW t \in Thread, UNCHANGED named, Route(t), Frame(t)
    PROVE  Ends'
  <1>1. \A u \in Thread : pc'[u] \in InCall => u \in open'
    BY InCallOpen
  <1>2. \A u \in Thread \ {t} : pc'[u] = pc[u]
    BY OthersSame, ZenonT(40) DEF WakeInv, Same
  <1>3. ASSUME ~named, term' \/ \E u \in Thread : pc'[u] \in Terminating \cup {"term_read", "term_write"}
        PROVE  NoWriters' \/ NoReaders'
    <2>1. \/ NoWriters \/ NoReaders
          \/ term \/ \E u \in Thread : pc[u] \in Terminating \cup {"term_read", "term_write"}
      BY <1>2, <1>3, EndSelf, ZenonT(40)
    <2>2. NoWriters \/ NoReaders
      BY <1>3, <2>1 DEF Ends
    <2>3. QED
      BY <1>3, <2>2, StaysClosed
  <1>4. ASSUME ~named, eof' \/ \E u \in Thread : pc'[u] = "close_eof"
        PROVE  NoWriters'
    <2>1. NoWriters \/ eof \/ \E u \in Thread : pc[u] = "close_eof"
      BY <1>2, <1>4, EndSelf, ZenonT(40)
    <2>2. NoWriters
      BY <1>4, <2>1, ZenonT(40) DEF Ends
    <2>3. QED
      BY <1>4, <2>2, StaysClosed
  <1>5. QED
    BY <1>1, <1>3, <1>4, ZenonT(40) DEF Ends

\* Once the buffer is empty and no writer is left, it stays empty.
LEMMA StaysEmpty ==
    ASSUME WakeInv, Ends, NoWriters, cbpending = 0, NEW t \in Thread, Route(t), Frame(t)
    PROVE  cbpending' = 0
  <1>1. CASE ~Count(t)
    BY <1>1 DEF Frame
  <1>2. CASE Count(t)
    <2>1. t \in open
      BY <1>2 DEF Count, Goto, Ends, InCall, Copying
    <2>2. t \notin Writer
      BY <2>1 DEF NoWriters
    <2>3. Len(chunk[t]) \in Nat /\ Len(chunk[t]) <= 0
      BY <1>2, <2>2, CountGives DEF Avail
    <2>4. cbpending' = 0 - Len(chunk[t])
      BY <1>2, <2>2 DEF Count
    <2>5. QED
      BY <2>3, <2>4
  <1>3. QED
    BY <1>1, <1>2, ZenonT(40)
\* How a reader comes to return 0.
LEMMA BeginsZero ==
    ASSUME WakeInv, Ends, ~named, NEW t \in Reader, ~Return(t), Route(t)
    PROVE  /\ pc'[t] = "zero" => pc[t] = "zero" \/ (NoWriters /\ cbpending = 0)
           /\ pc'[t] = "zero_eof" => pc[t] = "zero_eof" \/ NoWriters
  <1>0. t \in Thread /\ pc \in [Thread -> PC]
    BY Threads DEF WakeInv, TypeOK
  <1>1. ASSUME term, pc[t] \in InCall
        PROVE  NoWriters
    BY <1>0, <1>1, ZenonT(40) DEF Ends, NoReaders
  <1>2. CASE Enter(t) \/ Relock(t)
    <2>1. pc[t] \in InCall /\ pc'[t] # "zero_eof" /\ (pc'[t] = "zero" => Terminated(t))
      BY <1>0, <1>2, ZenonT(40) DEF Enter, Relock, Goto, InCall
    <2>2. QED
      BY <1>1, <2>1, ZenonT(40) DEF Terminated
  <1>3. CASE Eof(t)
    <2>1. (pc'[t] = "zero_eof" => eof) /\ pc'[t] # "zero"
      BY <1>0, <1>3, ZenonT(40) DEF Eof, Goto
    <2>2. QED
      BY <2>1, ZenonT(40) DEF Ends
  <1>4. CASE ReadWrite(t)
    BY <1>0, <1>4 DEF ReadWrite, Goto
  <1>5. CASE ~(Enter(t) \/ Relock(t) \/ Eof(t) \/ ReadWrite(t))
    BY <1>5, ZenonT(40) DEF Route
  <1>6. QED
    BY <1>2, <1>3, <1>4, <1>5, ZenonT(40)

LEMMA ZeroKept ==
    ASSUME WakeInv, Ends, ZeroOnlyAtEnd, NEW t \in Thread, UNCHANGED named, Route(t), Frame(t)
    PROVE  ZeroOnlyAtEnd'
  <1>1. SUFFICES ASSUME ~named, NEW r \in Reader
                 PROVE  /\ pc'[r] \in {"zero", "zero_eof"} => NoWriters'
                        /\ pc'[r] = "zero" => cbpending' = 0
    BY DEF ZeroOnlyAtEnd
  <1>2. /\ pc[r] \in {"zero", "zero_eof"} => NoWriters
        /\ pc[r] = "zero" => cbpending = 0
        /\ r \in Thread
    BY <1>1, Threads, ZenonT(40) DEF ZeroOnlyAtEnd
  <1>3. /\ pc'[r] = "zero" => NoWriters /\ cbpending = 0
        /\ pc'[r] = "zero_eof" => NoWriters
    <2>1. CASE r # t
      BY <1>2, <2>1, OthersSame, ZenonT(40) DEF WakeInv, Same
    <2>2. CASE r = t /\ Return(t)
      BY <1>2, <2>2 DEF Return, WakeInv, TypeOK
    <2>3. CASE r = t /\ ~Return(t)
      BY <1>1, <1>2, <2>3, BeginsZero, ZenonT(40)
    <2>4. QED
      BY <2>1, <2>2, <2>3
  <1>4. QED
    BY <1>1, <1>3, StaysClosed, StaysEmpty, ZenonT(40)

-----------------------------------------------------------------------------
(***************************************************************************)
(* The theorems.                                                           *)
(***************************************************************************)

LEMMA PipeStarts ==
    ASSUME Init
    PROVE  PipeInv
  <1>1. BlockTypeOK
    BY DEF Init, BlockInit, BlockTypeOK, ThreadState, BlockResult
  <1>2. TypeOK
    <2>1. open \subseteq Thread
      BY Threads DEF Init
    <2>2. buffer \in [0..(Capacity - 1) -> Byte]
      BY DEF Init
    <2>3. 0 \in 0..(Word - 1) /\ 0 \in 0..Capacity
      BY Indices
    <2>4. /\ index \in [{"write", "read"} -> 0..(Word - 1)] /\ cbpending \in 0..Capacity
          /\ lock \in [{"write", "read"} -> Thread \cup {NULL}]
      BY <2>3 DEF Init
    <2>5. << >> \in Seq(Byte)
      OBVIOUS
    <2>6. chunk \in [Thread -> Seq(Byte)] /\ remaining \in [Thread -> Nat]
      BY <2>5, ZenonT(40) DEF Init
    <2>7. pc \in [Thread -> PC] /\ flags \in [Thread -> {{}} \cup ReadFlags \cup WriteFlags]
      BY DEF Init, PC
    <2>8. term \in BOOLEAN /\ eof \in BOOLEAN /\ moved \subseteq Thread /\ named \in Kinds
      BY ZenonT(40) DEF Init
    <2>9. QED
      BY <1>1, <2>1, <2>2, <2>4, <2>6, <2>7, <2>8, ZenonT(40) DEF TypeOK
  <1>3. \A t \in Thread : pc[t] = "user"
    BY ZenonT(40) DEF Init
  <1>4. Locked /\ Fits
    BY <1>3, ZenonT(40) DEF Locked, Fits, Copying, Terminating
  <1>5. Listed
    <2>1. \A bl \in BlockList : waitlist[bl] = << >>
      BY DEF Init, BlockInit
    <2>2. NoDuplicates(<< >>) /\ Members(<< >>) = {}
      BY DEF NoDuplicates, Members
    <2>3. \A t \in Thread : ~Blocking(t)
      BY <1>3, ZenonT(40) DEF Blocking
    <2>4. QED
      BY <2>1, <2>2, <2>3, ZenonT(40) DEF Listed
  <1>6. Queued /\ PeersWake /\ TermWakes
    BY <1>3, Threads, ZenonT(40) DEF Queued, PeersWake, TermWakes, Blocking, Copying, Init
  <1>7. Ends
    BY <1>3 DEF Init, Ends, InCall, Copying, Terminating
  <1>8. ZeroOnlyAtEnd
    BY <1>3, Threads, ZenonT(40) DEF ZeroOnlyAtEnd
  <1>9. QED
    BY <1>2, <1>4, <1>5, <1>6, <1>7, <1>8, ZenonT(40) DEF PipeInv, WakeInv

LEMMA PipeStep ==
    ASSUME PipeInv, Next
    PROVE  PipeInv'
  <1>1. WakeInv /\ Ends /\ ZeroOnlyAtEnd /\ UNCHANGED named /\ TypeOK
    BY DEF PipeInv, Next, WakeInv
  <1>2. PICK t \in Thread : Route(t)
    BY <1>1, Routes
  <1>3. Frame(t)
    BY <1>1, <1>2, Frames, ZenonT(40)
  <1>4. TypeOK' /\ Locked' /\ Fits' /\ Listed'
    BY <1>1, <1>2, <1>3, TypesKept, LockedKept, FitsKept, ListedKept, ZenonT(40)
  <1>5. Queued' /\ PeersWake' /\ TermWakes'
    BY <1>1, <1>2, <1>3, QueuedKept, PeersWakeKept, TermWakesKept, ZenonT(40)
  <1>6. Ends' /\ ZeroOnlyAtEnd'
    BY <1>1, <1>2, <1>3, EndsKept, ZeroKept, ZenonT(40)
  <1>7. QED
    BY <1>4, <1>5, <1>6 DEF PipeInv, WakeInv

LEMMA PipeStutters ==
    ASSUME PipeInv, UNCHANGED vars
    PROVE  PipeInv'
  <1>1. UNCHANGED <<state, uninter, onqueue, waitlist, unblocked, result, pending, signal, buffer, index,
                    cbpending, term, eof, lock, open, flags, remaining, moved, chunk, pc, named>>
    BY DEF vars, blockVars, bufVars, endVars, locals
  <1>2. TypeOK' /\ Locked' /\ Listed'
    BY <1>1, ZenonT(40) DEF PipeInv, WakeInv, TypeOK, BlockTypeOK, Locked, Listed, Blocking, More
  <1>3. Fits' /\ Queued' /\ PeersWake' /\ TermWakes'
    BY <1>1, ZenonT(40) DEF PipeInv, WakeInv, Fits, Avail, Queued, Blocking, More, PeersWake, PeerComing, Runnable, TermWakes
  <1>4. Ends' /\ ZeroOnlyAtEnd'
    BY <1>1 DEF PipeInv, Ends, NoWriters, NoReaders, ZeroOnlyAtEnd
  <1>5. QED
    BY <1>2, <1>3, <1>4, ZenonT(40) DEF PipeInv, WakeInv

\* The invariant of a pipe: who holds the locks of the buffer, who is on its
\* wait lists and on the run queue, and who is on the way to wake whom, in
\* charbuffer_read, charbuffer_write, charbuffer_terminate and the functions
\* of kernel/fs/pipe.c.
THEOREM PipeInductive == Spec => []PipeInv
  <1>1. Init => PipeInv
    BY PipeStarts
  <1>2. PipeInv /\ [Next]_vars => PipeInv'
    BY PipeStep, PipeStutters
  <1>3. QED
    BY <1>1, <1>2, PTL DEF Spec

\* A pipe keeps what it promises to those that wait in charbuffer_read and
\* charbuffer_write.
THEOREM NoWakeupLost == Spec => []PipeWakeups
  <1>1. ASSUME PipeInv
        PROVE  PipeWakeups
    <2>1. ASSUME NEW t \in Thread, Asleep(t), Avail(t) > 0
          PROVE  \E u \in Thread : Peers(u) = Own(t) /\ pc[u] \in {"index", "wake"}
      <3>1. PeerComing(t)
        BY <1>1, <2>1 DEF PipeInv, WakeInv, PeersWake, Asleep, Runnable
      <3>2. QED
        BY <3>1 DEF PeerComing
    <2>2. ASSUME NEW t \in Thread, Asleep(t), term
          PROVE  \E u \in Thread : pc[u] \in {"term_wake", "term_done"}
      <3>1. ~Runnable(t) /\ pc[t] = "schedule" /\ Blocking(t)
        BY <2>2, ZenonT(40) DEF Asleep, Runnable, Blocking
      <3>2. CASE t \in Writer
        BY <1>1, <2>2, <3>1, <3>2, ZenonT(40) DEF PipeInv, WakeInv, TermWakes
      <3>3. CASE t \in Reader
        BY <1>1, <2>2, <3>1, <3>3, ZenonT(40) DEF PipeInv, WakeInv, TermWakes, Terminating
      <3>4. QED
        BY <3>2, <3>3, Threads, ZenonT(40)
    <2>3. QED
      BY <1>1, <2>1, <2>2, ZenonT(40) DEF PipeWakeups, NoLostWakeup, PipeInv
  <1>2. QED
    BY <1>1, PipeInductive, PTL
=============================================================================
