--------------------------- MODULE NeighborProofs ---------------------------
(***************************************************************************)
(* Proofs about module Neighbor, for any number of neighbours, senders and *)
(* receivers: the sleep flag loses no wake-up of the worker, as long as    *)
(* schedule() only returns to threads that were unblocked.                 *)
(***************************************************************************)
EXTENDS Neighbor, BlocklistProofs

\* The time limits of the provers, in seconds.
USE SMTT(30), ZenonT(30)

\* Where a thread other than the worker is.
Outside == {"idle", "check", "inc_flag", "unblock_all"}

-----------------------------------------------------------------------------
(***************************************************************************)
(* Steps of senders and receivers.                                         *)
(***************************************************************************)

\* A thread that sends, receives or wakes is not the worker.
LEMMA NotWorker ==
    ASSUME NbrInv, NEW t \in Thread, pc[t] \in Outside, NEW to \in Outside,
           pc' = [pc EXCEPT ![t] = to]
    PROVE  /\ t # worker /\ worker \in Thread /\ pc'[worker] = pc[worker] /\ pc'[t] = to
           /\ \A u \in Thread \ {t} : pc'[u] = pc[u]
           /\ pc' \in [Thread -> PC]
  <1>1. worker \in Thread /\ pc \in [Thread -> PC] /\ to \in PC /\ pc[worker] \notin Outside
    BY Threads DEF NbrInv, TypeOK, Locked, Outside, PC
  <1>2. QED
    BY <1>1

\* ipv6_establish_neighbor: with neighbor_lock free, the worker is in no round.
LEMMA EstablishInv ==
    ASSUME NbrInv, NEW s \in Thread, NEW n \in Nbr, Establish(s, n)
    PROVE  NbrInv'
  <1>1. /\ pc[s] = "idle" /\ pc' = [pc EXCEPT ![s] = "check"]
        /\ reach' = [reach EXCEPT ![n] = IF reach[n] = "NONE" THEN "INCOMPLETE" ELSE reach[n]]
        /\ at' = [at EXCEPT ![s] = n]
        /\ UNCHANGED <<blockVars, queue, neighbor_lock, nlock, todo, remaining, flag, contract>>
    BY DEF Establish, Goto
  <1>2. TypeOK /\ Locked /\ Quiet /\ Listed /\ Tested /\ Flagged /\ Served
    BY DEF NbrInv
  <1>3. /\ s # worker /\ worker \in Thread /\ pc'[worker] = pc[worker] /\ pc'[s] = "check"
        /\ \A u \in Thread \ {s} : pc'[u] = pc[u]
        /\ pc' \in [Thread -> PC]
    BY <1>1, NotWorker, ZenonT(40) DEF Outside
  <1>4. /\ at'[s] = n /\ \A u \in Thread \ {s} : at'[u] = at[u]
        /\ at' \in [Thread -> Nbr \cup {NULL}]
    BY <1>1, <1>2 DEF TypeOK
  <1>5. /\ \A m \in Nbr : reach'[m] = "REACHABLE" <=> reach[m] = "REACHABLE"
        /\ \A m \in Nbr : reach[m] # "NONE" => reach'[m] # "NONE"
        /\ reach'[n] # "NONE"
        /\ reach' \in [Nbr -> {"NONE", "INCOMPLETE", "REACHABLE"}]
    BY <1>1, <1>2 DEF TypeOK
  <1>6. UNCHANGED <<state, uninter, onqueue, waitlist, unblocked, result, pending, signal>>
    BY <1>1 DEF blockVars
  <1>7. TypeOK'
    BY <1>1, <1>2, <1>3, <1>4, <1>5, <1>6 DEF TypeOK, BlockTypeOK
  <1>8. Waking' = Waking
    BY <1>1, <1>3 DEF Waking
  <1>9. Locked'
    <2>1. ASSUME NEW u \in Thread, u # s
          PROVE  /\ pc'[u] = "check" => at'[u] \in Nbr /\ reach'[at'[u]] # "NONE"
                 /\ u \in Waking => \/ neighbor_lock' = u
                                    \/ /\ at'[u] \in Nbr /\ nlock'[at'[u]] = u
                                       /\ reach'[at'[u]] # "NONE"
      BY <1>1, <1>2, <1>3, <1>4, <1>5, <2>1 DEF Locked
    <2>2. s \notin Waking
      BY <1>1 DEF Waking
    <2>3. QED
      BY <1>1, <1>2, <1>3, <1>4, <1>5, <1>8, <2>1, <2>2 DEF Locked
  <1>10. Quiet' /\ Listed' /\ Tested'
    BY <1>1, <1>2, <1>3, <1>6 DEF Quiet, Listed, Tested
  <1>11. Flagged'
    BY <1>1, <1>2, <1>3, <1>4, <1>6 DEF Flagged
  <1>12. Served'
    BY <1>1, <1>2, <1>3, <1>5, <1>8 DEF Served
  <1>13. QED
    BY <1>7, <1>9, <1>10, <1>11, <1>12 DEF NbrInv

\* ipv6_neighbor_check_state: a packet is queued only at a neighbour that is not
\* reachable, so nothing that could be sent is added.
LEMMA CheckStateInv ==
    ASSUME NbrInv, NEW s \in Thread, CheckState(s)
    PROVE  NbrInv'
  <1>1. /\ pc[s] = "check" /\ nlock[at[s]] = NULL
        /\ UNCHANGED <<blockVars, reach, neighbor_lock, at, todo, remaining, flag, contract>>
    BY DEF CheckState
  <1>2. TypeOK /\ Locked /\ Quiet /\ Listed /\ Tested /\ Flagged /\ Served
    BY DEF NbrInv
  <1>3. PICK n \in Nbr : at[s] = n /\ reach[n] # "NONE"
    BY <1>1, <1>2 DEF Locked
  <1>4. \/ pc' = [pc EXCEPT ![s] = "idle"] /\ UNCHANGED <<queue, nlock>>
        \/ /\ pc' = [pc EXCEPT ![s] = "inc_flag"] /\ reach[n] # "REACHABLE"
           /\ queue[n] < MaxQueue /\ queue' = [queue EXCEPT ![n] = queue[n] + 1]
           /\ nlock' = [nlock EXCEPT ![n] = s]
    BY <1>3 DEF CheckState, Goto
  <1>5. /\ s # worker /\ worker \in Thread /\ pc'[worker] = pc[worker]
        /\ pc'[s] \in {"idle", "inc_flag"}
        /\ \A u \in Thread \ {s} : pc'[u] = pc[u]
        /\ pc' \in [Thread -> PC]
    <2>1. CASE pc' = [pc EXCEPT ![s] = "idle"]
      BY <1>1, <2>1, NotWorker, ZenonT(40) DEF Outside
    <2>2. CASE pc' = [pc EXCEPT ![s] = "inc_flag"]
      BY <1>1, <2>2, NotWorker, ZenonT(40) DEF Outside
    <2>3. QED
      BY <1>4, <2>1, <2>2
  <1>6. UNCHANGED <<state, uninter, onqueue, waitlist, unblocked, result, pending, signal>>
    BY <1>1 DEF blockVars
  <1>7. queue' \in [Nbr -> 0..MaxQueue]
    <2>1. queue \in [Nbr -> 0..MaxQueue] /\ MaxQueue \in Nat
      BY <1>2, Bounds DEF TypeOK
    <2>2. QED
      BY <1>4, <2>1
  <1>8. TypeOK'
    BY <1>1, <1>2, <1>4, <1>5, <1>6, <1>7 DEF TypeOK, BlockTypeOK
  <1>9. Waking \subseteq Waking' /\ Waking' \subseteq Waking \cup {s}
    BY <1>1, <1>5 DEF Waking
  <1>10. Locked'
    <2>1. s \in Waking' => nlock'[n] = s
      BY <1>2, <1>4, <1>5 DEF Waking, TypeOK
    <2>2. ASSUME NEW u \in Thread, u # s, nlock[at[u]] = u, at[u] \in Nbr PROVE nlock'[at[u]] = u
      <3>1. at[u] # n
        BY <1>1, <1>3, <2>2, NoHolder
      <3>2. QED
        BY <1>2, <1>4, <2>2, <3>1 DEF TypeOK
    <2>3. QED
      BY <1>1, <1>2, <1>3, <1>5, <1>9, <2>1, <2>2 DEF Locked
  <1>11. Quiet' /\ Listed' /\ Tested'
    BY <1>1, <1>2, <1>5, <1>6 DEF Quiet, Listed, Tested
  <1>12. Flagged'
    BY <1>1, <1>2, <1>5, <1>6 DEF Flagged
  <1>13. Served'
    <2>1. \A m \in Nbr : reach[m] = "REACHABLE" => queue'[m] = queue[m]
      BY <1>2, <1>4 DEF TypeOK
    <2>2. QED
      BY <1>1, <1>2, <1>5, <1>9, <2>1 DEF Served
  <1>14. QED
    BY <1>8, <1>10, <1>11, <1>12, <1>13 DEF NbrInv

\* ipv6_neighbor_update: what becomes sendable is followed by a wake-up, whose
\* thread holds neighbor_lock until then.
LEMMA UpdateInv ==
    ASSUME NbrInv, NEW r \in Thread, NEW n \in Nbr, Update(r, n)
    PROVE  NbrInv'
  <1>1. /\ pc[r] = "idle" /\ pc' = [pc EXCEPT ![r] = "inc_flag"]
        /\ neighbor_lock = NULL /\ neighbor_lock' = r
        /\ reach' = [reach EXCEPT ![n] = "REACHABLE"]
        /\ UNCHANGED <<blockVars, queue, nlock, at, todo, remaining, flag, contract>>
    BY DEF Update, Goto
  <1>2. TypeOK /\ Locked /\ Quiet /\ Listed /\ Tested /\ Flagged /\ Served
    BY DEF NbrInv
  <1>3. /\ r # worker /\ worker \in Thread /\ pc'[worker] = pc[worker] /\ pc'[r] = "inc_flag"
        /\ \A u \in Thread \ {r} : pc'[u] = pc[u]
        /\ pc' \in [Thread -> PC]
    BY <1>1, NotWorker, ZenonT(40) DEF Outside
  <1>4. UNCHANGED <<state, uninter, onqueue, waitlist, unblocked, result, pending, signal>>
    BY <1>1 DEF blockVars
  <1>5. TypeOK'
    BY <1>1, <1>2, <1>3, <1>4 DEF TypeOK, BlockTypeOK
  <1>6. Waking' = Waking \cup {r}
    BY <1>1, <1>3 DEF Waking
  <1>7. pc[worker] # "next"
    BY <1>1, <1>2, <1>3, NoHolder DEF Locked
  <1>8. Locked'
    <2>1. \A m \in Nbr : reach[m] # "NONE" => reach'[m] # "NONE"
      BY <1>1, <1>2 DEF TypeOK
    <2>2. QED
      BY <1>1, <1>2, <1>3, <1>6, <1>7, <2>1, NoHolder DEF Locked
  <1>9. Quiet' /\ Listed' /\ Tested'
    BY <1>1, <1>2, <1>3, <1>4 DEF Quiet, Listed, Tested
  <1>10. Flagged'
    BY <1>1, <1>2, <1>3, <1>4 DEF Flagged
  <1>11. Served'
    <2>1. contract => pc[worker] \in {"scan", "dec", "cleanup", "result", "schedule"} \cup Deciding
      BY <1>2, <1>3, <1>7 DEF Locked, Flagged, TypeOK, PC, Deciding
    <2>2. QED
      BY <1>1, <1>3, <1>6, <2>1 DEF Served
  <1>12. QED
    BY <1>5, <1>8, <1>9, <1>10, <1>11 DEF NbrInv

-----------------------------------------------------------------------------
(***************************************************************************)
(* sleepflag_wake                                                          *)
(***************************************************************************)

\* sleepflag_wake, first half: from here on the flag is above what the worker
\* needs to go to sleep.
LEMMA IncFlagInv ==
    ASSUME NbrInv, NEW t \in Thread, IncFlag(t)
    PROVE  NbrInv'
  <1>1. /\ pc[t] = "inc_flag" /\ pc' = [pc EXCEPT ![t] = "unblock_all"]
        /\ flag < MaxFlag /\ flag' = flag + 1
        /\ UNCHANGED <<blockVars, nbrVars, contract>>
    BY DEF IncFlag, Goto
  <1>2. TypeOK /\ Locked /\ Quiet /\ Listed /\ Tested /\ Flagged /\ Served
    BY DEF NbrInv
  <1>3. /\ t # worker /\ worker \in Thread /\ pc'[worker] = pc[worker] /\ pc'[t] = "unblock_all"
        /\ \A u \in Thread \ {t} : pc'[u] = pc[u]
        /\ pc' \in [Thread -> PC]
    BY <1>1, NotWorker, ZenonT(40) DEF Outside
  <1>4. /\ UNCHANGED <<state, uninter, onqueue, waitlist, unblocked, result, pending, signal>>
        /\ UNCHANGED <<reach, queue, neighbor_lock, nlock, at, todo, remaining>>
    BY <1>1 DEF blockVars, nbrVars
  <1>5. flag \in Int /\ flag' = flag + 1 /\ flag' \in (-1)..MaxFlag
    <2>1. flag \in (-1)..MaxFlag /\ MaxFlag \in Nat
      BY <1>2, Bounds DEF TypeOK
    <2>2. QED
      BY <1>1, <2>1
  <1>6. TypeOK'
    BY <1>1, <1>2, <1>3, <1>4, <1>5 DEF TypeOK, BlockTypeOK
  <1>7. Waking' = Waking /\ t \in Waking
    BY <1>1, <1>3, ZenonT(40) DEF Waking
  <1>8. Locked'
    BY <1>2, <1>3, <1>4, <1>7 DEF Locked
  <1>9. Quiet' /\ Listed' /\ Tested'
    BY <1>2, <1>3, <1>4, <1>5 DEF Quiet, Listed, Tested
  <1>10. Flagged'
    <2> SUFFICES ASSUME contract PROVE Flagged'
      BY <1>1 DEF Flagged
    <2>1. /\ pc[worker] # "panic" /\ flag >= 0
          /\ pc[worker] # "schedule" => flag >= 1
      BY <1>2, <1>5 DEF Flagged
    <2>2. flag' >= 1 /\ (pc[worker] # "schedule" => flag' >= 2)
      BY <1>5, <2>1
    <2>3. pc[worker] \in Deciding \cup {"next", "dec_flag"} => flag' >= 2
      BY <2>2 DEF Deciding
    <2>4. QED
      BY <1>3, <1>5, <2>1, <2>2, <2>3 DEF Flagged
  <1>11. Served'
    BY <1>1, <1>2, <1>3, <1>4, <1>7 DEF Served
  <1>12. QED
    BY <1>6, <1>8, <1>9, <1>10, <1>11 DEF NbrInv

\* sleepflag_wake, second half: a worker that is already on the list is put on
\* the run queue, and one that is not finds the flag raised.
LEMMA UnblockAllInv ==
    ASSUME NbrInv, NEW t \in Thread, UnblockAll(t)
    PROVE  NbrInv'
  <1>1. /\ pc[t] = "unblock_all" /\ pc' = [pc EXCEPT ![t] = "idle"]
        /\ blocklist_unblock_all("bl")
        /\ neighbor_lock' = IF neighbor_lock = t THEN NULL ELSE neighbor_lock
        /\ nlock' = [n \in Nbr |-> IF nlock[n] = t THEN NULL ELSE nlock[n]]
        /\ UNCHANGED <<reach, queue, at, todo, remaining, flag, contract>>
    BY DEF UnblockAll, Goto
  <1>2. TypeOK /\ BlockTypeOK /\ Locked /\ Quiet /\ Listed /\ Tested /\ Flagged /\ Served
    BY DEF NbrInv, TypeOK
  <1>3. /\ t # worker /\ worker \in Thread /\ pc'[worker] = pc[worker] /\ pc'[t] = "idle"
        /\ \A u \in Thread \ {t} : pc'[u] = pc[u]
        /\ pc' \in [Thread -> PC]
    BY <1>1, NotWorker, ZenonT(40) DEF Outside
  <1>4. /\ BlockTypeOK' /\ UNCHANGED <<waitlist, pending, signal, result>>
        /\ unblocked' = unblocked \cup Members(waitlist["bl"])
        /\ onqueue' = onqueue \cup (Members(waitlist["bl"]) \ unblocked)
    <2>1. "bl" \in BlockList
      BY OneFlag
    <2>2. UNCHANGED <<signal, result>>
      BY <1>1 DEF blocklist_unblock_all, blockpoint_unblock
    <2>3. QED
      BY <1>1, <1>2, <2>1, <2>2, UnblockAllLists
  <1>5. TypeOK'
    BY <1>1, <1>2, <1>3, <1>4 DEF TypeOK
  <1>6. Waking' = Waking \ {t}
    BY <1>1, <1>3, ZenonT(40) DEF Waking
  <1>7. Locked'
    <2>1. ASSUME NEW u \in Thread, u # t, at[u] \in Nbr, nlock[at[u]] = u
          PROVE  nlock'[at[u]] = u
      BY <1>1, <2>1
    <2>2. ASSUME NEW u \in Thread, u # t, neighbor_lock = u PROVE neighbor_lock' = u
      BY <1>1, <2>2
    <2>3. QED
      BY <1>1, <1>2, <1>3, <1>6, <2>1, <2>2, ZenonT(40) DEF Locked
  <1>8. Quiet' /\ Listed' /\ Tested'
    <2>1. Quiet' /\ Tested'
      BY <1>1, <1>2, <1>3, <1>4 DEF Quiet, Tested
    <2>2. Listed'
      BY <1>2, <1>3, <1>4 DEF Listed
    <2>3. QED
      BY <2>1, <2>2
  <1>9. Flagged'
    <2> SUFFICES ASSUME contract PROVE Flagged'
      BY <1>1 DEF Flagged
    <2>1. pc[worker] = "schedule" => worker \in onqueue'
      BY <1>2, <1>4 DEF Listed
    <2>2. /\ pc[worker] = "dec_flag" => flag >= 2
          /\ pc[worker] = "schedule" => flag >= 1
      BY <1>1, <1>2, ZenonT(40) DEF Flagged, Deciding
    <2>3. QED
      BY <1>1, <1>2, <1>3, <2>1, <2>2 DEF Flagged
  <1>10. Served'
    <2> SUFFICES ASSUME contract PROVE Served'
      BY <1>1 DEF Served
    <2>1. /\ pc[worker] \in Deciding => flag >= 2
          /\ pc[worker] = "schedule" => flag >= 1
      BY <1>1, <1>2 DEF Flagged
    <2>2. QED
      BY <1>1, <1>2, <1>3, <2>1, ZenonT(40) DEF Served
  <1>11. QED
    BY <1>5, <1>7, <1>8, <1>9, <1>10 DEF NbrInv

-----------------------------------------------------------------------------
(***************************************************************************)
(* The rounds of the worker.                                               *)
(***************************************************************************)

\* A step of the worker leaves the other threads where they are.
LEMMA WorkerStep ==
    ASSUME NbrInv, NEW to \in PC \ Outside, pc' = [pc EXCEPT ![worker] = to]
    PROVE  /\ worker \in Thread /\ pc'[worker] = to
           /\ \A u \in Thread \ {worker} : pc'[u] = pc[u]
           /\ \A u \in Thread : pc'[u] \in Outside \/ pc[u] \in Outside => pc'[u] = pc[u]
           /\ pc' \in [Thread -> PC]
           /\ Waking' = Waking
  <1>1. worker \in Thread /\ pc \in [Thread -> PC] /\ pc[worker] \notin Outside
    BY Threads DEF NbrInv, TypeOK, Locked, Outside
  <1>2. /\ pc'[worker] = to /\ pc' \in [Thread -> PC]
        /\ \A u \in Thread \ {worker} : pc'[u] = pc[u]
    BY <1>1
  <1>3. \A u \in Thread : pc'[u] \in Outside \/ pc[u] \in Outside => pc'[u] = pc[u]
    BY <1>1, <1>2
  <1>4. Waking' = Waking
    BY <1>3 DEF Waking, Outside
  <1>5. QED
    BY <1>1, <1>2, <1>3, <1>4

\* The start of a round: all neighbours whose lock a waking thread holds are
\* ahead of the worker.
LEMMA ScanInv ==
    ASSUME NbrInv, Scan
    PROVE  NbrInv'
  <1>1. /\ pc[worker] = "scan" /\ pc' = [pc EXCEPT ![worker] = "next"]
        /\ neighbor_lock = NULL /\ neighbor_lock' = worker
        /\ todo' = {n \in Nbr : reach[n] # "NONE"} /\ remaining' = FALSE
        /\ UNCHANGED <<blockVars, reach, queue, nlock, at, flag, contract>>
    BY DEF Scan, Goto
  <1>2. TypeOK /\ Locked /\ Quiet /\ Listed /\ Tested /\ Flagged /\ Served
    BY DEF NbrInv
  <1>3. /\ worker \in Thread /\ pc'[worker] = "next"
        /\ \A u \in Thread : pc'[u] \in Outside \/ pc[u] \in Outside => pc'[u] = pc[u]
        /\ pc' \in [Thread -> PC]
        /\ Waking' = Waking
    BY <1>1, WorkerStep, ZenonT(40) DEF PC, Outside
  <1>4. UNCHANGED <<state, uninter, onqueue, waitlist, unblocked, result, pending, signal>>
    BY <1>1 DEF blockVars
  <1>5. TypeOK'
    BY <1>1, <1>2, <1>3, <1>4, ZenonT(40) DEF TypeOK, BlockTypeOK
  <1>6. Locked'
    BY <1>1, <1>2, <1>3, NoHolder DEF Locked, Outside
  <1>7. Quiet' /\ Listed' /\ Tested'
    BY <1>1, <1>2, <1>3, <1>4 DEF Quiet, Listed, Tested
  <1>8. Flagged'
    <2>1. ASSUME NEW u \in Thread, pc'[u] = "unblock_all" PROVE at'[u] \in todo'
      <3>1. u \in Waking /\ neighbor_lock # u
        BY <1>1, <1>3, <2>1, NoHolder DEF Waking, Outside
      <3>2. QED
        BY <1>1, <1>2, <3>1 DEF Locked
    <2>2. QED
      BY <1>1, <1>2, <1>3, <2>1 DEF Flagged, Deciding
  <1>9. Served'
    BY <1>1, <1>3, ZenonT(40) DEF Served
  <1>10. QED
    BY <1>5, <1>6, <1>7, <1>8, <1>9 DEF NbrInv

\* One neighbour of a round: its lock is free, so nobody who is about to wake
\* the worker holds it, and packets left behind set remaining.
LEMMA ScanOneInv ==
    ASSUME NbrInv, NEW n \in Nbr, ScanOne(n)
    PROVE  NbrInv'
  <1>1. /\ pc[worker] = "next" /\ pc' = [pc EXCEPT ![worker] = "next"]
        /\ nlock[n] = NULL /\ todo' = todo \ {n}
        /\ \/ /\ reach[n] = "REACHABLE" /\ queue[n] > 0
              /\ queue' = [queue EXCEPT ![n] = queue[n] - 1]
              /\ remaining' = (remaining \/ queue[n] > 1)
           \/ ~(reach[n] = "REACHABLE" /\ queue[n] > 0) /\ UNCHANGED <<queue, remaining>>
        /\ UNCHANGED <<blockVars, reach, neighbor_lock, nlock, at, flag, contract>>
    BY DEF ScanOne, Goto
  <1>2. TypeOK /\ Locked /\ Quiet /\ Listed /\ Tested /\ Flagged /\ Served
    BY DEF NbrInv
  <1>3. /\ worker \in Thread /\ pc'[worker] = "next"
        /\ \A u \in Thread : pc'[u] \in Outside \/ pc[u] \in Outside => pc'[u] = pc[u]
        /\ pc' \in [Thread -> PC]
        /\ Waking' = Waking
    BY <1>1, WorkerStep, ZenonT(40) DEF PC, Outside
  <1>4. UNCHANGED <<state, uninter, onqueue, waitlist, unblocked, result, pending, signal>>
    BY <1>1 DEF blockVars
  <1>5. /\ queue \in [Nbr -> 0..MaxQueue] /\ queue' \in [Nbr -> 0..MaxQueue]
        /\ remaining' \in BOOLEAN
    <2>1. queue \in [Nbr -> 0..MaxQueue] /\ MaxQueue \in Nat /\ remaining \in BOOLEAN
      BY <1>2, Bounds DEF TypeOK
    <2>2. queue' \in [Nbr -> 0..MaxQueue]
      BY <1>1, <2>1
    <2>3. QED
      BY <1>1, <2>1, <2>2, ZenonT(40)
  <1>6. TypeOK'
    BY <1>1, <1>2, <1>3, <1>4, <1>5, ZenonT(40) DEF TypeOK, BlockTypeOK
  <1>7. Locked'
    BY <1>1, <1>2, <1>3, ZenonT(40) DEF Locked, Outside
  <1>8. Quiet' /\ Listed' /\ Tested'
    BY <1>1, <1>2, <1>3, <1>4, ZenonT(40) DEF Quiet, Listed, Tested
  <1>9. Flagged'
    <2>1. ASSUME NEW u \in Thread, pc'[u] = "unblock_all", at'[u] \notin todo'
          PROVE  at[u] \notin todo
      <3>1. u \in Waking /\ neighbor_lock = worker /\ u # worker
        BY <1>1, <1>2, <1>3, <2>1, ZenonT(40) DEF Waking, Outside, Locked
      <3>2. nlock[at[u]] = u
        BY <1>2, <3>1, ZenonT(40) DEF Locked
      <3>3. QED
        BY <1>1, <2>1, <3>2, NoHolder, ZenonT(40)
    <2>2. QED
      BY <1>1, <1>2, <1>3, <1>4, <2>1, ZenonT(40) DEF Flagged, Outside
  <1>10. Served'
    <2> SUFFICES ASSUME contract, NEW m \in Nbr, reach[m] = "REACHABLE", queue'[m] > 0
                 PROVE  m \in todo' \/ remaining'
      BY <1>1, <1>3 DEF Served
    <2>1. CASE m = n
      <3>1. /\ queue[n] \in Nat /\ queue'[n] = queue[n] - 1
            /\ remaining' = (remaining \/ queue[n] > 1)
        BY <1>1, <1>5, <2>1
      <3>2. queue[n] > 1
        BY <2>1, <3>1
      <3>3. QED
        BY <3>1, <3>2, ZenonT(40)
    <2>2. CASE m # n
      <3>1. queue'[m] = queue[m]
        BY <1>1, <1>5, <2>2
      <3>2. queue[m] > 0
        BY <3>1
      <3>3. m \in todo \/ remaining
        BY <1>1, <1>2, <3>2, ZenonT(40) DEF Served, Deciding
      <3>4. remaining => remaining'
        <4>1. \/ remaining' = (remaining \/ queue[n] > 1)
              \/ remaining' = remaining
          BY <1>1, ZenonT(40)
        <4>2. QED
          BY <4>1, ZenonT(40)
      <3>5. m \in todo => m \in todo'
        BY <1>1, <2>2, ZenonT(40)
      <3>6. QED
        BY <3>3, <3>4, <3>5, ZenonT(40)
    <2>3. QED
      BY <2>1, <2>2
  <1>11. QED
    BY <1>6, <1>7, <1>8, <1>9, <1>10 DEF NbrInv

\* The end of a round: no sendable packet is left, or there is another round.
LEMMA ScanEndInv ==
    ASSUME NbrInv, ScanEnd
    PROVE  NbrInv'
  <1> DEFINE to == IF remaining THEN "scan" ELSE "sleep"
  <1>1. /\ pc[worker] = "next" /\ pc' = [pc EXCEPT ![worker] = to]
        /\ todo = {} /\ neighbor_lock' = NULL
        /\ UNCHANGED <<blockVars, reach, queue, nlock, at, todo, remaining, flag, contract>>
    BY DEF ScanEnd, Goto
  <1>2. TypeOK /\ Locked /\ Quiet /\ Listed /\ Tested /\ Flagged /\ Served
    BY DEF NbrInv
  <1>3. /\ worker \in Thread /\ pc'[worker] = to
        /\ \A u \in Thread : pc'[u] \in Outside \/ pc[u] \in Outside => pc'[u] = pc[u]
        /\ pc' \in [Thread -> PC]
        /\ Waking' = Waking
    <2>1. to \in PC \ Outside
      BY DEF PC, Outside
    <2>2. QED
      BY <1>1, <2>1, WorkerStep, ZenonT(40)
  <1>4. UNCHANGED <<state, uninter, onqueue, waitlist, unblocked, result, pending, signal>>
    BY <1>1 DEF blockVars
  <1>5. pc'[worker] \in {"scan", "sleep"} /\ (pc'[worker] = "sleep" => ~remaining)
    BY <1>3, ZenonT(40)
  <1> HIDE DEF to
  <1>6. TypeOK'
    BY <1>1, <1>2, <1>3, <1>4, ZenonT(40) DEF TypeOK, BlockTypeOK
  <1>7. Locked'
    <2>1. ASSUME NEW u \in Waking
          PROVE  at[u] \in Nbr /\ nlock[at[u]] = u /\ reach[at[u]] # "NONE"
      <3>1. u \in Thread /\ u # worker
        BY <1>1 DEF Waking
      <3>2. neighbor_lock = worker
        BY <1>1, <1>2 DEF Locked
      <3>3. QED
        BY <1>2, <3>1, <3>2 DEF Locked
    <2>2. \A u \in Thread : pc'[u] = "check" => pc[u] = "check"
      BY <1>3 DEF Outside
    <2>3. QED
      BY <1>1, <1>2, <1>3, <1>5, <2>1, <2>2, ZenonT(40) DEF Locked
  <1>8. Quiet' /\ Listed' /\ Tested'
    BY <1>1, <1>2, <1>4, <1>5, ZenonT(40) DEF Quiet, Listed, Tested
  <1>9. Flagged'
    <2>1. \A u \in Thread : pc'[u] = "unblock_all" => pc[u] = "unblock_all"
      BY <1>3 DEF Outside
    <2>2. contract => flag >= 1
      BY <1>1, <1>2 DEF Flagged
    <2>3. contract => \A u \in Thread : pc'[u] = "unblock_all" => flag >= 2
      BY <1>1, <1>2, <2>1 DEF Flagged
    <2>4. QED
      BY <1>1, <1>5, <2>2, <2>3 DEF Flagged
  <1>10. Served'
    <2>1. pc'[worker] = "sleep" /\ contract =>
             \A n \in Nbr : ~(reach[n] = "REACHABLE" /\ queue[n] > 0)
      BY <1>1, <1>2, <1>5, ZenonT(40) DEF Served, Deciding
    <2>2. QED
      BY <1>1, <1>5, <2>1, ZenonT(40) DEF Served
  <1>11. QED
    BY <1>6, <1>7, <1>8, <1>9, <1>10 DEF NbrInv

-----------------------------------------------------------------------------
(***************************************************************************)
(* sleepflag_sleep                                                         *)
(***************************************************************************)

\* Steps of the worker that change only where it is, and the flag: the locks
\* and the wait list are as they were.
LEMMA FlagStep ==
    ASSUME NbrInv, NEW to \in PC \ Outside, pc' = [pc EXCEPT ![worker] = to],
           pc[worker] # "next", to # "next", flag' \in (-1)..MaxFlag,
           UNCHANGED <<blockVars, nbrVars, contract>>,
           to \in {"dec_flag", "schedule", "cleanup"} <=>
              pc[worker] \in {"dec_flag", "schedule", "cleanup"},
           to \in {"dec_flag", "schedule"} => pc[worker] \in {"dec_flag", "schedule"}
    PROVE  /\ TypeOK' /\ Locked' /\ Quiet' /\ Listed'
           /\ worker \in Thread /\ pc'[worker] = to /\ Waking' = Waking
           /\ \A u \in Thread : pc'[u] \in Outside \/ pc[u] \in Outside => pc'[u] = pc[u]
           /\ UNCHANGED <<state, onqueue, reach, queue, at, todo, remaining>>
  <1>1. TypeOK /\ Locked /\ Quiet /\ Listed
    BY DEF NbrInv
  <1>2. /\ worker \in Thread /\ pc'[worker] = to
        /\ \A u \in Thread : pc'[u] \in Outside \/ pc[u] \in Outside => pc'[u] = pc[u]
        /\ pc' \in [Thread -> PC]
        /\ Waking' = Waking
    BY WorkerStep, ZenonT(40)
  <1>3. /\ UNCHANGED <<state, uninter, onqueue, waitlist, unblocked, result, pending, signal>>
        /\ UNCHANGED <<reach, queue, neighbor_lock, nlock, at, todo, remaining, contract>>
    BY ZenonT(40) DEF blockVars, nbrVars
  <1>4. TypeOK'
    BY <1>1, <1>2, <1>3, ZenonT(40) DEF TypeOK, BlockTypeOK
  <1>5. Locked'
    BY <1>1, <1>2, <1>3 DEF Locked, Outside
  <1>6. Quiet'
    BY <1>1, <1>3, ZenonT(40) DEF Quiet
  <1>7. Listed'
    BY <1>1, <1>2, <1>3 DEF Listed
  <1>8. QED
    BY <1>2, <1>3, <1>4, <1>5, <1>6, <1>7

\* The first test of sleepflag_sleep.
LEMMA SleepInv ==
    ASSUME NbrInv, Sleep
    PROVE  NbrInv'
  <1> DEFINE to == IF flag >= 2 THEN "dec" ELSE "assert"
  <1>1. /\ pc[worker] = "sleep" /\ pc' = [pc EXCEPT ![worker] = to]
        /\ UNCHANGED <<blockVars, nbrVars, flag, contract>>
    BY DEF Sleep, Goto
  <1>2. TypeOK /\ Tested /\ Flagged /\ Served
    BY DEF NbrInv
  <1>3. /\ to \in {"dec", "assert"} /\ (to = "dec" => flag >= 2)
        /\ to \in PC \ Outside
    BY DEF PC, Outside
  <1> HIDE DEF to
  <1>4. flag' \in (-1)..MaxFlag
    BY <1>1, <1>2 DEF TypeOK
  <1>5. /\ TypeOK' /\ Locked' /\ Quiet' /\ Listed'
        /\ worker \in Thread /\ pc'[worker] = to /\ Waking' = Waking
        /\ \A u \in Thread : pc'[u] \in Outside \/ pc[u] \in Outside => pc'[u] = pc[u]
        /\ UNCHANGED <<state, onqueue, reach, queue, at, todo, remaining>>
    BY <1>1, <1>3, <1>4, FlagStep, ZenonT(40)
  <1>6. Tested'
    BY <1>1, <1>3, <1>5, ZenonT(40) DEF Tested
  <1>7. Flagged'
    BY <1>1, <1>2, <1>3, <1>5, ZenonT(40) DEF Flagged, Deciding, Outside
  <1>8. Served'
    BY <1>1, <1>2, <1>3, <1>5, ZenonT(40) DEF Served, Deciding
  <1>9. QED
    BY <1>5, <1>6, <1>7, <1>8, ZenonT(40) DEF NbrInv

\* The assertion of sleepflag_sleep.
LEMMA FlagAssertInv ==
    ASSUME NbrInv, FlagAssert
    PROVE  NbrInv'
  <1> DEFINE to == IF flag >= 0 THEN "startblock" ELSE "panic"
  <1>1. /\ pc[worker] = "assert" /\ pc' = [pc EXCEPT ![worker] = to]
        /\ UNCHANGED <<blockVars, nbrVars, flag, contract>>
    BY DEF FlagAssert, Goto
  <1>2. TypeOK /\ Tested /\ Flagged /\ Served
    BY DEF NbrInv
  <1>3. /\ to \in {"startblock", "panic"} /\ (to = "startblock" <=> flag >= 0)
        /\ to \in PC \ Outside
    BY DEF PC, Outside
  <1> HIDE DEF to
  <1>4. flag' \in (-1)..MaxFlag /\ flag \in Int
    BY <1>1, <1>2, Bounds DEF TypeOK
  <1>5. /\ TypeOK' /\ Locked' /\ Quiet' /\ Listed'
        /\ worker \in Thread /\ pc'[worker] = to /\ Waking' = Waking
        /\ \A u \in Thread : pc'[u] \in Outside \/ pc[u] \in Outside => pc'[u] = pc[u]
        /\ UNCHANGED <<state, onqueue, reach, queue, at, todo, remaining>>
    BY <1>1, <1>3, <1>4, FlagStep, ZenonT(40)
  <1>6. contract => to = "startblock"
    BY <1>1, <1>2, <1>3, <1>4 DEF Flagged
  <1>7. Tested'
    BY <1>1, <1>3, <1>5, ZenonT(40) DEF Tested
  <1>8. Flagged'
    BY <1>1, <1>2, <1>3, <1>5, <1>6, ZenonT(40) DEF Flagged, Deciding, Outside
  <1>9. Served'
    BY <1>1, <1>2, <1>3, <1>5, <1>6 DEF Served, Deciding
  <1>10. QED
    BY <1>5, <1>7, <1>8, <1>9 DEF NbrInv

\* sleepflag_sleep that takes back one wake-up instead of sleeping.
LEMMA DecInv ==
    ASSUME NbrInv, Dec
    PROVE  NbrInv'
  <1>1. /\ pc[worker] = "dec" /\ pc' = [pc EXCEPT ![worker] = "scan"]
        /\ flag' = flag - 1
        /\ UNCHANGED <<blockVars, nbrVars, contract>>
    BY DEF Dec, Goto
  <1>2. flag >= 2
    BY <1>1 DEF NbrInv, Tested
  <1>3. flag' \in (-1)..MaxFlag /\ flag' >= 1
    BY <1>1, <1>2, Bounds DEF NbrInv, TypeOK
  <1>4. "scan" \in PC \ Outside
    BY DEF PC, Outside
  <1>5. /\ TypeOK' /\ Locked' /\ Quiet' /\ Listed'
        /\ worker \in Thread /\ pc'[worker] = "scan"
    BY <1>1, <1>3, <1>4, FlagStep, ZenonT(40)
  <1>6. Tested' /\ Flagged' /\ Served'
    BY <1>3, <1>5 DEF Tested, Flagged, Served, Deciding
  <1>7. QED
    BY <1>5, <1>6 DEF NbrInv

\* The decrement that decides whether to sleep: it reaches 0 only when nobody
\* has increased the flag since the last round.
LEMMA DecFlagInv ==
    ASSUME NbrInv, DecFlag
    PROVE  NbrInv'
  <1> DEFINE to == IF flag - 1 = 0 THEN "schedule" ELSE "cleanup"
  <1>1. /\ pc[worker] = "dec_flag" /\ pc' = [pc EXCEPT ![worker] = to]
        /\ flag' = flag - 1
        /\ UNCHANGED <<blockVars, nbrVars, contract>>
    BY DEF DecFlag, Goto
  <1>2. TypeOK /\ Tested /\ Flagged /\ Served
    BY DEF NbrInv
  <1>3. flag \in Int /\ flag' \in (-1)..MaxFlag
    <2>1. flag >= 0 /\ flag \in (-1)..MaxFlag /\ MaxFlag \in Nat
      BY <1>1, <1>2, Bounds DEF TypeOK, Tested
    <2>2. QED
      BY <1>1, <2>1
  <1>4. /\ to \in {"schedule", "cleanup"} /\ (to = "schedule" <=> flag = 1)
        /\ to \in PC \ Outside
    BY <1>3 DEF PC, Outside
  <1> HIDE DEF to
  <1>5. /\ TypeOK' /\ Locked' /\ Quiet' /\ Listed'
        /\ worker \in Thread /\ pc'[worker] = to /\ Waking' = Waking
        /\ \A u \in Thread : pc'[u] \in Outside \/ pc[u] \in Outside => pc'[u] = pc[u]
        /\ UNCHANGED <<state, onqueue, reach, queue, at, todo, remaining>>
    BY <1>1, <1>3, <1>4, FlagStep, ZenonT(40)
  <1>6. Tested'
    BY <1>4, <1>5 DEF Tested
  <1>7. Flagged'
    <2> SUFFICES ASSUME contract PROVE Flagged'
      BY <1>1, ZenonT(40) DEF Flagged
    <2>1. /\ flag >= 1
          /\ \A u \in Thread : pc[u] = "unblock_all" => flag >= 2
          /\ state[worker] = "RUNNING" => flag >= 2
      BY <1>1, <1>2 DEF Flagged, Deciding
    <2>2. CASE to = "schedule"
      <3>1. flag' = 0 /\ flag = 1
        BY <1>1, <1>4, <2>2
      <3>2. ~(flag >= 2)
        BY <3>1
      <3>3. (\A u \in Thread : pc'[u] # "unblock_all") /\ state[worker] # "RUNNING"
        BY <1>5, <2>1, <3>2, ZenonT(40) DEF Outside
      <3>4. ~(flag' >= 1) /\ flag' >= 0
        BY <3>1
      <3>5. QED
        BY <1>5, <2>2, <3>3, <3>4, ZenonT(40) DEF Flagged, Deciding
    <2>3. CASE to = "cleanup"
      <3>1. flag' >= 1
        BY <1>1, <1>3, <1>4, <2>1, <2>3
      <3>2. QED
        BY <1>5, <2>3, <3>1, ZenonT(40) DEF Flagged, Deciding
    <2>4. QED
      BY <1>4, <2>2, <2>3, ZenonT(40)
  <1>8. Served'
    <2>1. CASE to = "schedule"
      BY <1>1, <1>2, <1>4, <1>5, <2>1 DEF Served, Deciding
    <2>2. CASE to = "cleanup"
      BY <1>5, <2>2 DEF Served
    <2>3. QED
      BY <1>4, <2>1, <2>2, ZenonT(40)
  <1>9. QED
    BY <1>5, <1>6, <1>7, <1>8 DEF NbrInv

\* The end of sleepflag_sleep: without signals and timeouts it has nothing to
\* undo.
LEMMA ResultInv ==
    ASSUME NbrInv, Result
    PROVE  NbrInv'
  <1>1. TypeOK /\ Quiet /\ Flagged
    BY DEF NbrInv
  <1>2. CleanupResult(worker, {}) \in {"UNBLOCKED", "BLOCKED"}
    BY <1>1 DEF CleanupResult, Quiet
  <1>3. /\ pc[worker] = "result" /\ pc' = [pc EXCEPT ![worker] = "scan"]
        /\ flag' = flag
        /\ UNCHANGED <<blockVars, nbrVars, contract>>
    BY <1>2 DEF Result, Goto
  <1>4. flag' \in (-1)..MaxFlag /\ "scan" \in PC \ Outside
    BY <1>1, <1>3 DEF TypeOK, PC, Outside
  <1>5. /\ TypeOK' /\ Locked' /\ Quiet' /\ Listed'
        /\ worker \in Thread /\ pc'[worker] = "scan"
    BY <1>3, <1>4, FlagStep, ZenonT(40)
  <1>6. contract => flag >= 1
    BY <1>1, <1>3, ZenonT(40) DEF Flagged
  <1>7. Tested' /\ Flagged' /\ Served'
    BY <1>3, <1>5, <1>6 DEF Tested, Flagged, Served, Deciding
  <1>8. QED
    BY <1>5, <1>7 DEF NbrInv

\* blockpoint_startblock: the worker is on the list before it decides to sleep.
LEMMA StartBlockInv ==
    ASSUME NbrInv, StartBlock
    PROVE  NbrInv'
  <1>1. /\ pc[worker] = "startblock" /\ pc' = [pc EXCEPT ![worker] = "dec_flag"]
        /\ blockpoint_startblock(worker, "bl", {})
        /\ UNCHANGED <<reach, queue, neighbor_lock, nlock, at, todo, remaining, flag, contract>>
    BY DEF StartBlock, Goto, nbrVars
  <1>2. /\ TypeOK /\ BlockTypeOK /\ Locked /\ Quiet /\ Listed /\ Tested /\ Flagged /\ Served
    BY DEF NbrInv, TypeOK
  <1>3. /\ worker \in Thread /\ pc'[worker] = "dec_flag"
        /\ \A u \in Thread : pc'[u] \in Outside \/ pc[u] \in Outside => pc'[u] = pc[u]
        /\ pc' \in [Thread -> PC]
        /\ Waking' = Waking
    BY <1>1, WorkerStep, ZenonT(40) DEF PC, Outside
  <1>4. NoDuplicates(waitlist["bl"]) /\ Members(waitlist["bl"]) = {}
    BY <1>1, <1>2 DEF Listed
  <1>5. /\ BlockTypeOK' /\ NoDuplicates(waitlist'["bl"])
        /\ Members(waitlist'["bl"]) = {worker}
    <2>1. "bl" \in BlockList
      BY OneFlag
    <2>2. worker \notin Members(waitlist["bl"])
      BY <1>4
    <2>3. /\ BlockTypeOK' /\ NoDuplicates(waitlist'["bl"])
          /\ Members(waitlist'["bl"]) = Members(waitlist["bl"]) \cup {worker}
      BY <1>1, <1>2, <1>3, <1>4, <2>1, <2>2, StartBlockLists, ZenonT(40)
    <2>4. QED
      BY <1>4, <2>3
  <1>6. /\ state'[worker] = "BLOCKED" /\ worker \notin unblocked'
        /\ result'[worker] = "BLOCKED" /\ UNCHANGED <<onqueue, pending, signal>>
    BY <1>1, <1>2, <1>3, ZenonT(40) DEF blockpoint_startblock, BlockTypeOK
  <1>7. TypeOK'
    BY <1>1, <1>2, <1>3, <1>5, ZenonT(40) DEF TypeOK
  <1>8. Locked'
    BY <1>1, <1>2, <1>3, ZenonT(40) DEF Locked, Outside
  <1>9. Quiet' /\ Listed' /\ Tested'
    BY <1>1, <1>2, <1>3, <1>5, <1>6 DEF Quiet, Listed, Tested
  <1>10. Flagged'
    BY <1>1, <1>2, <1>3, <1>6, ZenonT(40) DEF Flagged, Deciding, Outside
  <1>11. Served'
    BY <1>1, <1>2, <1>3, ZenonT(40) DEF Served, Deciding
  <1>12. QED
    BY <1>7, <1>8, <1>9, <1>10, <1>11 DEF NbrInv

\* schedule() returns to the worker.
LEMMA ScheduledInv ==
    ASSUME NbrInv, Scheduled
    PROVE  NbrInv'
  <1>1. /\ pc[worker] = "schedule" /\ pc' = [pc EXCEPT ![worker] = "cleanup"]
        /\ schedule(worker) /\ contract' = (contract /\ state[worker] = "RUNNING")
        /\ UNCHANGED <<reach, queue, neighbor_lock, nlock, at, todo, remaining, flag>>
    BY DEF Scheduled, Goto, nbrVars
  <1>2. /\ TypeOK /\ BlockTypeOK /\ Locked /\ Quiet /\ Listed /\ Tested /\ Flagged /\ Served
    BY DEF NbrInv, TypeOK
  <1>3. /\ worker \in Thread /\ pc'[worker] = "cleanup"
        /\ \A u \in Thread : pc'[u] \in Outside \/ pc[u] \in Outside => pc'[u] = pc[u]
        /\ pc' \in [Thread -> PC]
        /\ Waking' = Waking
    BY <1>1, WorkerStep, ZenonT(40) DEF PC, Outside
  <1>4. BlockTypeOK'
    BY <1>1, <1>2, <1>3, StateTypes
  <1>5. pending' = {} /\ signal' = {} /\ UNCHANGED <<waitlist, unblocked, result>>
    BY <1>1, <1>2, ZenonT(40) DEF schedule, check_signals, Quiet
  <1>6. TypeOK'
    BY <1>1, <1>2, <1>3, <1>4, ZenonT(40) DEF TypeOK
  <1>7. Locked'
    BY <1>1, <1>2, <1>3, ZenonT(40) DEF Locked, Outside
  <1>8. Quiet' /\ Listed' /\ Tested'
    BY <1>1, <1>2, <1>3, <1>5 DEF Quiet, Listed, Tested
  <1>9. contract' => flag >= 1
    BY <1>1, <1>2, ZenonT(40) DEF Flagged
  <1>10. Flagged' /\ Served'
    BY <1>1, <1>3, <1>9 DEF Flagged, Deciding, Served
  <1>11. QED
    BY <1>6, <1>7, <1>8, <1>10 DEF NbrInv

\* blockpoint_cleanup takes the worker off the list.
LEMMA CleanupInv ==
    ASSUME NbrInv, Cleanup
    PROVE  NbrInv'
  <1>1. /\ pc[worker] = "cleanup" /\ pc' = [pc EXCEPT ![worker] = "result"]
        /\ blockpoint_cleanup(worker, "bl")
        /\ UNCHANGED <<reach, queue, neighbor_lock, nlock, at, todo, remaining, flag, contract>>
    BY DEF Cleanup, Goto, nbrVars
  <1>2. /\ TypeOK /\ BlockTypeOK /\ Locked /\ Quiet /\ Listed /\ Tested /\ Flagged /\ Served
    BY DEF NbrInv, TypeOK
  <1>3. /\ worker \in Thread /\ pc'[worker] = "result"
        /\ \A u \in Thread : pc'[u] \in Outside \/ pc[u] \in Outside => pc'[u] = pc[u]
        /\ pc' \in [Thread -> PC]
        /\ Waking' = Waking
    BY <1>1, WorkerStep, ZenonT(40) DEF PC, Outside
  <1>4. NoDuplicates(waitlist["bl"]) /\ Members(waitlist["bl"]) = {worker}
    BY <1>1, <1>2 DEF Listed
  <1>5. /\ BlockTypeOK' /\ NoDuplicates(waitlist'["bl"])
        /\ Members(waitlist'["bl"]) = {}
    <2>1. "bl" \in BlockList
      BY OneFlag
    <2>2. /\ BlockTypeOK' /\ NoDuplicates(waitlist'["bl"])
          /\ Members(waitlist'["bl"]) = Members(waitlist["bl"]) \ {worker}
      BY <1>1, <1>2, <1>3, <1>4, <2>1, CleanupLists
    <2>3. QED
      BY <1>4, <2>2, ZenonT(40)
  <1>6. UNCHANGED <<result, pending, signal>>
    BY <1>1, ZenonT(40) DEF blockpoint_cleanup
  <1>7. TypeOK'
    BY <1>1, <1>2, <1>3, <1>5, ZenonT(40) DEF TypeOK
  <1>8. Locked'
    BY <1>1, <1>2, <1>3, ZenonT(40) DEF Locked, Outside
  <1>9. Quiet' /\ Listed' /\ Tested'
    BY <1>1, <1>2, <1>3, <1>5, <1>6, ZenonT(40) DEF Quiet, Listed, Tested
  <1>10. contract' => flag' >= 1
    BY <1>1, <1>2, ZenonT(40) DEF Flagged
  <1>11. Flagged' /\ Served'
    BY <1>3, <1>10 DEF Flagged, Deciding, Served
  <1>12. QED
    BY <1>7, <1>8, <1>9, <1>11 DEF NbrInv

\* A timer tick changes nothing that the flag depends on.
LEMMA PreemptedInv ==
    ASSUME NbrInv, Preempted
    PROVE  NbrInv'
  <1>1. /\ pc[worker] \notin {"next", "dec_flag", "schedule", "cleanup"} /\ preempt(worker)
        /\ UNCHANGED <<reach, queue, neighbor_lock, nlock, at, todo, remaining, flag, pc, contract>>
    BY DEF Preempted, nbrVars
  <1>2. /\ TypeOK /\ BlockTypeOK /\ Locked /\ Quiet /\ Listed /\ Tested /\ Flagged /\ Served
        /\ worker \in Thread
    BY Threads DEF NbrInv, TypeOK
  <1>3. BlockTypeOK'
    BY <1>1, <1>2, StateTypes, ZenonT(40)
  <1>4. pending' = {} /\ signal' = {} /\ UNCHANGED <<state, waitlist, unblocked, result>>
    BY <1>1, <1>2 DEF preempt, check_signals, Quiet
  <1>5. Waking' = Waking
    BY <1>1, ZenonT(40) DEF Waking
  <1>6. TypeOK' /\ Locked'
    BY <1>1, <1>2, <1>3, <1>5, ZenonT(40) DEF TypeOK, Locked
  <1>7. Quiet' /\ Listed' /\ Tested'
    BY <1>1, <1>2, <1>4, ZenonT(40) DEF Quiet, Listed, Tested
  <1>8. Flagged'
    BY <1>1, <1>2, <1>4, ZenonT(40) DEF Flagged
  <1>9. Served'
    BY <1>1, <1>2, <1>5 DEF Served
  <1>10. QED
    BY <1>6, <1>7, <1>8, <1>9 DEF NbrInv

-----------------------------------------------------------------------------
(***************************************************************************)
(* Theorems.                                                               *)
(***************************************************************************)

\* The worker starts with a round, and the flag starts at 1 (sleepflag_create).
LEMMA InitInv ==
    Init => NbrInv
  <1> SUFFICES ASSUME Init PROVE NbrInv
    OBVIOUS
  <1>1. worker \in Thread /\ "bl" \in BlockList
    BY Threads, OneFlag
  <1>2. /\ pc[worker] = "scan" /\ flag = 1 /\ contract = TRUE
        /\ \A t \in Thread : pc[t] \in {"scan", "idle"}
    BY <1>1 DEF Init
  <1>3. BlockTypeOK
    BY DEF Init, BlockInit, BlockTypeOK, ThreadState, BlockResult
  <1>4. TypeOK
    <2>1. 0 \in 0..MaxQueue /\ 1 \in (-1)..MaxFlag
      BY Bounds
    <2>2. pc \in [Thread -> PC]
      BY DEF Init, PC
    <2>3. QED
      BY <1>3, <2>1, <2>2, ZenonT(40) DEF Init, TypeOK
  <1>5. Locked
    BY <1>2 DEF Locked, Waking
  <1>6. Quiet
    BY <1>1 DEF Init, BlockInit, Quiet
  <1>7. Listed
    <2>1. waitlist["bl"] = << >>
      BY <1>1 DEF Init, BlockInit
    <2>2. NoDuplicates(waitlist["bl"]) /\ Members(waitlist["bl"]) = {}
      BY <2>1 DEF NoDuplicates, Members
    <2>3. QED
      BY <1>2, <2>2 DEF Listed
  <1>8. Tested /\ Flagged /\ Served
    BY <1>2 DEF Tested, Flagged, Served, Deciding
  <1>9. QED
    BY <1>4, <1>5, <1>6, <1>7, <1>8 DEF NbrInv

\* Every step of the senders, the receivers and the worker keeps the invariant.
LEMMA NextInv ==
    NbrInv /\ [Next]_vars => NbrInv'
  <1> SUFFICES ASSUME NbrInv, [Next]_vars PROVE NbrInv'
    OBVIOUS
  <1>1. CASE Next
    <2>1. ASSUME NEW s \in Sender, NEW n \in Nbr, Establish(s, n) PROVE NbrInv'
      BY <2>1, EstablishInv, Threads
    <2>2. ASSUME NEW r \in Receiver, NEW n \in Nbr, Update(r, n) PROVE NbrInv'
      BY <2>2, UpdateInv, Threads
    <2>3. ASSUME NEW t \in Thread, CheckState(t) PROVE NbrInv'
      BY <2>3, CheckStateInv
    <2>4. ASSUME NEW t \in Thread, IncFlag(t) PROVE NbrInv'
      BY <2>4, IncFlagInv
    <2>5. ASSUME NEW t \in Thread, UnblockAll(t) PROVE NbrInv'
      BY <2>5, UnblockAllInv
    <2>6. CASE Scan
      BY <2>6, ScanInv
    <2>7. ASSUME NEW n \in Nbr, ScanOne(n) PROVE NbrInv'
      BY <2>7, ScanOneInv
    <2>8. CASE ScanEnd
      BY <2>8, ScanEndInv
    <2>9. CASE Sleep
      BY <2>9, SleepInv
    <2>10. CASE FlagAssert
      BY <2>10, FlagAssertInv
    <2>11. CASE Dec
      BY <2>11, DecInv
    <2>12. CASE StartBlock
      BY <2>12, StartBlockInv
    <2>13. CASE DecFlag
      BY <2>13, DecFlagInv
    <2>14. CASE Scheduled
      BY <2>14, ScheduledInv
    <2>15. CASE Cleanup
      BY <2>15, CleanupInv
    <2>16. CASE Result
      BY <2>16, ResultInv
    <2>17. CASE Preempted
      BY <2>17, PreemptedInv
    <2>18. QED
      BY <1>1, <2>1, <2>2, <2>3, <2>4, <2>5, <2>6, <2>7, <2>8, <2>9, <2>10, <2>11, <2>12, ZenonT(40),
         <2>13, <2>14, <2>15, <2>16, <2>17 DEF Next
  <1>2. CASE UNCHANGED vars
    <2>1. /\ UNCHANGED <<state, uninter, onqueue, waitlist, unblocked, result, pending, signal>>
          /\ UNCHANGED <<reach, queue, neighbor_lock, nlock, at, todo, remaining>>
          /\ UNCHANGED <<flag, pc, contract>>
      BY <1>2, ZenonT(40) DEF vars, blockVars, nbrVars
    <2>2. Waking' = Waking
      BY <2>1, ZenonT(40) DEF Waking
    <2>3. TypeOK'
      BY <2>1, ZenonT(40) DEF NbrInv, TypeOK, BlockTypeOK
    <2>4. Locked' /\ Quiet' /\ Listed' /\ Tested'
      BY <2>1, <2>2, ZenonT(40) DEF NbrInv, Locked, Quiet, Listed, Tested
    <2>5. Flagged' /\ Served'
      BY <2>1, <2>2, ZenonT(40) DEF NbrInv, Flagged, Served
    <2>6. QED
      BY <2>3, <2>4, <2>5, ZenonT(40) DEF NbrInv
  <1>3. QED
    BY <1>1, <1>2

\* The invariant of the neighbour worker and of those who wake it: who is
\* about to wake it holds a lock that it takes in each round, so that the flag
\* tells it of every packet behind it (ipv6.c:120-225, synchro.c).
THEOREM NeighborInductive == Spec => []NbrInv
  <1>1. Init => NbrInv
    BY InitInv
  <1>2. NbrInv /\ [Next]_vars => NbrInv'
    BY NextInv
  <1>3. QED
    BY <1>1, <1>2, PTL DEF Spec

\* For any number of senders, receivers and neighbours, and queues of any
\* length, the worker never sleeps over a packet that it could send, and the
\* flag of sleepflag_sleep is 0 only while it sleeps.
THEOREM WorkerServes == Spec => []NoPacketStuck
  <1>1. NbrInv => NoPacketStuck
    <2> SUFFICES ASSUME NbrInv PROVE NoPacketStuck
      OBVIOUS
    <2>1. TypeOK /\ Flagged /\ Served
      BY DEF NbrInv
    <2>2. flag \in Int /\ \A n \in Nbr : queue[n] \in Nat
      BY <2>1, Bounds DEF TypeOK
    <2>3. ZeroWhileAsleep
      <3> SUFFICES ASSUME contract, flag <= 0 PROVE flag = 0 /\ pc[worker] = "schedule"
        BY DEF ZeroWhileAsleep
      <3>1. flag >= IF pc[worker] = "schedule" THEN 0 ELSE 1
        BY <2>1 DEF Flagged
      <3>2. QED
        BY <2>2, <3>1
    <2>4. NoStuckPacket
      <3> SUFFICES ASSUME contract, pc[worker] = "schedule", worker \notin onqueue, Waking = {},
                          NEW n \in Nbr, reach[n] = "REACHABLE", queue[n] # 0
                   PROVE  FALSE
        BY DEF NoStuckPacket
      <3>1. queue[n] > 0
        BY <2>2
      <3>2. flag >= 1
        BY <2>1, <3>1 DEF Served, Deciding
      <3>3. \E t \in Thread : pc[t] = "unblock_all"
        BY <2>1, <3>2, ZenonT(40) DEF Flagged
      <3>4. QED
        BY <3>3 DEF Waking
    <2>5. QED
      BY <2>3, <2>4 DEF NoPacketStuck
  <1>2. QED
    BY <1>1, NeighborInductive, PTL
=============================================================================
