------------------------------ MODULE Neighbor -------------------------------
(***************************************************************************)
(* Sending to IPv6 neighbours, kernel/net/ipv6.c, and the sleep flag of    *)
(* kernel/synchro.c with which its worker thread waits.                    *)
(*                                                                         *)
(* A sender that finds its neighbour not reachable yet queues the packet;  *)
(* the packet-receiving thread marks neighbours reachable; the worker      *)
(* sends the queued packets of reachable neighbours.  Both wake the worker *)
(* through the flag, which is 1 at rest, one more for each wake-up that    *)
(* came while the worker was busy, and 0 while the worker sleeps.          *)
(***************************************************************************)
EXTENDS Blocklist, Integers, FiniteSets

CONSTANTS
    worker,             \* the thread of _ipv6_worker_main
    Sender, Receiver,   \* threads that send packets, and that receive them
    Nbr,                \* the neighbours
    NULL,               \* a lock that is free, or no neighbour
    MaxQueue,           \* bound: packets waiting for one neighbour
    MaxFlag             \* bound: wake-ups that the worker has not seen yet

ASSUME Threads == Thread = {worker} \cup Sender \cup Receiver
ASSUME OneFlag == BlockList = {"bl"}
ASSUME NoHolder == NULL \notin Thread \cup Nbr
ASSUME Bounds == MaxQueue \in Nat /\ MaxFlag \in Nat \ {0}

VARIABLES
    reach,          \* n->reachability, or NONE when there is no such neighbour
    queue,          \* n->queue.count
    flag,           \* worker_work.flag
    neighbor_lock,  \* the thread that holds neighbor_lock
    nlock,          \* the thread that holds n->lock, for each n
    at,             \* the neighbour each thread works on
    todo,           \* the neighbours the worker's iteration has not visited
    remaining,      \* the variable of the worker's iteration
    pc,
    contract        \* schedule() has only returned to unblocked threads so far

nbrVars == <<reach, queue, neighbor_lock, nlock, at, todo, remaining>>
vars == <<blockVars, nbrVars, flag, pc, contract>>

PC == {"idle", "check", "inc_flag", "unblock_all", "scan", "next", "sleep", "assert",
       "dec", "startblock", "dec_flag", "schedule", "cleanup", "result", "panic"}

TypeOK ==
    /\ BlockTypeOK
    /\ reach \in [Nbr -> {"NONE", "INCOMPLETE", "REACHABLE"}]
    /\ queue \in [Nbr -> 0..MaxQueue]
    /\ flag \in (-1)..MaxFlag
    /\ neighbor_lock \in Thread \cup {NULL}
    /\ nlock \in [Nbr -> Thread \cup {NULL}]
    /\ at \in [Thread -> Nbr \cup {NULL}]
    /\ todo \subseteq Nbr
    /\ remaining \in BOOLEAN
    /\ pc \in [Thread -> PC]
    /\ contract \in BOOLEAN

Init ==
    /\ BlockInit
    /\ reach = [n \in Nbr |-> "NONE"]
    /\ queue = [n \in Nbr |-> 0]
    /\ flag = 1
    /\ neighbor_lock = NULL
    /\ nlock = [n \in Nbr |-> NULL]
    /\ at = [t \in Thread |-> NULL]
    /\ todo = {}
    /\ remaining = FALSE
    /\ pc = [t \in Thread |-> IF t = worker THEN "scan" ELSE "idle"]
    /\ contract = TRUE

Goto(t, from, to) ==
    /\ pc[t] = from
    /\ pc' = [pc EXCEPT ![t] = to]

-----------------------------------------------------------------------------
(***************************************************************************)
(* Senders: ipv6_establish_neighbor and ipv6_neighbor_check_state.         *)
(***************************************************************************)

\* The lookup in the hash, inside neighbor_lock.
Establish(s, n) ==
    /\ s \in Sender
    /\ Goto(s, "idle", "check")
    /\ neighbor_lock = NULL
    /\ reach' = [reach EXCEPT ![n] = IF @ = "NONE" THEN "INCOMPLETE" ELSE @]
    /\ at' = [at EXCEPT ![s] = n]
    /\ UNCHANGED <<blockVars, queue, neighbor_lock, nlock, todo, remaining, flag, contract>>

\* A packet to a reachable neighbour is sent by the caller; any other one is
\* queued, and the worker is woken with n->lock still held.
CheckState(s) ==
    LET n == at[s] IN
    /\ pc[s] = "check"
    /\ nlock[n] = NULL
    /\ IF reach[n] = "REACHABLE"
       THEN Goto(s, "check", "idle") /\ UNCHANGED <<queue, nlock>>
       ELSE /\ Goto(s, "check", "inc_flag")
            /\ queue[n] < MaxQueue
            /\ queue' = [queue EXCEPT ![n] = @ + 1]
            /\ nlock' = [nlock EXCEPT ![n] = s]
    /\ UNCHANGED <<blockVars, reach, neighbor_lock, at, todo, remaining, flag, contract>>

-----------------------------------------------------------------------------
(***************************************************************************)
(* Receivers: ipv6_neighbor_update, which icmp6 only calls with REACHABLE. *)
(***************************************************************************)

Update(r, n) ==
    /\ r \in Receiver
    /\ Goto(r, "idle", "inc_flag")
    /\ neighbor_lock = NULL
    /\ nlock[n] = NULL
    /\ neighbor_lock' = r
    /\ reach' = [reach EXCEPT ![n] = "REACHABLE"]
    /\ UNCHANGED <<blockVars, queue, nlock, at, todo, remaining, flag, contract>>

-----------------------------------------------------------------------------
(***************************************************************************)
(* sleepflag_wake                                                          *)
(***************************************************************************)

IncFlag(t) ==
    /\ Goto(t, "inc_flag", "unblock_all")
    /\ flag < MaxFlag
    /\ flag' = flag + 1
    /\ UNCHANGED <<blockVars, nbrVars, contract>>

\* blocklist_unblock_all, and the release of the lock that the caller holds.
UnblockAll(t) ==
    /\ Goto(t, "unblock_all", "idle")
    /\ blocklist_unblock_all("bl")
    /\ neighbor_lock' = IF neighbor_lock = t THEN NULL ELSE neighbor_lock
    /\ nlock' = [n \in Nbr |-> IF nlock[n] = t THEN NULL ELSE nlock[n]]
    /\ UNCHANGED <<reach, queue, at, todo, remaining, flag, contract>>

-----------------------------------------------------------------------------
(***************************************************************************)
(* The worker: _ipv6_worker_main                                           *)
(***************************************************************************)

Scan ==
    /\ Goto(worker, "scan", "next")
    /\ neighbor_lock = NULL
    /\ neighbor_lock' = worker
    /\ todo' = {n \in Nbr : reach[n] # "NONE"}
    /\ remaining' = FALSE
    /\ UNCHANGED <<blockVars, reach, queue, nlock, at, flag, contract>>

\* At most one packet of each reachable neighbour is sent in a round.
ScanOne(n) ==
    /\ Goto(worker, "next", "next")
    /\ n \in todo
    /\ nlock[n] = NULL
    /\ todo' = todo \ {n}
    /\ IF reach[n] = "REACHABLE" /\ queue[n] > 0
       THEN /\ queue' = [queue EXCEPT ![n] = @ - 1]
            /\ remaining' = (remaining \/ queue[n] > 1)
       ELSE UNCHANGED <<queue, remaining>>
    /\ UNCHANGED <<blockVars, reach, neighbor_lock, nlock, at, flag, contract>>

ScanEnd ==
    /\ todo = {}
    /\ Goto(worker, "next", IF remaining THEN "scan" ELSE "sleep")
    /\ neighbor_lock' = NULL
    /\ UNCHANGED <<blockVars, reach, queue, nlock, at, todo, remaining, flag, contract>>

-----------------------------------------------------------------------------
(***************************************************************************)
(* sleepflag_sleep                                                         *)
(***************************************************************************)

Sleep ==
    /\ Goto(worker, "sleep", IF flag >= 2 THEN "dec" ELSE "assert")
    /\ UNCHANGED <<blockVars, nbrVars, flag, contract>>

FlagAssert ==
    /\ Goto(worker, "assert", IF flag >= 0 THEN "startblock" ELSE "panic")
    /\ UNCHANGED <<blockVars, nbrVars, flag, contract>>

Dec ==
    /\ Goto(worker, "dec", "scan")
    /\ flag' = flag - 1
    /\ UNCHANGED <<blockVars, nbrVars, contract>>

StartBlock ==
    /\ Goto(worker, "startblock", "dec_flag")
    /\ blockpoint_startblock(worker, "bl", {})
    /\ UNCHANGED <<nbrVars, flag, contract>>

\* Mutant: sleepflag_sleep that sleeps even if a wake-up came meanwhile.
DecFlag_AlwaysSleeps ==
    /\ Goto(worker, "dec_flag", "schedule")
    /\ flag' = flag - 1
    /\ UNCHANGED <<blockVars, nbrVars, contract>>

DecFlag ==
    /\ Goto(worker, "dec_flag", IF flag - 1 = 0 THEN "schedule" ELSE "cleanup")
    /\ flag' = flag - 1
    /\ UNCHANGED <<blockVars, nbrVars, contract>>

Scheduled ==
    /\ Goto(worker, "schedule", "cleanup")
    /\ schedule(worker)
    /\ contract' = (contract /\ state[worker] = "RUNNING")
    /\ UNCHANGED <<nbrVars, flag>>

Cleanup ==
    /\ Goto(worker, "cleanup", "result")
    /\ blockpoint_cleanup(worker, "bl")
    /\ UNCHANGED <<nbrVars, flag, contract>>

\* The end of sleepflag_sleep; nobody sends signals to the worker.
Result ==
    /\ Goto(worker, "result", "scan")
    /\ flag' = IF CleanupResult(worker, {}) \in {"UNBLOCKED", "BLOCKED"}
               THEN flag ELSE flag + 1
    /\ UNCHANGED <<blockVars, nbrVars, contract>>

\* A timer tick, which does nothing while a spinlock or startblock forbids it.
Preempted ==
    /\ pc[worker] \notin {"next", "dec_flag", "schedule", "cleanup"}
    /\ preempt(worker)
    /\ UNCHANGED <<nbrVars, flag, pc, contract>>

-----------------------------------------------------------------------------
Next ==
    \/ \E s \in Sender, n \in Nbr : Establish(s, n)
    \/ \E r \in Receiver, n \in Nbr : Update(r, n)
    \/ \E t \in Thread : CheckState(t) \/ IncFlag(t) \/ UnblockAll(t)
    \/ Scan \/ (\E n \in Nbr : ScanOne(n)) \/ ScanEnd
    \/ Sleep \/ FlagAssert \/ Dec \/ StartBlock \/ DecFlag \/ Scheduled \/ Cleanup \/ Result
    \/ Preempted

Spec == Init /\ [][Next]_vars

-----------------------------------------------------------------------------
(***************************************************************************)
(* Properties.                                                             *)
(***************************************************************************)

\* Threads that are about to wake the worker.
Waking == {t \in Thread : pc[t] \in {"inc_flag", "unblock_all"}}

\* The worker never sleeps over a packet that it could send: if it is asleep
\* with nothing on its way to wake it, no reachable neighbour has packets
\* queued.  This holds as long as schedule() keeps the promise of
\* doc/blockpoint.txt to return only to threads that were unblocked.
NoStuckPacket ==
    /\ contract
    /\ pc[worker] = "schedule" /\ worker \notin onqueue /\ Waking = {}
    => \A n \in Nbr : reach[n] = "REACHABLE" => queue[n] = 0

\* As long as schedule() keeps that promise, the flag is 0 only from the
\* decrement of the worker to the wake-up that undoes it, so that the
\* assertion of sleepflag_sleep holds.
ZeroWhileAsleep ==
    contract /\ flag <= 0 => flag = 0 /\ pc[worker] = "schedule"

\* What the sleep flag promises (ipv6.c:120-225, synchro.c).
NoPacketStuck == NoStuckPacket /\ ZeroWhileAsleep

-----------------------------------------------------------------------------
(***************************************************************************)
(* The inductive invariant.                                                *)
(***************************************************************************)

\* Who is about to wake the worker holds a lock that the worker takes in each
\* round: neighbor_lock, or that of a neighbour in the hash.
Locked ==
    /\ pc[worker] = "next" => neighbor_lock = worker
    /\ pc[worker] \notin {"idle", "check", "inc_flag", "unblock_all"}
    /\ \A t \in Thread :
          /\ pc[t] = "check" => at[t] \in Nbr /\ reach[at[t]] # "NONE"
          /\ t \in Waking => \/ neighbor_lock = t
                             \/ at[t] \in Nbr /\ nlock[at[t]] = t /\ reach[at[t]] # "NONE"

\* Nobody sends signals to the worker, and its blockpoint has no timeout.
Quiet == pending = {} /\ signal = {} /\ result[worker] \in {"BLOCKED", "UNBLOCKED"}

\* The worker is on the wait list from startblock to cleanup, and in the run
\* queue when it was unblocked there.
Listed ==
    /\ NoDuplicates(waitlist["bl"])
    /\ Members(waitlist["bl"]) =
          IF pc[worker] \in {"dec_flag", "schedule", "cleanup"} THEN {worker} ELSE {}
    /\ pc[worker] \in {"dec_flag", "schedule"} /\ worker \in unblocked => worker \in onqueue

\* The flag between the tests of sleepflag_sleep and the decrements.
Tested ==
    /\ pc[worker] = "dec" => flag >= 2
    /\ pc[worker] \in {"startblock", "dec_flag"} => flag >= 0

\* The steps from the end of a round to the decision to sleep.
Deciding == {"sleep", "assert", "startblock", "dec_flag"}

\* Until the worker has decided to sleep, the flag is above 1 when somebody
\* increased it in, or after, the worker's last round and is about to unblock
\* the worker: all others wait for a lock until the worker's next round.
Flagged == contract =>
    /\ pc[worker] # "panic"
    /\ flag >= IF pc[worker] = "schedule" THEN 0 ELSE 1
    /\ \A t \in Thread : pc[t] = "unblock_all" =>
          /\ pc[worker] \in Deciding => flag >= 2
          /\ pc[worker] = "next" /\ at[t] \notin todo => flag >= 2
          /\ pc[worker] = "schedule" => flag >= 1
    /\ state[worker] = "RUNNING" =>
          /\ pc[worker] = "dec_flag" => flag >= 2
          /\ pc[worker] = "schedule" => flag >= 1
    /\ pc[worker] = "schedule" /\ flag >= 1 =>
          worker \in onqueue \/ \E t \in Thread : pc[t] = "unblock_all"

\* A packet that can be sent is ahead of the worker in its round, or the worker
\* will do another round.
Served == contract => \A n \in Nbr : reach[n] = "REACHABLE" /\ queue[n] > 0 =>
    \/ pc[worker] \in {"scan", "dec", "cleanup", "result"}
    \/ pc[worker] = "next" /\ (n \in todo \/ remaining)
    \/ pc[worker] \in Deciding /\ (Waking # {} \/ flag >= 2)
    \/ pc[worker] = "schedule" /\ (Waking # {} \/ flag >= 1)

NbrInv == TypeOK /\ Locked /\ Quiet /\ Listed /\ Tested /\ Flagged /\ Served
=============================================================================
