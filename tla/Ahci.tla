-------------------------------- MODULE Ahci --------------------------------
(***************************************************************************)
(* Block devices: the block cache and the request path of kernel/block.c,  *)
(* over the AHCI driver (drivers/ahci) with one port.                      *)
(*                                                                         *)
(* Threads read and write single blocks.  A read that misses the cache     *)
(* makes a request, which the driver puts in a command slot; the device    *)
(* (external) completes commands in any order and raises an interrupt.     *)
(* dev->lock is a spinlock: handle_req is one step, and the interrupt      *)
(* handler, which the device overtakes, one step per slot it looks at.     *)
(* Threads that wait do so uninterruptibly, so a thread in schedule()      *)
(* comes back exactly when its state is RUNNING (module Blocklist).        *)
(***************************************************************************)
EXTENDS Integers, Sequences, SequencesExt, FiniteSets

CONSTANTS
    Thread,     \* the callers of block_read and block_write
    NSlots,     \* command slots of the port (32 in the code)
    Block,      \* block numbers that are read and written, a set of naturals
    EndBlk,     \* identify.lba48_addressable_sectors
    MaxCalls,   \* bound: calls of each thread
    MayHang,    \* whether the port may stay busy until a timeout
    NULL

VARIABLES
    port,       \* how far the probe of the port has come
    cache,      \* bd->cache: what it holds for each block, NULL for nothing
    calls,      \* calls made by each thread, for the bound
    pc,         \* where each thread is in block_read
    block,      \* its argument start
    keep,       \* its argument cache
    running,    \* threads with state THREADSTATE_RUNNING
    req,        \* the requests: start, ret_count, references, on req->wait, filled
    slots,      \* dev->slots
    req_slots,  \* dev->req_slots
    wait,       \* dev->wait, the longest waiting thread first
    woken,      \* threads whose blockpoint on dev->wait has BLOCK_UNBLOCKED
    issued,     \* port->command_issue: the commands the device works on
    intr,       \* port->interrupt_status
    scan,       \* the slot ahci_check_eot looks at next, NULL outside of it
    release,    \* its local of that name
    panicked    \* an assertion failed or panic() was called

vars == <<port, cache, calls, pc, block, keep, running, req, slots, req_slots,
          wait, woken, issued, intr, scan, release, panicked>>
threadVars == <<cache, calls, pc, block, keep, running, req, wait, woken>>
deviceVars == <<slots, req_slots, issued, intr, scan, release>>

Slot == 0 .. NSlots - 1

\* The request of the n-th call of thread t.
Req == Thread \X (1 .. MaxCalls)
Current(t) == <<t, calls[t]>>

\* struct request; refs = 0 when it is free.  "filled" is history: the device
\* has written the buffer.
NoRequest == [start |-> 0, ret |-> 0, refs |-> 0, waiting |-> FALSE, filled |-> FALSE]

AhciInit ==
    /\ port = "off"
    /\ cache = [b \in Block |-> NULL]
    /\ calls = [t \in Thread |-> 0]
    /\ pc = [t \in Thread |-> "idle"]
    /\ block = [t \in Thread |-> 0]
    /\ keep = [t \in Thread |-> FALSE]
    /\ running = Thread
    /\ req = [r \in Req |-> NoRequest]
    /\ slots = {}
    /\ req_slots = [s \in Slot |-> NULL]
    /\ wait = << >>
    /\ woken = {}
    /\ issued = {}
    /\ intr = FALSE
    /\ scan = NULL
    /\ release = FALSE
    /\ panicked = FALSE

-----------------------------------------------------------------------------
(***************************************************************************)
(* Bringing the port up: _ahci_init_device.                                *)
(***************************************************************************)

\* ahci_init_hba, after the interrupt handler is registered.
ahci_init_hba ==
    /\ port = "off"
    /\ port' = "hba"
    /\ UNCHANGED <<threadVars, deviceVars, panicked>>

\* ahci_check_type: the link of an implemented port is up, or the port is left.
ahci_check_type(up) ==
    /\ port = "hba"
    /\ port' = IF up THEN "probed" ELSE "disabled"
    /\ UNCHANGED <<threadVars, deviceVars, panicked>>

\* ahci_initialize_device up to the first wait of ahci_device_identify_ahci:
\* the driver's tables are cleared and the engine started.
ahci_initialize_device ==
    /\ port = "probed"
    /\ port' = "started"
    /\ req_slots' = [s \in Slot |-> NULL]
    /\ slots' = {}
    /\ intr' = FALSE
    /\ UNCHANGED <<threadVars, issued, scan, release, panicked>>

\* ahci_device_identify_ahci sends its command in slot 0, which it does not
\* acquire, and polls command_issue; each of the two waits may time out.
ahci_device_identify_send ==
    /\ port = "started"
    /\ \/ port' = "identify" /\ issued' = issued \cup {0}
       \/ MayHang /\ port' = "disabled" /\ UNCHANGED issued
    /\ UNCHANGED <<threadVars, slots, req_slots, intr, scan, release, panicked>>

\* The rest of it, and ahci_create_device.
ahci_device_identify_done ==
    /\ port = "identify"
    /\ \/ 0 \notin issued /\ port' = "ready"
       \/ 0 \in issued /\ MayHang /\ port' = "disabled"
    /\ UNCHANGED <<threadVars, deviceVars, panicked>>

-----------------------------------------------------------------------------
(***************************************************************************)
(* The driver: handle_req.                                                 *)
(***************************************************************************)

FreeSlots == Slot \ slots
LowestFree == CHOOSE s \in FreeSlots : \A o \in FreeSlots : s <= o

\* kobj_getref for the slot.
Getref(r) == req' = [req EXCEPT ![r].refs = @ + 1]

\* ahci_port_dma_data_transfer: the command is written and issued ...
Send(r, s) ==
    /\ req_slots' = [req_slots EXCEPT ![s] = r]
    /\ slots' = slots \cup {s}
    /\ issued' = issued \cup {s}
    /\ UNCHANGED intr

\* ... or the port stays busy: ahci_reset_device stops the engine, which drops
\* every command, and clears dev->slots but not dev->req_slots.
SendHung(r, s) ==
    /\ MayHang
    /\ req_slots' = [req_slots EXCEPT ![s] = r]
    /\ slots' = {}
    /\ issued' = {}
    /\ intr' = FALSE

\* handle_req once a slot has been acquired; the caller goes on at next.
HaveSlot(t, next) ==
    LET s == LowestFree
        r == Current(t) IN
    /\ FreeSlots # {}
    /\ IF req_slots[s] # NULL
       THEN panicked' = TRUE /\ UNCHANGED <<req, req_slots, slots, issued, intr, pc>>
       ELSE /\ Getref(r)
            /\ Send(r, s) \/ SendHung(r, s)
            /\ pc' = [pc EXCEPT ![t] = next]
            /\ UNCHANGED panicked
    /\ UNCHANGED <<port, cache, calls, block, keep, scan, release>>

\* ahci_port_acquire_slot finds none: it blocks on dev->wait and lets the lock
\* go.  The blockpoint was created before the loop, so BLOCK_UNBLOCKED of an
\* earlier round stays set.
WaitForSlot(t, asleep) ==
    /\ FreeSlots = {}
    /\ wait' = Append(wait, t)
    /\ running' = running \ {t}
    /\ pc' = [pc EXCEPT ![t] = asleep]
    /\ UNCHANGED <<port, cache, calls, block, keep, req, woken, slots, req_slots,
                   issued, intr, scan, release, panicked>>

\* handle_req, called from __do_request at pc "from".
handle_req(t, from, asleep, next) ==
    /\ pc[t] = from
    /\ \/ /\ block[t] >= EndBlk
          /\ pc' = [pc EXCEPT ![t] = next]
          /\ UNCHANGED <<port, cache, calls, block, keep, running, req, wait, woken,
                         deviceVars, panicked>>
       \/ /\ block[t] < EndBlk /\ scan = NULL
          /\ HaveSlot(t, next)
          /\ UNCHANGED <<running, wait, woken>>
       \/ /\ block[t] < EndBlk /\ scan = NULL
          /\ WaitForSlot(t, asleep)

\* schedule() in ahci_port_acquire_slot returns, the blockpoint is cleaned up
\* (the thread is RUNNING, whatever other list it is on), and the loop goes
\* round with the lock held.
acquire_slot_again(t, asleep, next) ==
    /\ pc[t] = asleep /\ t \in running /\ scan = NULL
    /\ IF FreeSlots # {}
       THEN /\ HaveSlot(t, next)
            /\ wait' = Remove(wait, t)
            /\ woken' = woken \ {t}
            /\ UNCHANGED running
       ELSE /\ wait' = Append(Remove(wait, t), t)
            /\ running' = running \ {t}
            /\ UNCHANGED <<port, cache, calls, pc, block, keep, req, woken,
                           deviceVars, panicked>>

-----------------------------------------------------------------------------
(***************************************************************************)
(* The device (external), and the interrupt handler.                       *)
(***************************************************************************)

\* The device finishes a command: the data is in the buffer, the bit of
\* command_issue clears and the port's interrupt status is set.
Complete(s) ==
    /\ s \in issued
    /\ issued' = issued \ {s}
    /\ intr' = TRUE
    /\ req' = IF req_slots[s] = NULL THEN req
              ELSE [req EXCEPT ![req_slots[s]].filled = TRUE]
    /\ UNCHANGED <<port, cache, calls, pc, block, keep, running, wait, woken, slots,
                   req_slots, scan, release, panicked>>

\* ahci_interrupt_handler takes dev->lock and calls ahci_check_eot.
ahci_interrupt_handler ==
    /\ port # "off"
    /\ intr /\ scan = NULL
    /\ scan' = 0
    /\ release' = FALSE
    /\ UNCHANGED <<port, threadVars, slots, req_slots, issued, intr, panicked>>

\* Mutant: without the test of command_issue.
Finished_Slot(s) == s \in slots /\ req_slots[s] # NULL

\* The test of ahci_check_eot.
Finished(s) == s \in slots /\ s \notin issued /\ req_slots[s] # NULL

\* One round of ahci_check_eot: a finished request is completed, everyone
\* waiting for it woken, and the slot freed.
ahci_check_eot ==
    /\ scan \in Slot
    /\ scan' = scan + 1
    /\ IF Finished(scan)
       THEN LET r == req_slots[scan] IN
            /\ req' = [req EXCEPT ![r].ret = 1, ![r].refs = @ - 1]
            /\ running' = IF req[r].waiting THEN running \cup {r[1]} ELSE running
            /\ req_slots' = [req_slots EXCEPT ![scan] = NULL]
            /\ slots' = slots \ {scan}
            /\ release' = TRUE
       ELSE UNCHANGED <<req, running, req_slots, slots, release>>
    /\ UNCHANGED <<port, cache, calls, pc, block, keep, wait, woken, issued, intr, panicked>>

\* The threads on dev->wait that blocklist_unblock_one can wake.
Wakeable == SelectSeq(wait, LAMBDA t : t \notin woken)

\* After the last slot: one thread waiting for a slot is woken if any was
\* freed, the interrupt status is cleared, the lock released.
ahci_interrupt_end ==
    /\ scan = NSlots
    /\ scan' = NULL
    /\ release' = FALSE
    /\ intr' = FALSE
    /\ IF release /\ Wakeable # << >>
       THEN /\ woken' = woken \cup {Head(Wakeable)}
            /\ running' = running \cup {Head(Wakeable)}
       ELSE UNCHANGED <<woken, running>>
    /\ UNCHANGED <<port, cache, calls, pc, block, keep, req, wait, slots, req_slots,
                   issued, panicked>>

-----------------------------------------------------------------------------
(***************************************************************************)
(* kernel/block.c.                                                         *)
(***************************************************************************)

\* block_read: block_cache_read, and on a miss the request of __do_request.
block_read(t, b, c) ==
    /\ port = "ready"
    /\ pc[t] = "idle" /\ calls[t] < MaxCalls
    /\ calls' = [calls EXCEPT ![t] = @ + 1]
    /\ IF cache[b] # NULL
       THEN UNCHANGED <<pc, block, keep, req>>
       ELSE /\ pc' = [pc EXCEPT ![t] = "first"]
            /\ block' = [block EXCEPT ![t] = b]
            /\ keep' = [keep EXCEPT ![t] = c]
            /\ req' = [req EXCEPT ![<<t, calls[t] + 1>>] =
                          [NoRequest EXCEPT !.start = b, !.ret = -1, !.refs = 1]]
    /\ UNCHANGED <<port, cache, running, wait, woken, deviceVars, panicked>>

\* __do_request: blockpoint_startblock on req->wait.
start_wait(t) ==
    /\ pc[t] = "start"
    /\ pc' = [pc EXCEPT ![t] = "check"]
    /\ running' = running \ {t}
    /\ req' = [req EXCEPT ![Current(t)].waiting = TRUE]
    /\ UNCHANGED <<port, cache, calls, block, keep, wait, woken, deviceVars, panicked>>

\* The request is issued a second time unless it has been answered.
AfterStart(t) == IF req[Current(t)].ret = -1 THEN "second" ELSE "cleanup"

check_answer(t) ==
    /\ pc[t] = "check"
    /\ pc' = [pc EXCEPT ![t] = AfterStart(t)]
    /\ UNCHANGED <<port, cache, calls, block, keep, running, req, wait, woken,
                   deviceVars, panicked>>

\* schedule() returns (at "sched"), blockpoint_cleanup, the assertion on
\* ret_count, kobj_putref; then block_cache_write if the caller asked for it.
end_wait(t) ==
    /\ \/ pc[t] = "cleanup"
       \/ pc[t] = "sched" /\ t \in running
    /\ IF req[Current(t)].ret = -1
       THEN panicked' = TRUE /\ UNCHANGED <<pc, block, keep, req, running>>
       ELSE /\ running' = running \cup {t}
            /\ req' = [req EXCEPT ![Current(t)].waiting = FALSE,
                                  ![Current(t)].refs = @ - 1]
            /\ pc' = [pc EXCEPT ![t] = IF keep[t] THEN "cache" ELSE "idle"]
            /\ block' = IF keep[t] THEN block ELSE [block EXCEPT ![t] = 0]
            /\ keep' = [keep EXCEPT ![t] = FALSE]
            /\ UNCHANGED panicked
    /\ UNCHANGED <<port, cache, calls, wait, woken, deviceVars>>

block_cache_write(t) ==
    /\ pc[t] = "cache"
    /\ cache' = [cache EXCEPT ![block[t]] = "disk"]
    /\ pc' = [pc EXCEPT ![t] = "idle"]
    /\ block' = [block EXCEPT ![t] = 0]
    /\ UNCHANGED <<port, calls, keep, running, req, wait, woken, deviceVars, panicked>>

\* block_write puts the data in the cache, and nowhere else.
block_write(t, b) ==
    /\ port = "ready"
    /\ pc[t] = "idle" /\ calls[t] < MaxCalls
    /\ calls' = [calls EXCEPT ![t] = @ + 1]
    /\ cache' = [cache EXCEPT ![b] = "written"]
    /\ UNCHANGED <<port, pc, block, keep, running, req, wait, woken, deviceVars, panicked>>

AhciNext ==
    /\ ~panicked
    /\ \/ ahci_init_hba
       \/ \E up \in BOOLEAN : ahci_check_type(up)
       \/ ahci_initialize_device
       \/ ahci_device_identify_send
       \/ ahci_device_identify_done
       \/ \E s \in Slot : Complete(s)
       \/ ahci_interrupt_handler
       \/ ahci_check_eot
       \/ ahci_interrupt_end
       \/ \E t \in Thread :
            \/ \E b \in Block, c \in BOOLEAN : block_read(t, b, c)
            \/ handle_req(t, "first", "noslot1", "start")
            \/ acquire_slot_again(t, "noslot1", "start")
            \/ start_wait(t)
            \/ check_answer(t)
            \/ handle_req(t, "second", "noslot2", "sched")
            \/ acquire_slot_again(t, "noslot2", "sched")
            \/ end_wait(t)
            \/ block_cache_write(t)
            \/ \E b \in Block : block_write(t, b)

AhciSpec == AhciInit /\ [][AhciNext]_vars

-----------------------------------------------------------------------------
(***************************************************************************)
(* Properties.                                                             *)
(***************************************************************************)

\* A command the device works on belongs to a slot that is taken and to a
\* request that cannot be freed: every slot that names a request holds one of
\* its references, its waiter another, and there are no more.
CommandOwned ==
    /\ port = "ready" => \A s \in issued : s \in slots /\ req_slots[s] # NULL
    /\ \A r \in Req :
          req[r].refs = Cardinality({s \in Slot : req_slots[s] = r})
                        + (IF Current(r[1]) = r /\ pc[r[1]] \notin {"idle", "cache"}
                           THEN 1 ELSE 0)

\* A request that has its answer has its data: ret_count is set, and a reader
\* goes on to use the buffer, only after the device has written it.
AnsweredMeansFilled ==
    \A r \in Req : req[r].refs > 0 /\ req[r].ret = 1 => req[r].filled

\* The panic "failed to wait for request" and the assertion after it
\* (block.c:163-166), and the assertion that a free slot names no request
\* (main.c:142), are never reached.
RequestWaitedFor == ~panicked
=============================================================================
