------------------------------- MODULE MCNet -------------------------------
(***************************************************************************)
(* The network for TLC: the neighbour cache with its worker (module        *)
(* Neighbor, which this one extends), TCP, unix sockets, and the path of   *)
(* a frame from the driver to the sockets, each checked on its own in one  *)
(* run. "which" names the part that moves; the variables of the others     *)
(* keep a dummy value.                                                     *)
(***************************************************************************)
EXTENDS Neighbor, TLC

CONSTANTS s1, s2, r1

VARIABLES which, sock, bound, conns, pend, est, wire, user, sent, got, overrun,
    dups, con, named, taken, asleep, woken, msgs, ring, head, tail, rx_cur, irq,
    rxpending, worker_, found, free, used, packets, lost, bindings, inq, nqueue,
    reachable, router, frames, accepted, recvd, panicked

allvars == <<which, state, uninter, onqueue, waitlist, unblocked, result, pending,
    signal, reach, queue, flag, neighbor_lock, nlock, at, todo, remaining, pc,
    contract, sock, bound, conns, pend, est, wire, user, sent, got, overrun, dups,
    con, named, taken, asleep, woken, msgs, ring, head, tail, rx_cur, irq,
    rxpending, worker_, found, free, used, packets, lost, bindings, inq, nqueue,
    reachable, router, frames, accepted, recvd, panicked>>

\* More bytes than the window holds.
T1 == INSTANCE Tcp WITH W <- 2, MaxBytes <- 3, MaxReply <- 0, MaxDup <- 0, MaxCalls <- 1, Closes <- {}
\* A segment may come twice, and the client may close.
T2 == INSTANCE Tcp WITH W <- 2, MaxBytes <- 1, MaxReply <- 0, MaxDup <- 1, MaxCalls <- 1, Closes <- {"c"}
\* Every socket may be closed, and connected or accepted again.
T3 == INSTANCE Tcp WITH W <- 1, MaxBytes <- 1, MaxReply <- 0, MaxDup <- 0, MaxCalls <- 2,
          Closes <- {"c", "s", "l"}
\* The server answers.
T4 == INSTANCE Tcp WITH W <- 1, MaxBytes <- 1, MaxReply <- 1, MaxDup <- 0, MaxCalls <- 1, Closes <- {}

\* Two clients and two servers of one socket.
U == INSTANCE Unix WITH Client <- {"c1", "c2"}, Server <- {"s1", "s2"}, Cap <- 1, MaxMsgs <- 1

\* Two raw sockets get a copy of each ICMP packet.
P1 == INSTANCE Packets WITH Udp <- {}, Raw <- {"r1", "r2"}, Port <- {1}, Kind <- {"echo", "router"},
          NDesc <- 2, MaxFrames <- 2, MaxCalls <- 1, Rebind <- FALSE, worker <- worker_
\* A socket of each type, and neighbour discovery.
P2 == INSTANCE Packets WITH Udp <- {"u1"}, Raw <- {"r1"}, Port <- {1}, Kind <- {"udp", "solicit", "advert"},
          NDesc <- 2, MaxFrames <- 2, MaxCalls <- 1, Rebind <- FALSE, worker <- worker_
\* Two sockets and two ports, and frames that no socket gets.
P3 == INSTANCE Packets WITH Udp <- {"u1", "u2"}, Raw <- {}, Port <- {1, 2}, Kind <- {"udp", "tcp", "other", "unknown"},
          NDesc <- 2, MaxFrames <- 1, MaxCalls <- 2, Rebind <- FALSE, worker <- worker_
\* More frames than descriptors.
P4 == INSTANCE Packets WITH Udp <- {"u1"}, Raw <- {}, Port <- {1}, Kind <- {"udp"},
          NDesc <- 3, MaxFrames <- 4, MaxCalls <- 4, Rebind <- FALSE, worker <- worker_

\* Only the variables of Neighbor are in use.
OnlyNeighbor == sock = NULL /\ bound = NULL /\ conns = NULL /\ pend = NULL /\
    est = NULL /\ wire = NULL /\ user = NULL /\ sent = NULL /\ got = NULL /\
    overrun = NULL /\ dups = NULL /\ con = NULL /\ named = NULL /\ taken = NULL /\
    asleep = NULL /\ woken = NULL /\ msgs = NULL /\ ring = NULL /\ head = NULL /\
    tail = NULL /\ rx_cur = NULL /\ irq = NULL /\ rxpending = NULL /\
    worker_ = NULL /\ found = NULL /\ free = NULL /\ used = NULL /\
    packets = NULL /\ lost = NULL /\ bindings = NULL /\ inq = NULL /\
    nqueue = NULL /\ reachable = NULL /\ router = NULL /\ frames = NULL /\
    accepted = NULL /\ recvd = NULL /\ panicked = NULL
restNeighbor == <<sock, bound, conns, pend, est, wire, user, sent, got, overrun,
    dups, con, named, taken, asleep, woken, msgs, ring, head, tail, rx_cur, irq,
    rxpending, worker_, found, free, used, packets, lost, bindings, inq, nqueue,
    reachable, router, frames, accepted, recvd, panicked>>

\* Only the variables of Tcp are in use.
OnlyTcp == state = NULL /\ uninter = NULL /\ onqueue = NULL /\ waitlist = NULL /\
    unblocked = NULL /\ result = NULL /\ pending = NULL /\ signal = NULL /\
    reach = NULL /\ queue = NULL /\ flag = NULL /\ neighbor_lock = NULL /\
    nlock = NULL /\ at = NULL /\ todo = NULL /\ remaining = NULL /\ pc = NULL /\
    contract = FALSE /\ con = NULL /\ named = NULL /\ taken = NULL /\
    asleep = NULL /\ woken = NULL /\ msgs = NULL /\ ring = NULL /\ head = NULL /\
    tail = NULL /\ rx_cur = NULL /\ irq = NULL /\ rxpending = NULL /\
    worker_ = NULL /\ found = NULL /\ free = NULL /\ used = NULL /\
    packets = NULL /\ lost = NULL /\ bindings = NULL /\ inq = NULL /\
    nqueue = NULL /\ reachable = NULL /\ router = NULL /\ frames = NULL /\
    accepted = NULL /\ recvd = NULL /\ panicked = NULL
restTcp == <<state, uninter, onqueue, waitlist, unblocked, result, pending, signal,
    reach, queue, flag, neighbor_lock, nlock, at, todo, remaining, pc, contract,
    con, named, taken, asleep, woken, msgs, ring, head, tail, rx_cur, irq,
    rxpending, worker_, found, free, used, packets, lost, bindings, inq, nqueue,
    reachable, router, frames, accepted, recvd, panicked>>

\* Only the variables of Unix are in use.
OnlyUnix == state = NULL /\ uninter = NULL /\ onqueue = NULL /\ waitlist = NULL /\
    unblocked = NULL /\ result = NULL /\ pending = NULL /\ signal = NULL /\
    reach = NULL /\ queue = NULL /\ flag = NULL /\ neighbor_lock = NULL /\
    nlock = NULL /\ at = NULL /\ todo = NULL /\ remaining = NULL /\
    contract = FALSE /\ conns = NULL /\ est = NULL /\ wire = NULL /\ user = NULL /\
    sent = NULL /\ got = NULL /\ overrun = NULL /\ dups = NULL /\ ring = NULL /\
    head = NULL /\ tail = NULL /\ rx_cur = NULL /\ irq = NULL /\
    rxpending = NULL /\ worker_ = NULL /\ found = NULL /\ free = NULL /\
    used = NULL /\ packets = NULL /\ lost = NULL /\ bindings = NULL /\
    inq = NULL /\ nqueue = NULL /\ reachable = NULL /\ router = NULL /\
    frames = NULL /\ accepted = NULL /\ recvd = NULL /\ panicked = NULL
restUnix == <<state, uninter, onqueue, waitlist, unblocked, result, pending,
    signal, reach, queue, flag, neighbor_lock, nlock, at, todo, remaining,
    contract, conns, est, wire, user, sent, got, overrun, dups, ring, head, tail,
    rx_cur, irq, rxpending, worker_, found, free, used, packets, lost, bindings,
    inq, nqueue, reachable, router, frames, accepted, recvd, panicked>>

\* Only the variables of Packets are in use.
OnlyPackets == state = NULL /\ uninter = NULL /\ onqueue = NULL /\
    waitlist = NULL /\ unblocked = NULL /\ result = NULL /\ pending = NULL /\
    signal = NULL /\ reach = NULL /\ queue = NULL /\ flag = NULL /\
    neighbor_lock = NULL /\ nlock = NULL /\ at = NULL /\ todo = NULL /\
    remaining = NULL /\ pc = NULL /\ contract = FALSE /\ bound = NULL /\
    conns = NULL /\ pend = NULL /\ est = NULL /\ wire = NULL /\ user = NULL /\
    sent = NULL /\ got = NULL /\ overrun = NULL /\ dups = NULL /\ con = NULL /\
    named = NULL /\ taken = NULL /\ asleep = NULL /\ woken = NULL /\ msgs = NULL
restPackets == <<state, uninter, onqueue, waitlist, unblocked, result, pending,
    signal, reach, queue, flag, neighbor_lock, nlock, at, todo, remaining, pc,
    contract, bound, conns, pend, est, wire, user, sent, got, overrun, dups, con,
    named, taken, asleep, woken, msgs>>

MCInit ==
    \/ which = "neighbor" /\ Init /\ OnlyNeighbor
    \/ which = "overrun" /\ T1!TcpInit /\ OnlyTcp
    \/ which = "dup" /\ T2!TcpInit /\ OnlyTcp
    \/ which = "closes" /\ T3!TcpInit /\ OnlyTcp
    \/ which = "reply" /\ T4!TcpInit /\ OnlyTcp
    \/ which = "unix" /\ U!UnixInit /\ OnlyUnix
    \/ which = "raw" /\ P1!PacketsInit /\ OnlyPackets
    \/ which = "kinds" /\ P2!PacketsInit /\ OnlyPackets
    \/ which = "ports" /\ P3!PacketsInit /\ OnlyPackets
    \/ which = "flood" /\ P4!PacketsInit /\ OnlyPackets
MCNext ==
    /\ UNCHANGED which
    /\ \/ which = "neighbor" /\ Next /\ UNCHANGED restNeighbor
       \/ which = "overrun" /\ T1!TcpNext /\ UNCHANGED restTcp
       \/ which = "dup" /\ T2!TcpNext /\ UNCHANGED restTcp
       \/ which = "closes" /\ T3!TcpNext /\ UNCHANGED restTcp
       \/ which = "reply" /\ T4!TcpNext /\ UNCHANGED restTcp
       \/ which = "unix" /\ U!UnixNext /\ UNCHANGED restUnix
       \/ which = "raw" /\ P1!PacketsNext /\ UNCHANGED restPackets
       \/ which = "kinds" /\ P2!PacketsNext /\ UNCHANGED restPackets
       \/ which = "ports" /\ P3!PacketsNext /\ UNCHANGED restPackets
       \/ which = "flood" /\ P4!PacketsNext /\ UNCHANGED restPackets
MCSpec == MCInit /\ [][MCNext]_allvars

MCThread == {worker, s1, s2, r1}
MCBlockList == {"bl"}

\* NoPacketStuck is defined in module Neighbor; its premise, contract, is FALSE
\* where another module runs.

\* Module Packets: a socket reads the datagrams of its port in the order in
\* which they came, and a port is bound to a socket that is alive (udp.c,
\* ipv6rawsock.c).
DatagramsDelivered ==
    /\ which = "raw" => P1!DatagramsInOrder /\ P1!BindingsLive
    /\ which = "kinds" => P2!DatagramsInOrder /\ P2!BindingsLive
    /\ which = "ports" => P3!DatagramsInOrder /\ P3!BindingsLive
    /\ which = "flood" => P4!DatagramsInOrder /\ P4!BindingsLive

\* Senders are interchangeable, and so are neighbours.
MCSymmetry == Permutations(Sender) \cup Permutations(Nbr)
=============================================================================
