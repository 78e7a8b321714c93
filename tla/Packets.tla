------------------------------- MODULE Packets -------------------------------
(***************************************************************************)
(* The way of a packet: the receive ring and the send routine of the       *)
(* network card (drivers/e1000.c), its worker (kernel/net/nic.c), the      *)
(* packet buffers (kernel/net/packet.c), Ethernet, IPv6 and ICMPv6         *)
(* (kernel/net/ethernet.c, ipv6.c, icmp6.c), and the UDP and raw sockets   *)
(* at its end (kernel/net/udp.c, ipv6rawsock.c).                           *)
(*                                                                         *)
(* The other hosts are one neighbour, reached or not (see Neighbor).  A    *)
(* frame is its kind and its number.                                       *)
(***************************************************************************)
EXTENDS Integers, Sequences, FiniteSets, FiniteSetsExt, SequencesExt

CONSTANTS
    Udp,        \* UDP sockets
    Raw,        \* raw sockets
    Port,       \* ports they are bound to
    Kind,       \* the kinds of frames that arrive
    NDesc,      \* E1000_NUM_RX_DESC
    MaxFrames,  \* bound: frames that arrive
    MaxCalls,   \* bound: calls on each socket
    Rebind,     \* whether a bound socket is bound again
    NULL

VARIABLES
    ring,       \* rx_descs: the buffer, and the frame received into it
    head,       \* the card's next descriptor
    tail,       \* REG_RXDESCTAIL
    rx_cur,     \* the driver's next descriptor
    irq,        \* whether the card has an interrupt to deliver
    rxpending,  \* nic->rxpending
    worker,     \* where the card's worker is
    found,      \* its local count: whether this call of recv found a frame
    free,       \* buffers: the list of free buffers
    used,       \* number of buffers ever made
    packets,    \* the packets with a reference: their buffer, frame, references
    lost,       \* history: buffers of packets whose last reference is lost
    bindings,   \* the socket bound to each port
    sock,       \* the sockets
    inq,        \* their queues of packets
    nqueue,     \* packets queued for the neighbour
    reachable,  \* whether the neighbour is REACHABILITY_REACHABLE
    router,     \* whether default_router is set
    frames,     \* number of frames that have arrived
    accepted,   \* history: frames queued on each UDP socket
    recvd,      \* history: frames each UDP socket has returned
    panicked    \* "bound socket not present in bindings"

vars == <<ring, head, tail, rx_cur, irq, rxpending, worker, found, free, used, packets,
          lost, bindings, sock, inq, nqueue, reachable, router, frames, accepted, recvd,
          panicked>>

cardvars == <<ring, head, tail, rx_cur, irq, rxpending, worker, found>>
memvars == <<free, used, packets, lost>>
sockvars == <<bindings, sock, inq, recvd, accepted, panicked>>
netvars == <<nqueue, reachable, router>>

Sock == Udp \cup Raw
NoFrame == [kind |-> "none", n |-> 0]

-----------------------------------------------------------------------------
(* Packets and buffers.  The memory is a record m of free, used, packets    *)
(* and lost, threaded through a handler; a packet is named by its buffer.   *)

Mem == [free |-> free, used |-> used, packets |-> packets, lost |-> lost]
MemIs(m) ==
    /\ free' = m.free /\ used' = m.used /\ packets' = m.packets /\ lost' = m.lost

\* net_packet_buffer_allocate: the buffer it returns, and the memory after it.
Buffer(m) == IF m.free = {} THEN m.used + 1 ELSE Min(m.free)
Allocated(m) ==
    IF m.free = {} THEN [m EXCEPT !.used = @ + 1]
    ELSE [m EXCEPT !.free = @ \ {Min(m.free)}]

Created(m, buf, frame, refs) ==
    [m EXCEPT !.packets = @ \cup {[buf |-> buf, frame |-> frame, refs |-> refs]}]
packet_duplicate(m, frame, refs) == Created(Allocated(m), Buffer(m), frame, refs)
Packet(m, buf) == CHOOSE p \in m.packets : p.buf = buf

\* kobj_putref: _packet_put returns the buffer of a packet nobody refers to.
putref(m, buf) ==
    LET p == Packet(m, buf)
        rest == m.packets \ {p}
    IN  IF p.refs = 1 THEN [m EXCEPT !.packets = rest, !.free = @ \cup {buf}]
        ELSE [m EXCEPT !.packets = rest \cup {[p EXCEPT !.refs = @ - 1]}]

\* A packet that is forgotten with its last reference.
Forgotten(m, buf) ==
    [m EXCEPT !.packets = @ \ {Packet(m, buf)}, !.lost = @ \cup {buf}]

\* A packet that is made and dropped at once.
Passing(m) == LET a == Allocated(m) IN [a EXCEPT !.free = @ \cup {Buffer(m)}]

\* They make a packet and send it.
icmp6_neighbor_solicit(m) == Passing(m)
icmp6_router_solicit(m) == Passing(m)

\* After _e1000_init_device, which ends with a router solicitation.
PacketsInit ==
    /\ ring = [i \in 0 .. NDesc - 1 |-> [buf |-> i + 1, frame |-> NoFrame]]
    /\ head = 0 /\ tail = NDesc - 1 /\ rx_cur = 0
    /\ irq = FALSE /\ rxpending = FALSE
    /\ worker = "asleep" /\ found = FALSE
    /\ LET m == icmp6_router_solicit([free |-> {}, used |-> NDesc, packets |-> {}, lost |-> {}])
       IN  free = m.free /\ used = m.used /\ packets = m.packets /\ lost = m.lost
    /\ bindings = [p \in Port |-> NULL]
    /\ sock = [s \in Sock |-> [open |-> s \in Udp, bound |-> FALSE, port |-> NULL,
                               refs |-> IF s \in Udp THEN 1 ELSE 0, asleep |-> FALSE,
                               woken |-> FALSE, calls |-> 0]]
    /\ inq = [s \in Sock |-> <<>>]
    /\ nqueue = <<>> /\ reachable = FALSE /\ router = FALSE
    /\ frames = 0
    /\ accepted = [s \in Udp |-> <<>>]
    /\ recvd = [s \in Udp |-> <<>>]
    /\ panicked = FALSE

-----------------------------------------------------------------------------
(* Sending a packet of the buffer buf. *)

\* The driver waits for the card and drops the packet.
_e1000_send(m, buf) == putref(m, buf)
net_ethernet_send(m, buf) == _e1000_send(m, buf)

\* ipv6_establish_neighbor: the packet is sent, or queued behind a solicitation.
Send(m, buf, reach) == IF reach THEN net_ethernet_send(m, buf) ELSE icmp6_neighbor_solicit(m)
Queue(q, buf, reach) == IF reach THEN q ELSE <<buf>> \o q

\* ipv6_reply_packet and the end of ipv6_network_send.
Transmit(m, buf, reach) ==
    /\ MemIs(Send(m, buf, reach))
    /\ nqueue' = Queue(nqueue, buf, reach)

\* The IPv6 worker sends what waits for a reachable neighbour, newest first.
SendQueued ==
    /\ reachable /\ nqueue # <<>>
    /\ MemIs(net_ethernet_send(Mem, Head(nqueue)))
    /\ nqueue' = Tail(nqueue)
    /\ UNCHANGED <<cardvars, sockvars, reachable, router, frames>>

-----------------------------------------------------------------------------
(* Receiving: net_nic_receive to the sockets, under the card's lock.  The   *)
(* raw sockets are open for ICMPv6.                                         *)

OpenRaw == {s \in Raw : sock[s].open}
Matching(frame) == IF frame.kind \in {"udp", "tcp"} THEN {} ELSE OpenRaw

CopyRefs(S) == Cardinality(S)
Copied(m, frame) ==
    IF OpenRaw = {} THEN m
    ELSE IF Matching(frame) = {} THEN Passing(m)
    ELSE packet_duplicate(m, frame, CopyRefs(Matching(frame)))

\* Where a packet goes: its reference to the queue of the socket s, its copy to
\* the raw sockets; their readers are woken.
Woken(S) == [s \in Sock |-> IF s \in S /\ sock[s].asleep
                            THEN [sock[s] EXCEPT !.woken = TRUE] ELSE sock[s]]
Deliver(copy, frame, s, buf) ==
    inq' = [r \in Sock |-> IF r = s THEN Append(inq[r], buf)
                           ELSE IF r \in Matching(frame) THEN Append(inq[r], copy)
                           ELSE inq[r]]
Passed(copy, frame) ==
    /\ Deliver(copy, frame, NULL, 0)
    /\ sock' = Woken(Matching(frame))
    /\ UNCHANGED accepted

\* udp_recv: the packet's reference goes to the queue of the bound socket.
\* Mutant: the reader is not woken.
Readers_None(s) == {}
Readers(s) == {s}
_udp_get_bound_socket(port) == bindings[port]
udp_recv(m, buf, copy, frame) ==
    /\ \E port \in Port :
         LET s == _udp_get_bound_socket(port) IN
         IF s = NULL
         THEN MemIs(putref(m, buf)) /\ Passed(copy, frame)
         ELSE /\ MemIs(m)
              /\ Deliver(copy, frame, s, buf)
              /\ sock' = Woken(Readers(s))
              /\ accepted' = [accepted EXCEPT ![s] = Append(@, frame.n)]
    /\ UNCHANGED netvars

\* icmp6_receive.  An echo request and a solicitation are answered in the same
\* packet; with the option of the sender's address a solicitation and the
\* advertisements make the neighbour reachable.  The packet of a router that is
\* added is kept for ever (icmp6.c:151 drops no reference).
ipv6_router_add(yes) == router' = (router \/ yes)
icmp6_receive(m, buf, copy, frame) ==
    /\ Passed(copy, frame)
    /\ \/ /\ frame.kind = "echo"
          /\ Transmit(m, buf, reachable)
          /\ UNCHANGED <<reachable, router>>
       \/ \E option \in BOOLEAN :
            /\ frame.kind = "solicit"
            /\ reachable' = (reachable \/ option)
            /\ Transmit(m, buf, reachable')
            /\ UNCHANGED router
       \/ /\ frame.kind = "solicit"      \* for another host
          /\ MemIs(putref(m, buf))
          /\ UNCHANGED netvars
       \/ \E option \in BOOLEAN :
            /\ frame.kind = "advert"
            /\ MemIs(putref(m, buf))
            /\ reachable' = (reachable \/ option)
            /\ UNCHANGED <<nqueue, router>>
       \/ /\ frame.kind = "router"
          /\ \E address, prefix \in BOOLEAN :
               /\ reachable' = (reachable \/ address)
               /\ MemIs(IF address /\ prefix THEN Forgotten(m, buf) ELSE putref(m, buf))
               /\ ipv6_router_add(address /\ prefix)
          /\ UNCHANGED nqueue
       \/ /\ frame.kind = "unknown"
          /\ MemIs(putref(m, buf))
          /\ UNCHANGED netvars

\* ipv6_receive_process; tcp_recv drops no packet.
ipv6_receive(m, buf, copy, frame) ==
    \/ frame.kind = "udp" /\ udp_recv(m, buf, copy, frame)
    \/ icmp6_receive(m, buf, copy, frame)
    \/ /\ frame.kind = "tcp"
       /\ MemIs(Forgotten(m, buf))
       /\ Passed(copy, frame)
       /\ UNCHANGED netvars

net_ethernet_receive(m, buf, frame) ==
    IF frame.kind = "other"       \* net_ethernet_drop, or another host's address
    THEN /\ MemIs(putref(m, buf))
         /\ UNCHANGED <<inq, sock, accepted, netvars>>
    ELSE ipv6_receive(Copied(m, frame), buf, Buffer(m), frame)

\* The packet is made with one reference.
net_nic_receive(m, buf, frame) ==
    net_ethernet_receive(Created(m, buf, frame, 1), buf, frame)

-----------------------------------------------------------------------------
(* The card and its worker, which holds the card's lock but in schedule(). *)

\* The card receives a frame, and has an interrupt to deliver.
Arrive ==
    /\ frames < MaxFrames /\ head # tail
    /\ \E k \in Kind :
         ring' = [ring EXCEPT ![head].frame = [kind |-> k, n |-> frames + 1]]
    /\ head' = (head + 1) % NDesc
    /\ irq' = TRUE
    /\ frames' = frames + 1
    /\ UNCHANGED <<tail, rx_cur, rxpending, worker, found, memvars, sockvars, netvars>>

\* e1000_interrupt_handler takes the card's lock.
LockFree == worker \in {"asleep", "woken"}
e1000_interrupt_handler ==
    /\ irq /\ LockFree
    /\ irq' = FALSE
    /\ rxpending' = TRUE
    /\ worker' = IF worker = "asleep" THEN "woken" ELSE worker
    /\ UNCHANGED <<ring, head, tail, rx_cur, found, memvars, sockvars, netvars, frames>>

\* _nic_worker, with the lock: recv, or sleep.
WorkerLoop ==
    /\ worker \in {"woken", "loop"}
    /\ worker' = IF rxpending THEN "recv" ELSE "asleep"
    /\ found' = FALSE
    /\ UNCHANGED <<ring, head, tail, rx_cur, irq, rxpending, memvars, sockvars, netvars, frames>>

\* One descriptor of _e1000_recv.  The packet is made of its buffer, for which
\* the descriptor gets another.
_e1000_recv ==
    /\ worker = "recv" /\ ring[rx_cur].frame # NoFrame
    /\ LET d == ring[rx_cur] IN
       /\ net_nic_receive(Allocated(Mem), d.buf, d.frame)
       /\ ring' = [ring EXCEPT ![rx_cur] = [buf |-> Buffer(Mem), frame |-> NoFrame]]
    /\ rx_cur' = (rx_cur + 1) % NDesc
    /\ tail' = rx_cur
    /\ found' = TRUE
    /\ UNCHANGED <<head, irq, rxpending, worker, frames, bindings, recvd, panicked>>

\* No descriptor is left; a call that found none ends the rxpending state.
RecvEnds ==
    /\ worker = "recv" /\ ring[rx_cur].frame = NoFrame
    /\ worker' = IF found THEN "loop" ELSE "clear"
    /\ UNCHANGED <<ring, head, tail, rx_cur, irq, rxpending, found, memvars, sockvars, netvars,
                   frames>>
RecvClears ==
    /\ worker = "clear"
    /\ rxpending' = FALSE
    /\ worker' = "loop"
    /\ UNCHANGED <<ring, head, tail, rx_cur, irq, found, memvars, sockvars, netvars, frames>>

-----------------------------------------------------------------------------
(* The sockets.  A socket has one thread. *)

Ready(s) == sock[s].open /\ ~sock[s].asleep /\ sock[s].calls < MaxCalls
Called(s) == [sock EXCEPT ![s].calls = @ + 1]
nocard == UNCHANGED <<cardvars, frames>>

\* _udp_bind: the socket s on port p, or what is left when the port is taken.
BoundRefs(r) == r + 1
_udp_bind(s, p) ==
    IF bindings[p] = NULL
    THEN /\ bindings' = [bindings EXCEPT ![p] = s]
         /\ sock' = [Called(s) EXCEPT ![s].port = p, ![s].bound = TRUE,
                                      ![s].refs = BoundRefs(@)]
    ELSE /\ UNCHANGED bindings
         /\ sock' = [Called(s) EXCEPT ![s].port = p]
sys_bind(s) ==
    /\ s \in Udp /\ Ready(s) /\ (sock[s].bound => Rebind)
    /\ \E p \in Port : _udp_bind(s, p)
    /\ UNCHANGED <<memvars, netvars, inq, accepted, recvd, panicked>> /\ nocard

\* ipv6_network_send: no route, or a new packet for the neighbour.
ipv6_network_send ==
    \/ ~router /\ UNCHANGED <<memvars, nqueue>>      \* -ENETUNREACH
    \/ /\ Transmit(Created(Allocated(Mem), Buffer(Mem), NoFrame, 1), Buffer(Mem), reachable)
    \/ MemIs(Passing(Mem)) /\ UNCHANGED nqueue        \* to a multicast address

\* net_network_send.  _udp_sendto binds the socket first, _ipv6_sendto does not.
net_network_send == ipv6_network_send
_udp_sendto(s) ==
    /\ s \in Udp
    /\ \/ /\ sock[s].bound
          /\ sock' = Called(s) /\ UNCHANGED bindings
          /\ net_network_send
       \/ /\ ~sock[s].bound
          /\ \E p \in Port :
               /\ _udp_bind(s, p)
               /\ IF bindings[p] = NULL THEN net_network_send
                  ELSE UNCHANGED <<memvars, nqueue>>   \* -ENOMEM
_ipv6_sendto(s) ==
    /\ s \in Raw
    /\ sock' = Called(s) /\ UNCHANGED bindings
    /\ net_network_send
sys_sendto(s) ==
    /\ Ready(s)
    /\ _udp_sendto(s) \/ _ipv6_sendto(s)
    /\ UNCHANGED <<reachable, router, inq, accepted, recvd, panicked>> /\ nocard

\* Receiving: the oldest packet, ...
_udp_recvfrom(s) ==
    s \in Udp /\ recvd' = [recvd EXCEPT ![s] = Append(@, Packet(Mem, Head(inq[s])).frame.n)]
_ipv6_recvfrom(s) == s \in Raw /\ UNCHANGED recvd
sys_recvfrom(s) ==
    /\ (Ready(s) \/ sock[s].woken) /\ inq[s] # <<>>
    /\ MemIs(putref(Mem, Head(inq[s])))
    /\ inq' = [inq EXCEPT ![s] = Tail(@)]
    /\ _udp_recvfrom(s) \/ _ipv6_recvfrom(s)
    /\ sock' = [sock EXCEPT ![s].asleep = FALSE, ![s].woken = FALSE,
                            ![s].calls = IF sock[s].asleep THEN @ ELSE @ + 1]
    /\ UNCHANGED <<netvars, bindings, accepted, panicked>> /\ nocard
\* ... or the thread is on the list of blocked readers when it looks again.
RecvBlocks(s) ==
    /\ Ready(s) /\ inq[s] = <<>>
    /\ sock' = [Called(s) EXCEPT ![s].asleep = TRUE]
    /\ UNCHANGED <<memvars, netvars, bindings, inq, accepted, recvd, panicked>> /\ nocard
\* A signal (-EINTR), or a woken call with _MSG_NONBLOCK (-EAGAIN).
RecvGivesUp(s) ==
    /\ sock[s].asleep
    /\ sock' = [sock EXCEPT ![s].asleep = FALSE, ![s].woken = FALSE]
    /\ UNCHANGED <<memvars, netvars, bindings, inq, accepted, recvd, panicked>> /\ nocard

_ipv6_init_sock(s) ==
    /\ s \in Raw /\ ~sock[s].open /\ sock[s].calls = 0
    /\ sock' = [sock EXCEPT ![s].open = TRUE, ![s].refs = 2]
    /\ UNCHANGED <<memvars, netvars, bindings, inq, accepted, recvd, panicked>> /\ nocard

\* _udp_shutdown and _ipv6_shutdown, and the file's reference.  What is queued
\* stays with the dead socket.
RECURSIVE AllForgotten(_, _)
AllForgotten(m, q) ==
    IF q = <<>> THEN m
    ELSE AllForgotten(IF Packet(m, Head(q)).refs = 1 THEN Forgotten(m, Head(q))
                      ELSE putref(m, Head(q)), Tail(q))
_udp_shutdown(s) ==
    /\ s \in Udp
    /\ LET p == sock[s].port
           here == sock[s].bound /\ bindings[p] # NULL
       IN  /\ bindings' = IF here THEN [bindings EXCEPT ![p] = NULL] ELSE bindings
           /\ panicked' = (panicked \/ (sock[s].bound /\ ~here))
           /\ sock' = [sock EXCEPT ![s].open = FALSE, ![s].calls = MaxCalls,
                                   ![s].refs = @ - 1 - (IF here THEN 1 ELSE 0)]
_ipv6_shutdown(s) ==
    /\ s \in Raw
    /\ sock' = [sock EXCEPT ![s].open = FALSE, ![s].calls = MaxCalls, ![s].refs = @ - 2]
    /\ UNCHANGED <<bindings, panicked>>
Close(s) ==
    /\ sock[s].open /\ ~sock[s].asleep
    /\ MemIs(AllForgotten(Mem, inq[s]))
    /\ inq' = [inq EXCEPT ![s] = <<>>]
    /\ _udp_shutdown(s) \/ _ipv6_shutdown(s)
    /\ UNCHANGED <<netvars, accepted, recvd>> /\ nocard

PacketsNext ==
    \/ Arrive
    \/ e1000_interrupt_handler
    \/ WorkerLoop
    \/ _e1000_recv
    \/ RecvEnds
    \/ RecvClears
    \/ SendQueued
    \/ \E s \in Sock :
        sys_bind(s) \/ sys_sendto(s) \/ sys_recvfrom(s) \/ RecvBlocks(s) \/ RecvGivesUp(s)
          \/ _ipv6_init_sock(s) \/ Close(s)

PacketsSpec == PacketsInit /\ [][PacketsNext]_vars

-----------------------------------------------------------------------------
\* net_packet_buffer_allocate, _packet_put and the driver's exchange of buffers
\* (packet.c:10-47, e1000.c:156-160): a buffer is in one descriptor, on the free
\* list, or in one packet that somebody will drop; none is in two places, and a
\* packet has exactly the references that queues hold.
Queued(buf) ==
    Cardinality({s \in Sock : Contains(inq[s], buf)}) + (IF Contains(nqueue, buf) THEN 1 ELSE 0)
BuffersOwnedOnce ==
    /\ \A b \in 1 .. used :
         Cardinality({i \in DOMAIN ring : ring[i].buf = b})
           + (IF b \in free THEN 1 ELSE 0) + (IF b \in lost THEN 1 ELSE 0)
           + Cardinality({p \in packets : p.buf = b}) = 1
    /\ \A p \in packets : p.refs = Queued(p.buf)

\* _nic_worker, _e1000_recv and the interrupt handler (nic.c:21-45, e1000.c:143-169):
\* a received frame never waits for a worker that sleeps with no interrupt to come.
FramesServed ==
    \A i \in DOMAIN ring : ring[i].frame # NoFrame => worker # "asleep" \/ irq

\* udp_recv and _udp_recvfrom (udp.c:68-79, 106-144): a socket returns the datagrams
\* queued for it in the order of their arrival, each of them once, and no reader
\* sleeps while one waits.
DatagramsInOrder ==
    \A s \in Udp :
      /\ IsPrefix(recvd[s], accepted[s])
      /\ sock[s].open => Len(accepted[s]) = Len(recvd[s]) + Len(inq[s])
      /\ sock[s].asleep /\ inq[s] # <<>> => sock[s].woken

\* _udp_bind and _udp_shutdown (udp.c:81-103, 171-181): the sockets in the table are
\* open, each under its own port, with a reference each, so that shutdown always finds
\* its socket.
BindingsLive ==
    /\ ~panicked
    /\ \A p \in Port : bindings[p] # NULL =>
         LET k == sock[bindings[p]] IN k.open /\ k.bound /\ k.port = p
    /\ \A s \in Udp : sock[s].refs = (IF sock[s].open THEN 1 ELSE 0)
                                      + Cardinality({p \in Port : bindings[p] = s})
=============================================================================
