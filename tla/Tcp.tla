--------------------------------- MODULE Tcp ---------------------------------
(***************************************************************************)
(* TCP over IPv6: kernel/net/tcp.c, with the socket layer's calls that     *)
(* lead to it (kernel/fs/socket.c).                                        *)
(*                                                                         *)
(* Two hosts run this code.  On one a program connects with the socket     *)
(* "c"; on the other a program listens with "l" and accepts one            *)
(* connection, the socket "s".  Every socket has a worker thread that      *)
(* sends what was written.  tcp_recv runs in the thread of the network     *)
(* card.  The network delivers in order and loses nothing, but may deliver *)
(* a segment twice.  A byte of data is its index in what was written.      *)
(***************************************************************************)
EXTENDS Integers, Sequences, FiniteSets, SequencesExt

CONSTANTS
    W,          \* WINDOWSZ
    MaxBytes,   \* bound: bytes written by the program that connects
    MaxReply,   \* bound: bytes written by the program that accepts
    MaxDup,     \* bound: segments delivered twice
    MaxCalls,   \* bound: calls of connect by a program
    Closes      \* the sockets that are closed

VARIABLES
    sock,       \* the sockets
    bound,      \* bindings: sockets in it
    conns,      \* connections: sockets in it
    pend,       \* pend_con of "l": the SYN segments waiting for accept
    est,        \* tcp.establishing of "l"
    wire,       \* the segments each end sent that are not yet delivered
    user,       \* the program at each end
    sent,       \* number of bytes each end has written
    got,        \* the bytes each end has read
    overrun,    \* history: ends that were sent more than their window had room for
    dups        \* segments delivered twice, for the bound

vars == <<sock, bound, conns, pend, est, wire, user, sent, got, overrun, dups>>

Sock == {"c", "l", "s"}
End == {"c", "s"}
Peer(x) == IF x = "c" THEN "s" ELSE "c"
User == {"C", "S"}
MayWrite(x) == IF x = "c" THEN MaxBytes ELSE MaxReply

Least(a, b) == IF a < b THEN a ELSE b

-----------------------------------------------------------------------------
(* Sockets.  refs counts references; lost, those that are never given back. *)

Unused ==
    [state |-> "CLOSED", flags |-> {}, snext |-> 0, sunack |-> 0, rnext |-> 0,
     rwin |-> 0, swin |-> 0, avail |-> 0, pending |-> 0,
     tx |-> [i \in 0 .. W - 1 |-> 0], rx |-> [i \in 0 .. W - 1 |-> 0], mem |-> FALSE,
     worker |-> "none", wwoken |-> FALSE, joining |-> FALSE,
     file |-> FALSE, refs |-> 0, lost |-> 0]

\* The file's reference and the worker's.
_tcp_init_sock ==
    [Unused EXCEPT !.rwin = W, !.avail = W, !.mem = TRUE, !.worker = "top",
                   !.file = TRUE, !.refs = 2]

\* sys_bind and _tcp_bind; the port is free.
_tcp_bind(s) == [s EXCEPT !.flags = @ \cup {"BOUND"}, !.refs = @ + 1]

Idle == [pc |-> "idle", on |-> "c", len |-> 0, lists |-> {}, woken |-> FALSE, calls |-> 0]

\* The listener has been bound; the first round of a worker finds nothing to do.
TcpInit ==
    /\ sock = [c |-> [_tcp_init_sock EXCEPT !.worker = "asleep"],
               l |-> [_tcp_bind(_tcp_init_sock) EXCEPT !.worker = "asleep"],
               s |-> Unused]
    /\ bound = {"l"} /\ conns = {} /\ est = {}
    /\ pend = 0
    /\ wire = [x \in End |-> <<>>]
    /\ user = [u \in User |-> Idle]
    /\ sent = [x \in End |-> 0]
    /\ got = [x \in End |-> <<>>]
    /\ overrun = {}
    /\ dups = 0

__tcp_sendmsg(s, fl, data) ==
    [fl |-> fl, seq |-> s.snext, ackn |-> s.rnext, win |-> s.rwin, data |-> data]

\* blocklist_unblock_all on the lists L of socket x.
Unblock(us, x, L) ==
    [u \in User |-> IF us[u].on = x /\ us[u].lists \cap L # {}
                    THEN [us[u] EXCEPT !.woken = TRUE] ELSE us[u]]

\* blocklist_unblock_all(&sock->tcp.con.workerbl)
UnblockWorker(s) == IF s.worker = "asleep" THEN [s EXCEPT !.wwoken = TRUE] ELSE s

ConnectionAdded(s) == [s EXCEPT !.refs = @ + 1]

close_connection(s, x) ==
    UnblockWorker([s EXCEPT !.state = "CLOSED",
                            !.flags = (@ \ {"CONNEC"}) \cup {"SHUTDOWN"},
                            !.refs = IF x \in conns THEN @ - 1 ELSE @])

AllLists == {"rx", "tx", "pend", "status"}

-----------------------------------------------------------------------------
(* Receiving a segment. *)

Arrived(s, q) == q >= s.rnext /\ q < s.rnext + s.rwin

InWindow(s, m) ==
    \/ Arrived(s, m.seq)
    \/ Arrived(s, m.seq + Len(m.data) - 1)

\* What of the segment copy_in_data keeps: not what was received before, not
\* what is beyond the window.
Kept(s, m) ==
    LET skip == IF m.seq < s.rnext THEN s.rnext - m.seq ELSE 0
        seq == m.seq + skip
        last == Least(m.seq + Len(m.data), s.rnext + s.rwin)
    IN  SubSeq(m.data, skip + 1, skip + (last - seq))
\* It is stored from recv_next on, whatever its sequence number.
copy_in_data(s, m) ==
    LET kept == Kept(s, m)
        n == Len(kept)
    IN  IF ~InWindow(s, m) THEN s
        ELSE [s EXCEPT !.rx = [i \in DOMAIN @ |->
                                 LET k == (i - s.rnext) % W IN
                                 IF k < n THEN kept[k + 1] ELSE @[i]],
                       !.rnext = @ + n, !.rwin = @ - n]

\* The acknowledgement: what it frees of the send buffer, and the new window.
Acked(s, m) ==
    LET inflight == s.snext - m.ackn
        t == [s EXCEPT !.sunack = m.ackn, !.avail = (W - inflight) - s.pending,
                       !.swin = m.win]
    IN  IF m.win # s.swin THEN UnblockWorker(t) ELSE t

\* The segment leaves the network, unless it is to be delivered again; the
\* handler's own segments follow those sent before.
Takes(x, out) ==
    \E again \in BOOLEAN :
        /\ again => dups < MaxDup
        /\ dups' = IF again THEN dups + 1 ELSE dups
        /\ wire' = [wire EXCEPT ![Peer(x)] = IF again THEN @ ELSE Tail(@),
                                ![x] = @ \o out]

\* _tcp_recv_bound_only: no connection has the segment's addresses.
RecvSynAck(m) ==
    /\ "c" \in bound /\ sock["c"].state = "SYNSENT" /\ {"SYN", "ACK"} \subseteq m.fl
    /\ sock' = [sock EXCEPT !["c"].state = "ESTABLISHED",
                            !["c"].snext = m.ackn, !["c"].sunack = m.ackn,
                            !["c"].rnext = m.seq + 1, !["c"].swin = m.win]
    /\ user' = Unblock(user, "c", {"con"})
    /\ UNCHANGED pend
RecvSyn(m) ==
    /\ "l" \in bound /\ sock["l"].state = "LISTENING"
    /\ "SYN" \in m.fl /\ "ACK" \notin m.fl
    /\ pend' = pend + 1
    /\ user' = Unblock(user, "l", {"pend"})
    /\ UNCHANGED sock
_tcp_recv_bound_only(x, m) ==
    /\ x \notin conns
    /\ Takes(x, <<>>)
    /\ IF "RST" \in m.fl THEN UNCHANGED <<sock, user, pend>>
       ELSE \/ x = "c" /\ RecvSynAck(m)
            \/ x = "s" /\ RecvSyn(m)
            \/ /\ x = "c" => ~("c" \in bound /\ sock["c"].state = "SYNSENT"
                                 /\ {"SYN", "ACK"} \subseteq m.fl)
               /\ x = "s" => ~("l" \in bound /\ sock["l"].state = "LISTENING"
                                 /\ "SYN" \in m.fl /\ "ACK" \notin m.fl)
               /\ UNCHANGED <<sock, user, pend>>
    /\ UNCHANGED <<conns, est, overrun>>

\* A reset closes the connection and returns with the reference that
\* _tcp_get_connection took.
RecvReset(x, m) ==
    /\ "RST" \in m.fl
    /\ Takes(x, <<>>)
    /\ LET s == close_connection(sock[x], x) IN
       sock' = [sock EXCEPT ![x] = [s EXCEPT !.refs = @ + 1, !.lost = @ + 1]]
    /\ conns' = conns \ {x}
    /\ user' = Unblock(user, x, AllLists)
    /\ UNCHANGED <<pend, est, overrun>>

\* A FIN of a connection this end has closed.
RecvFinWait(x, m) ==
    /\ "RST" \notin m.fl
    /\ sock[x].state = "FINWAIT1"
    /\ Takes(x, <<>>)
    /\ IF "FIN" \in m.fl
       THEN /\ sock' = [sock EXCEPT ![x] = close_connection(sock[x], x)]
            /\ conns' = conns \ {x}
            /\ user' = Unblock(user, x, AllLists)
       ELSE UNCHANGED <<sock, conns, user>>
    /\ UNCHANGED <<pend, est, overrun>>

RecvEstablished(x, m) ==
    /\ "RST" \notin m.fl
    /\ sock[x].state = "ESTABLISHED"
    /\ LET acked == "ACK" \in m.fl /\ "SYN" \notin m.fl
           data == acked /\ m.data # <<>>
           a == IF acked THEN Acked(sock[x], m) ELSE sock[x]
           d == IF data THEN copy_in_data(a, m) ELSE a
           fin == "FIN" \in m.fl
           out == (IF data THEN <<__tcp_sendmsg(d, {"ACK"}, <<>>)>> ELSE <<>>)
                    \o (IF fin THEN <<__tcp_sendmsg(d, {"FIN", "RST"}, <<>>)>> ELSE <<>>)
           taken == data /\ InWindow(a, m)
       IN  /\ Takes(x, out)
           /\ sock' = [sock EXCEPT ![x] = IF fin THEN close_connection(d, x) ELSE d]
           /\ conns' = IF fin THEN conns \ {x} ELSE conns
           /\ user' = Unblock(user, x, (IF taken THEN {"rx"} ELSE {})
                                         \cup (IF fin THEN AllLists ELSE {}))
           /\ overrun' = IF data /\ m.seq + Len(m.data) > d.rnext
                         THEN overrun \cup {x} ELSE overrun
    /\ UNCHANGED <<pend, est>>

\* The ACK that ends the handshake hands the socket to accept.
Established(us) == Unblock(us, "l", {"pend"})
RecvSynRecv(x, m) ==
    /\ "RST" \notin m.fl
    /\ sock[x].state = "SYNRECV"
    /\ LET acked == "ACK" \in m.fl /\ "SYN" \notin m.fl /\ "l" \in bound
           fin == "FIN" \in m.fl
           e == IF acked
                THEN [sock[x] EXCEPT !.state = "ESTABLISHED", !.rnext = m.seq,
                                     !.snext = m.ackn, !.sunack = m.ackn,
                                     !.swin = m.win, !.refs = @ + 1]
                ELSE sock[x]
           up == IF acked THEN Established(user) ELSE user
       IN  /\ Takes(x, IF fin THEN <<__tcp_sendmsg(e, {"ACK", "RST"}, <<>>)>> ELSE <<>>)
           /\ est' = IF acked THEN est \cup {x} ELSE est
           /\ sock' = [sock EXCEPT ![x] = IF fin THEN close_connection(e, x) ELSE e]
           /\ conns' = IF fin THEN conns \ {x} ELSE conns
           /\ user' = IF fin THEN Unblock(up, x, AllLists) ELSE up
    /\ UNCHANGED <<pend, overrun>>

\* The default of the switch: nothing.
RecvOther(x, m) ==
    /\ "RST" \notin m.fl
    /\ sock[x].state \in {"CLOSED", "LISTENING", "SYNSENT"}
    /\ Takes(x, <<>>)
    /\ UNCHANGED <<sock, conns, user, pend, est, overrun>>

tcp_recv(x) ==
    /\ wire[Peer(x)] # <<>>
    /\ LET m == Head(wire[Peer(x)]) IN
       \/ _tcp_recv_bound_only(x, m)
       \/ /\ x \in conns
          /\ \/ RecvReset(x, m) \/ RecvFinWait(x, m) \/ RecvEstablished(x, m)
             \/ RecvSynRecv(x, m) \/ RecvOther(x, m)
    /\ UNCHANGED <<bound, sent, got>>

-----------------------------------------------------------------------------
(* The worker of a socket. *)

\* The bytes of the send buffer from send_next on, up to its end.
Segment(s) ==
    LET n == Least(Least(s.pending, W - (s.snext % W)), s.swin)
    IN  [i \in 1 .. n |-> s.tx[(s.snext + i - 1) % W]]

\* The blockpoint is on the list before the test is made again.
Rest(s) == IF s.pending = 0 \/ s.swin = 0 THEN "asleep" ELSE "top"

WorkerSends(x) ==
    LET s == sock[x] IN
    /\ s.worker = "top" /\ ~s.joining
    /\ IF (s.state = "ESTABLISHED" /\ s.pending > 0 /\ s.swin > 0) \/ s.state = "SYNRECV"
       THEN LET data == Segment(s) IN
            /\ wire' = [wire EXCEPT ![x] = Append(@, __tcp_sendmsg(s, {"ACK"}, data))]
            /\ sock' = [sock EXCEPT ![x].snext = @ + Len(data),
                                    ![x].pending = @ - Len(data), ![x].worker = "rest"]
            /\ user' = Unblock(user, x, {"tx"})
       ELSE /\ sock' = [sock EXCEPT ![x].worker = Rest(s)]
            /\ UNCHANGED <<wire, user>>

WorkerRests(x) ==
    LET s == sock[x] IN
    /\ s.worker = "rest"
    /\ sock' = [sock EXCEPT ![x].worker = Rest(s)]
    /\ UNCHANGED <<wire, user>>

WorkerWakes(x) ==
    /\ sock[x].worker = "asleep" /\ sock[x].wwoken
    /\ sock' = [sock EXCEPT ![x].worker = "top", ![x].wwoken = FALSE]
    /\ UNCHANGED <<wire, user>>

WorkerExits(x) ==
    /\ sock[x].worker = "top" /\ sock[x].joining
    /\ sock' = [sock EXCEPT ![x].worker = "exit", ![x].refs = @ - 1]
    /\ UNCHANGED <<wire, user>>

_tcp_worker(x) ==
    /\ WorkerSends(x) \/ WorkerRests(x) \/ WorkerWakes(x) \/ WorkerExits(x)
    /\ UNCHANGED <<bound, conns, pend, est, sent, got, overrun, dups>>

-----------------------------------------------------------------------------
(* The programs' calls.  A call holds a reference of its socket             *)
(* (socket_get_from_fd) until it returns.                                   *)

Owner(x) == IF x = "c" THEN "C" ELSE "S"

Uses(x) == sock[x].file /\ (x = "s" => "ACCEPTED" \in sock[x].flags)

Calls(x) == user[Owner(x)].pc = "idle" /\ Uses(x)

Goes(x, pc, len, lists) ==
    user' = [user EXCEPT ![Owner(x)] =
                [@ EXCEPT !.pc = pc, !.on = x, !.len = len, !.lists = lists,
                          !.woken = FALSE]]

At(x, pc) == user[Owner(x)].pc = pc /\ user[Owner(x)].on = x

Returns(x) == Goes(x, "idle", 0, {})

Counted(x) == user[Owner(x)].calls < MaxCalls
GoesCounted(x, pc, len, lists) ==
    user' = [user EXCEPT ![Owner(x)] =
                [pc |-> pc, on |-> x, len |-> len, lists |-> lists, woken |-> FALSE,
                 calls |-> @.calls + 1]]

sys_listen ==
    /\ Calls("l") /\ sock["l"].state = "CLOSED"
    /\ sock' = [sock EXCEPT !["l"].state = "LISTENING", !["l"].flags = @ \cup {"LISTEN"}]
    /\ UNCHANGED <<bound, conns, pend, est, wire, user, sent, got, overrun, dups>>

\* _tcp_connect up to schedule().
_tcp_connect ==
    /\ LET s == IF "BOUND" \in sock["c"].flags THEN sock["c"] ELSE _tcp_bind(sock["c"])
           t == [s EXCEPT !.state = "SYNSENT", !.snext = 0, !.sunack = 0, !.refs = @ + 1]
       IN  /\ sock' = [sock EXCEPT !["c"] = t]
           /\ wire' = [wire EXCEPT !["c"] = Append(@, __tcp_sendmsg(t, {"SYN"}, <<>>))]
    /\ bound' = bound \cup {"c"}
    /\ GoesCounted("c", "connect", 0, {"con"})
    /\ UNCHANGED <<conns, pend, est, sent, got, overrun, dups>>
sys_connect == Calls("c") /\ Counted("c") /\ _tcp_connect

\* After schedule(): a timeout or a signal leaves the state SYNSENT.  A socket that
\* is in the table already gets no SYN|ACK: its segments do not reach this code.
ConnectFails ==
    /\ At("c", "connect") /\ ~user["C"].woken
    /\ Returns("c")
    /\ sock' = [sock EXCEPT !["c"].refs = @ - 1]
    /\ UNCHANGED <<bound, conns, pend, est, wire, sent, got, overrun, dups>>
ConnectReturns ==
    /\ At("c", "connect") /\ user["C"].woken
    /\ Returns("c")
    /\ LET s == [ConnectionAdded(sock["c"]) EXCEPT !.flags = @ \cup {"CONNEC"},
                                                   !.refs = @ - 1] IN
       /\ sock' = [sock EXCEPT !["c"] = s]
       /\ wire' = [wire EXCEPT !["c"] = Append(@, __tcp_sendmsg(s, {"ACK"}, <<>>))]
    /\ conns' = conns \cup {"c"}
    /\ UNCHANGED <<bound, pend, est, sent, got, overrun, dups>>

sys_accept ==
    /\ Calls("l") /\ {"BOUND", "LISTEN"} \subseteq sock["l"].flags
    /\ Goes("l", "accept", 0, {})
    /\ sock' = [sock EXCEPT !["l"].refs = @ + 1]
    /\ UNCHANGED <<bound, conns, pend, est, wire, sent, got, overrun, dups>>

\* A SYN makes a socket and a descriptor for the connection.  One is modelled:
\* for another SYN there is no descriptor left, unless the connection is still
\* there, when the new socket stays as it is.
_start_establish(s) ==
    [_tcp_init_sock EXCEPT !.state = "SYNRECV", !.rnext = 1]

\* One round of the loop of _tcp_accept: a SYN, a connection, or both.
AcceptRound ==
    /\ At("l", "accept")
    /\ pend > 0 \/ est # {}
    /\ LET new == pend > 0 /\ sock["s"].worker = "none"
           s == IF new THEN ConnectionAdded(_start_establish(sock["s"])) ELSE sock["s"]
           done == est # {}
           t == IF done THEN [s EXCEPT !.flags = @ \cup {"CONNEC", "ACCEPTED"}, !.refs = @ - 1]
                ELSE s
       IN  /\ pend' = IF pend > 0 THEN pend - 1 ELSE pend
           /\ est' = {}
           /\ conns' = IF new THEN conns \cup {"s"} ELSE conns
           /\ wire' = IF new THEN [wire EXCEPT !["s"] =
                                     Append(@, __tcp_sendmsg(t, {"SYN", "ACK"}, <<>>))]
                      ELSE wire
           /\ sock' = [sock EXCEPT !["s"] = t, !["l"].refs = IF done THEN @ - 1 ELSE @]
           /\ IF done THEN Returns("l") ELSE UNCHANGED user
    /\ UNCHANGED <<bound, sent, got, overrun, dups>>

\* Nothing to take: the test is made again once the blockpoint is on the list.
AcceptFindsNone ==
    /\ At("l", "accept")
    /\ pend = 0 /\ est = {}
    /\ Goes("l", "acceptblock", 0, {})
    /\ UNCHANGED <<sock, bound, conns, pend, est, wire, sent, got, overrun, dups>>
NothingToAccept == pend = 0 /\ est = {}
AcceptBlocks ==
    /\ At("l", "acceptblock")
    /\ IF NothingToAccept
       THEN Goes("l", "acceptsleep", 0, {"pend"})
       ELSE Goes("l", "accept", 0, {})
    /\ UNCHANGED <<sock, bound, conns, pend, est, wire, sent, got, overrun, dups>>

\* A sleeping call goes on with its loop, or a signal ends it.
WakesUp(x, sleep, loop) ==
    /\ At(x, sleep) /\ user[Owner(x)].woken
    /\ Goes(x, loop, user[Owner(x)].len, {})
    /\ UNCHANGED <<sock, bound, conns, pend, est, wire, sent, got, overrun, dups>>
Interrupted(x) ==
    /\ \E pc \in {"acceptsleep", "recvsleep", "sendsleep"} : At(x, pc)
    /\ ~user[Owner(x)].woken
    /\ Returns(x)
    /\ sock' = [sock EXCEPT ![x].refs = @ - 1]
    /\ UNCHANGED <<bound, conns, pend, est, wire, sent, got, overrun, dups>>

\* _do_send, _do_recv: the flags of the socket come first.
Connected(x) == "SHUTDOWN" \notin sock[x].flags /\ "CONNEC" \in sock[x].flags

sys_send(x) ==
    /\ x \in End /\ Calls(x) /\ Connected(x)
    /\ \E n \in 1 .. MayWrite(x) - sent[x] : Goes(x, "send", n, {})
    /\ sock' = [sock EXCEPT ![x].refs = @ + 1]
    /\ UNCHANGED <<bound, conns, pend, est, wire, sent, got, overrun, dups>>

sys_recv(x) ==
    /\ x \in End /\ Calls(x) /\ Connected(x)
    /\ \E n \in 1 .. W : Goes(x, "recv", n, {})
    /\ sock' = [sock EXCEPT ![x].refs = @ + 1]
    /\ UNCHANGED <<bound, conns, pend, est, wire, sent, got, overrun, dups>>

\* The part of _tcp_send that holds txlock: as much as the buffer has room for.
Enqueued(s, from, n) ==
    [s EXCEPT !.tx = [i \in DOMAIN @ |-> LET k == (i - s.snext - s.pending) % W IN
                                         IF k < n THEN from + k + 1 ELSE @[i]],
              !.pending = @ + n, !.avail = @ - n]
_tcp_send(x) ==
    /\ At(x, "send")
    /\ LET s == sock[x]
           len == user[Owner(x)].len
           n == Least(len, s.avail)
       IN  IF s.state # "ESTABLISHED"
           THEN /\ Returns(x)
                /\ sock' = [sock EXCEPT ![x].refs = @ - 1]
                /\ UNCHANGED sent
           ELSE /\ sent' = [sent EXCEPT ![x] = @ + n]
                /\ \/ /\ n < len
                      /\ Goes(x, "sendblock", len - n, {})
                      /\ sock' = [sock EXCEPT ![x] = UnblockWorker(Enqueued(s, sent[x], n))]
                   \/ /\ Returns(x)    \* all written, or _MSG_NONBLOCK
                      /\ sock' = [sock EXCEPT ![x] =
                                    UnblockWorker([Enqueued(s, sent[x], n) EXCEPT !.refs = @ - 1])]
    /\ UNCHANGED <<bound, conns, pend, est, wire, got, overrun, dups>>
SendBlocks(x) ==
    /\ At(x, "sendblock")
    /\ IF sock[x].avail = 0
       THEN Goes(x, "sendsleep", user[Owner(x)].len, {"tx"})
       ELSE Goes(x, "send", user[Owner(x)].len, {})
    /\ UNCHANGED <<sock, bound, conns, pend, est, wire, sent, got, overrun, dups>>

\* The part of _tcp_recv that holds rxlock.
_tcp_recv(x) ==
    /\ At(x, "recv")
    /\ LET s == sock[x]
           have == W - s.rwin
           n == Least(user[Owner(x)].len, have)
           data == [i \in 1 .. n |-> s.rx[(s.rnext - have + i - 1) % W]]
       IN  IF s.state # "ESTABLISHED"
           THEN /\ Returns(x)
                /\ sock' = [sock EXCEPT ![x].refs = @ - 1]
                /\ UNCHANGED got
           ELSE /\ got' = [got EXCEPT ![x] = @ \o data]
                /\ \/ /\ n = 0
                      /\ Goes(x, "recvblock", user[Owner(x)].len, {})
                      /\ UNCHANGED sock
                   \/ /\ Returns(x)    \* some read, or _MSG_NONBLOCK
                      /\ sock' = [sock EXCEPT ![x].rwin = @ + n, ![x].refs = @ - 1]
    /\ UNCHANGED <<bound, conns, pend, est, wire, sent, overrun, dups>>
RecvBlocks(x) ==
    /\ At(x, "recvblock")
    /\ IF sock[x].rwin = W
       THEN Goes(x, "recvsleep", user[Owner(x)].len, {"rx"})
       ELSE Goes(x, "recv", user[Owner(x)].len, {})
    /\ UNCHANGED <<sock, bound, conns, pend, est, wire, sent, got, overrun, dups>>

\* The last close of the file: _socket_fops_destroy and _tcp_shutdown.
CloseJoins(x) ==
    /\ Calls(x) /\ x \in Closes
    /\ Goes(x, "join", 0, {})
    /\ sock' = [sock EXCEPT ![x] = UnblockWorker([@ EXCEPT !.joining = TRUE])]
    /\ UNCHANGED <<bound, conns, pend, est, wire, sent, got, overrun, dups>>
CloseJoinsAgain(x) ==
    /\ At(x, "join")
    /\ sock[x].worker = "asleep" /\ ~sock[x].wwoken
    /\ sock' = [sock EXCEPT ![x] = UnblockWorker(@)]
    /\ UNCHANGED <<bound, conns, pend, est, wire, user, sent, got, overrun, dups>>
CloseFrees(x) ==
    /\ At(x, "join") /\ sock[x].worker = "exit"
    /\ Goes(x, "fin", 0, {})
    /\ sock' = [sock EXCEPT ![x].mem = FALSE]
    /\ UNCHANGED <<bound, conns, pend, est, wire, sent, got, overrun, dups>>
Unbound(s) == [s EXCEPT !.refs = @ - 1]
CloseEnds(x) ==
    /\ At(x, "fin")
    /\ Returns(x)
    /\ LET s == sock[x]
           fin == s.state = "ESTABLISHED"
           t == IF "BOUND" \in s.flags THEN Unbound(s) ELSE s
       IN  /\ sock' = [sock EXCEPT ![x] = [t EXCEPT !.state = IF fin THEN "FINWAIT1" ELSE @,
                                                    !.file = FALSE, !.refs = @ - 1]]
           /\ wire' = IF fin THEN [wire EXCEPT ![x] =
                                     Append(@, __tcp_sendmsg(s, {"FIN", "ACK"}, <<>>))]
                      ELSE wire
           /\ bound' = bound \ {x}
    /\ UNCHANGED <<conns, pend, est, sent, got, overrun, dups>>

-----------------------------------------------------------------------------

TcpNext ==
    \/ \E x \in End : tcp_recv(x)
    \/ \E x \in Sock : _tcp_worker(x)
    \/ sys_listen \/ sys_connect \/ ConnectFails \/ ConnectReturns
    \/ sys_accept \/ AcceptRound \/ AcceptFindsNone \/ AcceptBlocks
    \/ WakesUp("l", "acceptsleep", "accept")
    \/ \E x \in End : \/ sys_send(x) \/ _tcp_send(x) \/ SendBlocks(x)
                      \/ WakesUp(x, "sendsleep", "send")
                      \/ sys_recv(x) \/ _tcp_recv(x) \/ RecvBlocks(x)
                      \/ WakesUp(x, "recvsleep", "recv")
    \/ \E x \in Sock : \/ Interrupted(x)
                       \/ CloseJoins(x) \/ CloseJoinsAgain(x) \/ CloseFrees(x)
                       \/ CloseEnds(x)

TcpSpec == TcpInit /\ [][TcpNext]_vars

-----------------------------------------------------------------------------
(* Properties. *)



\* Nobody sleeps over work that is there: not accept over a segment or a
\* connection in the listener's lists, not recv over received data, not the
\* worker over bytes it may send.
NobodySleepsOverWork ==
    /\ \A u \in User :
        LET w == user[u] IN
        w.lists # {} /\ ~w.woken =>
            /\ "pend" \in w.lists /\ w.on = "l" => pend = 0 /\ est = {}
            /\ "rx" \in w.lists => sock[w.on].rwin = W
    /\ \A x \in Sock :
        sock[x].worker = "asleep" /\ ~sock[x].wwoken =>
            sock[x].pending = 0 \/ sock[x].swin = 0
=============================================================================
