--------------------------------- MODULE Unix --------------------------------
(***************************************************************************)
(* Unix domain sockets: kernel/net/unix.c and the calls of                 *)
(* kernel/fs/socket.c that lead to it.                                     *)
(*                                                                         *)
(* A listening socket "l", clients that connect to it, sockets made by     *)
(* accept.  Each socket is used by one thread; "l" may be closed while     *)
(* accept waits on it.  The two byte streams of a connection (kernel/      *)
(* charbuffer.c, see Pipe) carry messages, of which they hold Cap.         *)
(***************************************************************************)
EXTENDS Integers, Sequences, FiniteSets

CONSTANTS
    Client,     \* sockets that connect
    Server,     \* sockets that accept can make
    Cap,        \* capacity of a stream
    MaxMsgs,    \* bound: messages sent on each socket
    NULL

VARIABLES
    sock,       \* the sockets
    con,        \* struct unix_connection, by the server socket it was made with
    bound,      \* whether "l" is in bound_sockets
    named,      \* whether the inode of its name exists
    pend,       \* pend_con of "l", oldest first
    pc,         \* where the thread of each socket is
    taken,      \* the client that accept has removed from the list
    asleep,     \* threads in schedule()
    woken,      \* of those, the ones that have been unblocked
    msgs        \* messages sent on each socket, for the bound

vars == <<sock, con, bound, named, pend, pc, taken, asleep, woken, msgs>>

Sock == {"l"} \cup Client \cup Server

Unused == [file |-> FALSE, flags |-> {}, con |-> NULL, refs |-> 0, lost |-> 0]
\* sys_socket: the file has the only reference.
Fresh == [Unused EXCEPT !.file = TRUE, !.refs = 1]
NoCon == [refs |-> 0, server |-> NULL, client |-> NULL, terminating |-> FALSE,
          in |-> 0, out |-> 0]

UnixInit ==
    /\ sock = [x \in Sock |-> IF x \in Server THEN Unused ELSE Fresh]
    /\ con = [x \in Server |-> NoCon]
    /\ bound = FALSE /\ named = FALSE
    /\ pend = <<>>
    /\ pc = [x \in Sock |-> "idle"]
    /\ taken = NULL
    /\ asleep = {} /\ woken = {}
    /\ msgs = [x \in Sock |-> 0]

Goes(x, l) == pc' = [pc EXCEPT ![x] = l]
Free(x) == sock[x].file /\ pc[x] = "idle"

-----------------------------------------------------------------------------
(* Connections. *)

\* create_connection(server, client)
NewCon(s, c) == [NoCon EXCEPT !.refs = 2, !.server = s, !.client = c]
Joined(x, k) == [x EXCEPT !.con = k, !.refs = @ + 1, !.flags = @ \cup {"CONNEC"}]

\* cleanup_connection(sock, 0) where the connection is terminating: the socket
\* leaves it, and each drops the other's reference.
Left(x) ==
    [x EXCEPT !.con = NULL, !.refs = @ - 1,
              !.flags = (@ \ {"CONNEC"}) \cup {"SHUTDOWN"}]
Without(k, x) ==
    [k EXCEPT !.refs = @ - 1,
              !.server = IF @ = x THEN NULL ELSE @,
              !.client = IF @ = x /\ k.server # x THEN NULL ELSE @]

\* The stream a socket reads, the one it writes.
Reads(x) == IF con[sock[x].con].server = x THEN "in" ELSE "out"
Writes(x) == IF con[sock[x].con].server = x THEN "out" ELSE "in"

Connected(x) == "CONNEC" \in sock[x].flags /\ "SHUTDOWN" \notin sock[x].flags

cleanup_connection(x) ==
    /\ sock' = [sock EXCEPT ![x] = Left(@)]
    /\ con' = [con EXCEPT ![sock[x].con] = Without(@, x)]

_unix_send(x) ==
    /\ Free(x) /\ Connected(x) /\ msgs[x] < MaxMsgs
    /\ LET k == sock[x].con IN
       IF con[k].terminating
       THEN cleanup_connection(x)
       ELSE /\ con[k][Writes(x)] < Cap
            /\ con' = [con EXCEPT ![k][Writes(x)] = @ + 1]
            /\ UNCHANGED sock
    /\ msgs' = [msgs EXCEPT ![x] = @ + 1]
    /\ UNCHANGED <<bound, named, pend, pc, taken, asleep, woken>>

\* What was sent before the end can still be read; then the read returns 0.
_unix_recv(x) ==
    /\ Free(x) /\ Connected(x)
    /\ LET k == sock[x].con IN
       \/ /\ con[k][Reads(x)] > 0
          /\ con' = [con EXCEPT ![k][Reads(x)] = @ - 1]
          /\ UNCHANGED sock
       \/ /\ con[k][Reads(x)] = 0 /\ con[k].terminating
          /\ cleanup_connection(x)
    /\ UNCHANGED <<bound, named, pend, pc, taken, asleep, woken, msgs>>

-----------------------------------------------------------------------------
(* Binding and connecting. *)

\* sys_open creates the name; where it exists the bind fails.
_unix_bind ==
    /\ Free("l") /\ ~named
    /\ named' = TRUE /\ bound' = TRUE
    /\ sock' = [sock EXCEPT !["l"].flags = @ \cup {"BOUND"}, !["l"].refs = @ + 1]
    /\ UNCHANGED <<con, pend, pc, taken, asleep, woken, msgs>>

\* _unix_connect: the listener's reference is held during the call.  A socket
\* connects once: were it still in the list, its one entry would be there twice.
_unix_connect(x) ==
    /\ x \in Client /\ Free(x)
    /\ sock[x].flags = {} /\ \A i \in DOMAIN pend : pend[i] # x
    /\ taken # x
    /\ bound
    /\ Goes(x, "connect")
    /\ sock' = [sock EXCEPT !["l"].refs = @ + 1, ![x].refs = @ + 1]
    /\ UNCHANGED <<con, bound, named, pend, taken, asleep, woken, msgs>>

Queued == woken \cup ({"l"} \cap asleep)
ConnectQueues(x) ==
    /\ pc[x] = "connect"
    /\ Goes(x, "connecting")
    /\ pend' = Append(pend, x)
    /\ sock' = [sock EXCEPT ![x].refs = @ + 1]
    /\ asleep' = asleep \cup {x}
    /\ woken' = Queued
    /\ UNCHANGED <<con, bound, named, taken, msgs>>

\* Unblocked, or after a second of waiting.  A connect that timed out leaves the
\* socket in the list.
ConnectReturns(x) ==
    /\ pc[x] = "connecting"
    /\ Goes(x, "idle")
    /\ asleep' = asleep \ {x} /\ woken' = woken \ {x}
    /\ sock' = [sock EXCEPT !["l"].refs = @ - 1, ![x].refs = @ - 1]
    /\ UNCHANGED <<con, bound, named, pend, taken, msgs>>

-----------------------------------------------------------------------------
(* Accepting. *)

_unix_accept ==
    /\ Free("l")
    /\ Goes("l", "accept")
    /\ sock' = [sock EXCEPT !["l"].refs = @ + 1]
    /\ UNCHANGED <<con, bound, named, pend, taken, asleep, woken, msgs>>

AcceptEnds ==
    /\ pc' = [pc EXCEPT !["l"] = "idle"]
    /\ sock' = [sock EXCEPT !["l"].refs = @ - 1]

\* The loop looks at SF_BOUND before it takes the list's lock.
AcceptLoop ==
    /\ pc["l"] = "accept"
    /\ IF "BOUND" \in sock["l"].flags
       THEN Goes("l", "acceptlist") /\ UNCHANGED sock
       ELSE AcceptEnds
    /\ UNCHANGED <<con, bound, named, pend, taken, asleep, woken, msgs>>
AcceptLooks ==
    /\ pc["l"] = "acceptlist"
    /\ IF pend = <<>>
       THEN /\ Goes("l", "acceptsleep")
            /\ asleep' = asleep \cup {"l"}
            /\ UNCHANGED <<pend, taken>>
       ELSE /\ Goes("l", "acceptmake")
            /\ taken' = Head(pend) /\ pend' = Tail(pend)
            /\ UNCHANGED asleep
    /\ UNCHANGED <<sock, con, bound, named, woken, msgs>>
AcceptWakes ==
    /\ pc["l"] = "acceptsleep" /\ "l" \in woken
    /\ Goes("l", "accept")
    /\ asleep' = asleep \ {"l"} /\ woken' = woken \ {"l"}
    /\ UNCHANGED <<sock, con, bound, named, pend, taken, msgs>>

\* The socket for the connection, and the connection, for a client that may have
\* given up by now; without a descriptor the client's reference is lost.
AcceptMakes ==
    /\ pc["l"] = "acceptmake"
    /\ Goes("l", "idle")
    /\ taken' = NULL
    /\ \/ \E s \in Server :
            /\ sock[s].refs = 0 /\ con[s].refs = 0 /\ ~sock[s].file
            /\ sock' = [sock EXCEPT ![s] = Joined(Fresh, s),
                                    ![taken] = [Joined(@, s) EXCEPT !.refs = @ - 1],
                                    !["l"].refs = @ - 1]
            /\ con' = [con EXCEPT ![s] = NewCon(s, taken)]
            /\ woken' = woken \cup ({taken} \cap asleep)
       \/ /\ \A s \in Server : sock[s].refs > 0
          /\ sock' = [sock EXCEPT ![taken].lost = @ + 1, !["l"].refs = @ - 1]
          /\ UNCHANGED <<con, woken>>
    /\ UNCHANGED <<bound, named, pend, asleep, msgs>>

\* sys_socketpair makes a connection of two new sockets.
sys_socketpair ==
    /\ \E s \in Server, c \in Client :
        /\ Free(c) /\ sock[c] = Fresh /\ sock[s] = Unused
        /\ sock' = [sock EXCEPT ![s] = Joined(Fresh, s), ![c] = Joined(@, s)]
        /\ con' = [con EXCEPT ![s] = NewCon(s, c)]
    /\ UNCHANGED <<bound, named, pend, pc, taken, asleep, woken, msgs>>

-----------------------------------------------------------------------------
(* Closing: _socket_fops_destroy and _unix_shutdown. *)

\* terminate_connection, then cleanup_connection.
Ended(k, x) == Without([k EXCEPT !.terminating = TRUE], x)
\* The threads waiting in accept are woken.
Unbound == woken \cup ({"l"} \cap asleep)
_unix_shutdown(x) ==
    /\ sock[x].file
    /\ pc[x] = "idle" \/ x = "l"
    /\ LET k == sock[x].con
           s == IF k = NULL THEN sock[x] ELSE Left(sock[x])
           b == "BOUND" \in s.flags
       IN  /\ con' = IF k = NULL THEN con ELSE [con EXCEPT ![k] = Ended(@, x)]
           /\ sock' = [sock EXCEPT ![x] =
                         [s EXCEPT !.file = FALSE, !.refs = @ - 1,
                                   !.flags = @ \ {"BOUND"},
                                   !.lost = IF b THEN @ + 1 ELSE @]]
           /\ bound' = (bound /\ ~b)
           /\ woken' = IF b THEN Unbound ELSE woken
    /\ UNCHANGED <<named, pend, pc, taken, asleep, msgs>>

UnixNext ==
    \/ _unix_bind
    \/ \E x \in Client : _unix_connect(x) \/ ConnectQueues(x) \/ ConnectReturns(x)
    \/ _unix_accept \/ AcceptLoop \/ AcceptLooks \/ AcceptWakes \/ AcceptMakes
    \/ sys_socketpair
    \/ \E x \in Sock : _unix_send(x) \/ _unix_recv(x) \/ _unix_shutdown(x)

UnixSpec == UnixInit /\ [][UnixNext]_vars

-----------------------------------------------------------------------------
(* Properties. *)

Count(b) == IF b THEN 1 ELSE 0

\* Every pointer to a socket is counted: by its file, bound_sockets, the list of
\* pending connections, its connection, accept, and the calls on it; so is every
\* pointer to a connection.  The references that are never given back (a bound
\* socket's at shutdown) are the only others.
UnixRefsAddUp ==
    /\ \A x \in Sock :
        sock[x].refs =
            Count(sock[x].file) + sock[x].lost + Count(x = "l" /\ bound)
            + Cardinality({i \in DOMAIN pend : pend[i] = x}) + Count(taken = x)
            + Cardinality({k \in Server : x \in {con[k].server, con[k].client}})
            + Count(pc[x] # "idle")
            + (IF x = "l" THEN Cardinality({c \in Client : pc[c] \in {"connect", "connecting"}})
               ELSE 0)
    /\ \A k \in Server : con[k].refs = Cardinality({x \in Sock : sock[x].con = k})

\* accept (_unix_accept) does not sleep while a client is in the list, and a client
\* that accept has connected does not sleep in _unix_connect.
UnixWakeups ==
    /\ "l" \in asleep \ woken => pend = <<>>
    /\ \A x \in Client : x \in asleep \ woken => "CONNEC" \notin sock[x].flags
=============================================================================
