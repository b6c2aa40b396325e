------------------------------ MODULE Sockets ------------------------------
(***************************************************************************)
(* TCP as the two backends use it: the server's listening sockets, and the *)
(* connections made so far with the state of the descriptor at either end. *)
(* Between its ends a connection carries at most one command and at most   *)
(* one reply.                                                              *)
(*                                                                         *)
(* The server sets SO_REUSEPORT. An address may then have several          *)
(* listening sockets, and a connection made to it waits at any of them.    *)
(***************************************************************************)
EXTENDS Integers, Sequences

CONSTANTS
    NumAddrs, \* addresses getaddrinfo yields for the host
    MaxConns  \* bound: connections made

ASSUME SocketsAssumption == NumAddrs \in Nat \ {0} /\ MaxConns \in Nat

VARIABLES
    listenFd,  \* listen_fd_: an address, 0 for -1
    abandoned, \* addresses with a listening socket the server has forgotten
    conns      \* the connections, in the order they were made

listenVars == <<listenFd, abandoned>>
netVars    == <<listenVars, conns>>

Addrs == 1 .. NumAddrs
Conns == 1 .. Len(conns)

ClientEnds == {"open", "shut", "closed"}

\* Before it is accepted a connection is queued at listen_fd_, or stuck at a
\* socket nobody accepts from.
ServerEnds == {"queued", "stuck", "open", "shut", "closed"}

Connection ==
    [client : ClientEnds, server : ServerEnds, command : BOOLEAN,
     reply : BOOLEAN]

NetInit == listenFd = 0 /\ abandoned = {} /\ conns = <<>>

\* The three-way handshake with a listening socket; end is the state in which
\* the client leaves its descriptor.
Handshake(a, end) ==
    /\ Len(conns) < MaxConns
    /\ \E queue \in {"queued", "stuck"} :
         /\ IF queue = "queued" THEN a = listenFd ELSE a \in abandoned
         /\ conns' = Append(conns, [client |-> end, server |-> queue,
                                    command |-> FALSE, reply |-> FALSE])
    /\ UNCHANGED listenVars

\* One end of the connection k is shut down or closed. What has not been
\* received goes with a closed end.
ClientEnded(k, end) ==
    [k EXCEPT !.client = end, !.reply = k.reply /\ end # "closed"]

ServerEnded(k, end) ==
    [k EXCEPT !.server = end, !.command = k.command /\ end # "closed"]

\* The same for connection c, where 0 is no descriptor.
ClientEnd(c, end) ==
    IF c = 0 THEN conns ELSE [conns EXCEPT ![c] = ClientEnded(@, end)]

ServerEnd(c, end) ==
    IF c = 0 THEN conns ELSE [conns EXCEPT ![c] = ServerEnded(@, end)]

\* The connections cs when listen_fd_ is closed, which resets those that wait
\* there, or is overwritten, after which nobody will accept them.
Unlistened(cs, end) ==
    [c \in DOMAIN cs |->
       IF cs[c].server = "queued" THEN ServerEnded(cs[c], end) ELSE cs[c]]

\* A command or a reply is sent on connection c; a closed end receives nothing.
SendCommand(c) == [conns EXCEPT ![c].command = conns[c].server # "closed"]
SendReply(c)   == [conns EXCEPT ![c].reply = conns[c].client # "closed"]

\* recv comes back without data: either end is shut or closed.
ClientSeesEnd(c) ==
    conns[c].client # "open" \/ conns[c].server \in {"shut", "closed"}

ServerSeesEnd(c) == conns[c].server # "open" \/ conns[c].client # "open"

\* shutdown fails without a descriptor (bad_file_descriptor), and may fail once
\* the other end has closed (ENOTCONN).
ClientShutdownMayFail(c) == c # 0 => conns[c].server = "closed"
ServerShutdownMayFail(c) == c # 0 => conns[c].client = "closed"

=============================================================================
