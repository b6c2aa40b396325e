----------------------------- MODULE ServerNode -----------------------------
(***************************************************************************)
(* A server: SpwRmapTCPServer over TCPServer. One thread accepts a         *)
(* connection and runs the loop on it, again and again; another may call   *)
(* shutdown. shutdown_mtx_ is held over all of acceptOnce, the wait for a  *)
(* peer included.                                                          *)
(***************************************************************************)
EXTENDS Sockets

CONSTANT MaxAccepts \* bound: calls of acceptOnce

ASSUME ServerAssumption == MaxAccepts \in Nat

VARIABLES
    clientFd,      \* client_fd_: a connection, 0 for -1
    srvMtx,        \* who holds shutdown_mtx_: free or serve
    srvShutdowned, \* shutdowned_
    srvPc,         \* where the serving thread is
    srvAddr,       \* the address accept_once is at, 1 outside
    srvResult,     \* what runLoop returned after the last acceptOnce
    accepts,       \* calls of acceptOnce
    stopPc         \* the stopping thread: idle, stopped or refused

serverVars == <<clientFd, srvMtx, srvShutdowned, srvPc, srvAddr, srvResult,
                accepts, stopPc>>

AcceptPcs == {"listen", "accept", "sendTimeout"}
ServePcs  == {"recv", "reply", "eof", "failed"}
SrvPcs    == {"idle"} \union AcceptPcs \union ServePcs
Results   == {"none", "ended", "receive_error", "reply_error",
              "shutdown_error"}

ServerInit ==
    /\ clientFd = 0
    /\ srvMtx = "free"
    /\ srvShutdowned = FALSE
    /\ srvPc = "idle"
    /\ srvAddr = 1
    /\ srvResult = "none"
    /\ accepts = 0
    /\ stopPc = "idle"

\* TCPServer::shutdown succeeds, or fails.
ShutdownOk    == clientFd # 0 /\ conns' = ServerEnd(clientFd, "shut")
ShutdownFails == ServerShutdownMayFail(clientFd) /\ UNCHANGED conns

-----------------------------------------------------------------------------
(* acceptOnce()                                                            *)

\* The mutex is taken; unless the name does not resolve the loop over the
\* addresses begins.
AcceptOnce ==
    /\ srvPc = "idle" /\ srvMtx = "free" /\ accepts < MaxAccepts
    /\ accepts' = accepts + 1
    /\ srvResult' = "none"
    /\ \/ UNCHANGED <<srvMtx, srvPc>>
       \/ /\ srvMtx' = "serve"
          /\ srvPc' = "listen"
    /\ UNCHANGED <<clientFd, srvShutdowned, srvAddr, stopPc, netVars>>

\* The loop does not stop at the last address.
ListenPastEnd ==
    /\ srvPc = "listen"
    /\ listenFd' = 0
    /\ srvAddr' = srvAddr + 1
    /\ UNCHANGED <<clientFd, srvMtx, srvShutdowned, srvPc, srvResult, accepts,
                   stopPc, abandoned, conns>>

\* socket, bind and listen on one address; a failure leaves no descriptor and
\* goes on with the next. The listening socket of an address before this one,
\* if it is still open, is forgotten.
Listen ==
    /\ srvPc = "listen" /\ srvAddr <= NumAddrs
    /\ abandoned' = abandoned \union ({listenFd} \ {0})
    /\ conns' = Unlistened(conns, "stuck")
    /\ \/ /\ listenFd' = srvAddr
          /\ srvPc' = "accept"
          /\ UNCHANGED srvAddr
       \/ /\ listenFd' = 0
          /\ srvAddr' = srvAddr + 1
          /\ UNCHANGED srvPc
    /\ UNCHANGED <<clientFd, srvMtx, srvShutdowned, srvResult, accepts, stopPc>>

\* The listening socket is closed, and with it the connections among cs that
\* wait there.
CloseListener(cs) ==
    /\ conns' = Unlistened(cs, "closed")
    /\ listenFd' = 0
    /\ UNCHANGED abandoned

\* accept returns the first connection in the queue. Its options are set, and
\* the loop goes on with the next address all the same; or they cannot be set,
\* and both descriptors are closed.
Accept ==
    /\ srvPc = "accept"
    /\ srvPc' = "listen"
    /\ srvAddr' = srvAddr + 1
    /\ \E c \in Conns :
         /\ conns[c].server = "queued"
         /\ \A d \in Conns : conns[d].server = "queued" => c <= d
         /\ \/ /\ clientFd' = c
               /\ conns' = ServerEnd(c, "open")
               /\ UNCHANGED listenVars
            \/ /\ clientFd' = 0
               /\ CloseListener(ServerEnd(c, "closed"))
    /\ UNCHANGED <<srvMtx, srvShutdowned, srvResult, accepts, stopPc>>

\* accept returns an error, and -1 is stored in client_fd_.
AcceptFails ==
    /\ srvPc = "accept"
    /\ srvPc' = "listen"
    /\ srvAddr' = srvAddr + 1
    /\ clientFd' = 0
    /\ CloseListener(conns)
    /\ UNCHANGED <<srvMtx, srvShutdowned, srvResult, accepts, stopPc>>

\* After the last address: success if client_fd_ names a connection, whose
\* listening socket is then closed.
Accepted ==
    /\ srvPc = "listen" /\ srvAddr > NumAddrs
    /\ srvAddr' = 1
    /\ \/ /\ clientFd = 0
          /\ srvPc' = "idle"
          /\ srvMtx' = "free"
          /\ UNCHANGED netVars
       \/ /\ clientFd # 0
          /\ srvPc' = "sendTimeout"
          /\ CloseListener(conns)
          /\ UNCHANGED srvMtx
    /\ UNCHANGED <<clientFd, srvShutdowned, srvResult, accepts, stopPc>>

\* setSendTimeout; if it fails the connection is shut down.
AcceptSendTimeout ==
    /\ srvPc = "sendTimeout"
    /\ srvMtx' = "free"
    /\ \/ /\ srvShutdowned' = FALSE
          /\ srvPc' = "recv"
          /\ UNCHANGED conns
       \/ /\ srvPc' = "idle"
          /\ ShutdownOk \/ ShutdownFails
          /\ UNCHANGED srvShutdowned
    /\ UNCHANGED <<clientFd, srvAddr, srvResult, accepts, stopPc, listenVars>>

-----------------------------------------------------------------------------
(* runLoop()                                                               *)

\* runLoop returns, and the serving thread may accept again.
LoopReturns(r) == srvPc' = "idle" /\ srvResult' = r

\* A command arrives; what was received before an end was shut can be read.
Serve ==
    /\ srvPc = "recv"
    /\ conns[clientFd].command
    /\ conns' = [conns EXCEPT ![clientFd].command = FALSE]
    /\ srvPc' = "reply"
    /\ UNCHANGED <<clientFd, srvMtx, srvShutdowned, srvAddr,
                   srvResult, accepts, stopPc, listenVars>>

\* The reply is sent, or the loop returns the error of the send.
Reply ==
    /\ srvPc = "reply"
    /\ \/ /\ conns[clientFd].server = "open"
          /\ conns' = SendReply(clientFd)
          /\ srvPc' = "recv"
          /\ UNCHANGED srvResult
       \/ /\ ServerSeesEnd(clientFd)
          /\ LoopReturns("reply_error")
          /\ UNCHANGED conns
    /\ UNCHANGED <<clientFd, srvMtx, srvShutdowned, srvAddr, accepts,
                   stopPc, listenVars>>

\* A receive of 0 bytes is taken for nothing to receive yet.
ServeEndRetried ==
    /\ srvPc = "recv"
    /\ conns[clientFd].client = "closed" /\ srvPc' = "failed"
    /\ UNCHANGED <<clientFd, srvMtx, srvShutdowned, srvAddr,
                   srvResult, accepts, stopPc, netVars>>

\* The server's recvSome returns 0 at the end of the stream, and an error when
\* the peer has reset the connection.
ServeEnd ==
    /\ srvPc = "recv"
    /\ \/ ServerSeesEnd(clientFd) /\ srvPc' = "eof"
       \/ conns[clientFd].client = "closed" /\ srvPc' = "failed"
    /\ UNCHANGED <<clientFd, srvMtx, srvShutdowned, srvAddr,
                   srvResult, accepts, stopPc, netVars>>

\* poll calls shutdown at the end of the stream.
ServeEof ==
    /\ srvPc = "eof" /\ srvMtx = "free"
    /\ srvShutdowned' = TRUE
    /\ \/ ShutdownOk /\ LoopReturns("ended")
       \/ ShutdownFails /\ LoopReturns("shutdown_error")
    /\ UNCHANGED <<clientFd, srvMtx, srvAddr, accepts, stopPc,
                   listenVars>>

\* An error ends the loop quietly when the node is shut down.
ServeFailed ==
    /\ srvPc = "failed" /\ srvMtx = "free"
    /\ LoopReturns(IF srvShutdowned THEN "ended" ELSE "receive_error")
    /\ UNCHANGED <<clientFd, srvMtx, srvShutdowned, srvAddr, accepts,
                   stopPc, netVars>>

-----------------------------------------------------------------------------
(* shutdown() by another thread                                            *)

\* It waits for the mutex, all the time that acceptOnce waits for a peer.
ShutdownServer ==
    /\ stopPc = "idle" /\ srvMtx = "free"
    /\ srvShutdowned' = TRUE
    /\ \/ ShutdownOk /\ stopPc' = "stopped"
       \/ ShutdownFails /\ stopPc' = "refused"
    /\ UNCHANGED <<clientFd, srvMtx, srvPc, srvAddr, srvResult,
                   accepts, listenVars>>

-----------------------------------------------------------------------------
\* The steps of the serving thread inside its calls.
ServeStep ==
    \/ Listen
    \/ Accept
    \/ Accepted
    \/ AcceptSendTimeout
    \/ Serve
    \/ Reply
    \/ ServeEnd
    \/ ServeEof
    \/ ServeFailed

=============================================================================
