----------------------------- MODULE ClientNode -----------------------------
(***************************************************************************)
(* A client and its owner: SpwRmapTCPClient over TCPClient, used by the    *)
(* Python class through start, stop, read and write. The calls are made by *)
(* one thread at a time (they hold Python's GIL); the other thread is the  *)
(* worker start creates, which runs runLoop.                               *)
(*                                                                         *)
(* shutdown_mtx_ is held over connect and over shutdown. The worker reads  *)
(* tcp_backend_ without it: what happens when the backend goes away under  *)
(* its hands is recorded in undefined, and ends the behaviour.             *)
(***************************************************************************)
EXTENDS Sockets

CONSTANT MaxStarts \* bound: times connect tries the addresses

ASSUME ClientAssumption == MaxStarts \in Nat

VARIABLES
    backend,     \* tcp_backend_: live or null
    fd,          \* fd_ of the backend: a connection, 0 for -1
    shutdowned,  \* shutdowned_
    mtx,         \* who holds shutdown_mtx_
    running,     \* running_
    connected,   \* connected_
    thread,      \* thread_: none or joinable
    threadError, \* thread_error_: an error runLoop returned, or none
    appPc,       \* where the calling thread is
    addr,        \* the address connect is trying, 1 outside connect
    failed,      \* the shutdown of this stop has returned an error
    starts,      \* times connect has tried the addresses
    loopPc,      \* where the worker is
    loopConn,    \* the connection it is receiving from
    undefined    \* no, null: a null backend used, freed: one destroyed

flagVars   == <<running, connected, thread, threadError>>
nodeVars   == <<backend, fd, shutdowned, mtx>>
appVars    == <<appPc, addr, failed, starts>>
loopVars   == <<loopPc, loopConn>>
clientVars == <<nodeVars, flagVars, appVars, loopVars, undefined>>

StopPcs == {"stopCheck", "stopConnected", "shutdown", "shutdownEnd", "join"}
AppPcs  == StopPcs \union {"idle", "startJoin", "connect", "connectAddr",
                           "sendTimeout", "spawn", "wait", "gone"}
LoopPcs == {"none", "check", "call", "recv", "failed", "store",
            "clearRunning", "clearConnected", "done"}

ClientInit ==
    /\ backend = "live"
    /\ fd = 0
    /\ shutdowned = FALSE
    /\ mtx = "free"
    /\ running = FALSE
    /\ connected = FALSE
    /\ thread = "none"
    /\ threadError = "none"
    /\ appPc = "idle"
    /\ addr = 1
    /\ failed = FALSE
    /\ starts = 0
    /\ loopPc = "none"
    /\ loopConn = 0
    /\ undefined = "no"

App(p)   == appPc = p /\ undefined = "no"
Loop(p)  == loopPc = p /\ undefined = "no"
AppTo(p) == appPc' = p

-----------------------------------------------------------------------------
(* start()                                                                 *)

\* start does not look for a worker that has ended.
StartUnjoined ==
    /\ App("idle") /\ starts < MaxStarts
    /\ \/ running /\ UNCHANGED appPc
       \/ ~running /\ AppTo("connect")
    /\ UNCHANGED <<nodeVars, flagVars, addr, failed, starts, loopVars,
                   undefined, netVars>>

\* It throws when running; a worker that has ended is joined first.
Start ==
    /\ App("idle") /\ starts < MaxStarts
    /\ \/ running /\ UNCHANGED appPc
       \/ ~running /\ thread = "joinable" /\ AppTo("startJoin")
       \/ ~running /\ thread = "none" /\ AppTo("connect")
    /\ UNCHANGED <<nodeVars, flagVars, addr, failed, starts, loopVars,
                   undefined, netVars>>

\* joinThread_, then rethrowThreadError_, which throws what the worker left.
StartJoin ==
    /\ App("startJoin") /\ loopPc = "done"
    /\ thread' = "none"
    /\ threadError' = "none"
    /\ AppTo(IF threadError = "none" THEN "connect" ELSE "idle")
    /\ UNCHANGED <<nodeVars, running, connected, addr, failed, starts,
                   loopVars, undefined, netVars>>

\* SpwRmapTCPClient::connect takes the mutex. A descriptor left by an earlier
\* connection is already_connected: it is closed and start throws. So it does
\* when the name does not resolve.
Connect ==
    /\ App("connect")
    /\ \/ /\ backend = "null"
          /\ undefined' = "null"
          /\ UNCHANGED <<nodeVars, appPc, starts, netVars>>
       \/ /\ backend = "live" /\ mtx = "free"
          /\ shutdowned' = FALSE
          /\ fd' = 0
          /\ conns' = ClientEnd(fd, "closed")
          /\ AppTo("idle")
          /\ UNCHANGED <<backend, mtx, starts, undefined, listenVars>>
       \/ /\ backend = "live" /\ mtx = "free" /\ fd = 0
          /\ mtx' = "app"
          /\ starts' = starts + 1
          /\ AppTo("connectAddr")
          /\ UNCHANGED <<backend, fd, shutdowned, undefined, netVars>>
    /\ UNCHANGED <<flagVars, addr, failed, loopVars>>

\* The descriptor of a failed attempt is forgotten, not closed.
AttemptLeaks == \/ UNCHANGED netVars
                \/ Handshake(addr, "open")

\* An attempt that fails (no socket, refused, timed out) leaves nothing, or a
\* connection that was made too late and is closed.
AttemptFails == \/ UNCHANGED netVars
                \/ Handshake(addr, "closed")

\* One pass of the loop over the addresses. After the last one connect
\* returns the error and start throws it.
ConnectAddr ==
    /\ App("connectAddr")
    /\ \/ /\ Handshake(addr, "open")
          /\ fd' = Len(conns')
          /\ addr' = 1
          /\ AppTo("sendTimeout")
          /\ UNCHANGED <<shutdowned, mtx>>
       \/ /\ AttemptFails
          /\ addr < NumAddrs
          /\ addr' = addr + 1
          /\ UNCHANGED <<fd, appPc, shutdowned, mtx>>
       \/ /\ AttemptFails
          /\ addr = NumAddrs
          /\ addr' = 1
          /\ shutdowned' = FALSE
          /\ mtx' = "free"
          /\ AppTo("idle")
          /\ UNCHANGED fd
    /\ UNCHANGED <<backend, flagVars, failed, starts, loopVars, undefined>>

\* connect forgets to return the error of setSendTimeout.
SendTimeoutIgnored ==
    /\ App("sendTimeout")
    /\ shutdowned' = FALSE
    /\ mtx' = "free"
    /\ AppTo("spawn")
    /\ \/ UNCHANGED <<fd, conns>>
       \/ conns' = ClientEnd(fd, "closed") /\ fd' = 0
    /\ UNCHANGED <<backend, flagVars, addr, failed, starts, loopVars,
                   undefined, listenVars>>

\* setSendTimeout; if it fails the connection is closed again.
SendTimeout ==
    /\ App("sendTimeout")
    /\ shutdowned' = FALSE
    /\ mtx' = "free"
    /\ \/ /\ AppTo("spawn")
          /\ UNCHANGED <<fd, conns>>
       \/ /\ conns' = ClientEnd(fd, "closed")
          /\ fd' = 0
          /\ AppTo("idle")
    /\ UNCHANGED <<backend, flagVars, addr, failed, starts, loopVars,
                   undefined, listenVars>>

\* The flags are set and the worker is created.
Spawn ==
    /\ App("spawn")
    /\ connected' = TRUE
    /\ running' = TRUE
    /\ threadError' = "none"
    /\ thread' = "joinable"
    /\ loopPc' = "check"
    /\ loopConn' = fd
    /\ AppTo("idle")
    /\ UNCHANGED <<nodeVars, addr, failed, starts, undefined, netVars>>

-----------------------------------------------------------------------------
(* stop() and read(), write()                                              *)

\* if (!running_.load() && !connected_.load()), one load after the other
Stop ==
    /\ App("idle")
    /\ AppTo(IF running THEN "stopConnected" ELSE "stopCheck")
    /\ UNCHANGED <<nodeVars, flagVars, addr, failed, starts, loopVars,
                   undefined, netVars>>

StopCheck ==
    /\ App("stopCheck")
    /\ AppTo(IF connected THEN "stopConnected" ELSE "join")
    /\ UNCHANGED <<nodeVars, flagVars, addr, failed, starts, loopVars,
                   undefined, netVars>>

\* if (connected_.load())
StopConnected ==
    /\ App("stopConnected")
    /\ \/ connected /\ AppTo("shutdown") /\ UNCHANGED running
       \/ ~connected /\ AppTo("join") /\ running' = FALSE
    /\ UNCHANGED <<nodeVars, connected, thread, threadError, addr, failed,
                   starts, loopVars, undefined, netVars>>

\* SpwRmapTCPClient::shutdown: ::shutdown wakes the worker while the mutex is
\* held. It fails without a descriptor or a connection. The backend is there
\* (ShutdownFindsBackend), so that the test for it changes nothing.
Shutdown ==
    /\ App("shutdown") /\ mtx = "free"
    /\ \/ /\ fd # 0
          /\ conns' = ClientEnd(fd, "shut")
          /\ UNCHANGED failed
       \/ /\ ClientShutdownMayFail(fd)
          /\ failed' = TRUE
          /\ UNCHANGED conns
    /\ mtx' = "app"
    /\ AppTo("shutdownEnd")
    /\ UNCHANGED <<backend, fd, shutdowned, flagVars, addr, starts, loopVars,
                   undefined, listenVars>>

\* shutdowned_ is set; on success the backend is destroyed, and with it the
\* descriptor. stop clears its flags and joins the worker.
ShutdownEnd ==
    /\ App("shutdownEnd")
    /\ shutdowned' = TRUE
    /\ \/ failed /\ UNCHANGED <<backend, fd, conns>>
       \/ /\ ~failed
          /\ backend' = "null"
          /\ fd' = 0
          /\ conns' = ClientEnd(fd, "closed")
    /\ mtx' = "free"
    /\ connected' = FALSE
    /\ running' = FALSE
    /\ AppTo("join")
    /\ UNCHANGED <<thread, threadError, addr, failed, starts, loopVars,
                   undefined, listenVars>>

\* joinThread_ and rethrowThreadError_; stop returns or throws. At the end of
\* the destructor, which calls stop, the node goes away with its backend.
Join ==
    /\ App("join")
    /\ thread = "joinable" => loopPc = "done"
    /\ thread' = "none"
    /\ threadError' = "none"
    /\ failed' = FALSE
    /\ \/ /\ AppTo("idle")
          /\ UNCHANGED <<backend, fd, conns>>
       \/ /\ AppTo("gone")
          /\ backend' = "null"
          /\ fd' = 0
          /\ conns' = ClientEnd(fd, "closed")
    /\ UNCHANGED <<shutdowned, mtx, running, connected, addr, starts,
                   loopVars, undefined, listenVars>>

\* read and write: checkThreadError_ throws what the worker left, a missing
\* backend or a bad descriptor fails the send; otherwise a command goes out.
Request ==
    /\ App("idle")
    /\ threadError = "none" /\ backend = "live" /\ fd # 0
    /\ conns[fd].client = "open" /\ ~conns[fd].command
    /\ conns' = SendCommand(fd)
    /\ AppTo("wait")
    /\ UNCHANGED <<nodeVars, flagVars, addr, failed, starts, loopVars,
                   undefined, listenVars>>

\* The future is ready, or a second has passed.
RequestEnds ==
    /\ App("wait")
    /\ AppTo("idle")
    /\ UNCHANGED <<nodeVars, flagVars, addr, failed, starts, loopVars,
                   undefined, netVars>>

-----------------------------------------------------------------------------
(* The worker: runLoop, and what the thread does when it returns           *)

\* if (!tcp_backend_): the worker sees the backend, or not_connected.
LoopCheck ==
    /\ Loop("check")
    /\ loopPc' = IF backend = "live" THEN "call" ELSE "failed"
    /\ UNCHANGED <<nodeVars, flagVars, appVars, loopConn, undefined, netVars>>

\* tcp_backend_->recvSome(buffer), which reads fd_ of the backend.
LoopCall ==
    /\ Loop("call")
    /\ \/ backend = "live" /\ loopPc' = "recv" /\ UNCHANGED undefined
       \/ backend = "null" /\ undefined' = "freed" /\ UNCHANGED loopPc
    /\ UNCHANGED <<nodeVars, flagVars, appVars, loopConn, netVars>>

\* A reply arrives and is handled; poll is called again.
LoopReceive ==
    /\ Loop("recv")
    /\ conns[loopConn].client # "closed" /\ conns[loopConn].reply
    /\ conns' = [conns EXCEPT ![loopConn].reply = FALSE]
    /\ loopPc' = "check"
    /\ UNCHANGED <<nodeVars, flagVars, appVars, loopConn, undefined,
                   listenVars>>

\* The client's recvSome makes an error of the end of the stream.
LoopEnd ==
    /\ Loop("recv")
    /\ ClientSeesEnd(loopConn)
    /\ loopPc' = "failed"
    /\ UNCHANGED <<nodeVars, flagVars, appVars, loopConn, undefined, netVars>>

\* isShutdowned reads the flag without the mutex.
LoopFailedUnlocked ==
    /\ Loop("failed")
    /\ loopPc' = IF shutdowned THEN "clearRunning" ELSE "store"
    /\ UNCHANGED <<nodeVars, flagVars, appVars, loopConn, undefined, netVars>>

\* poll asks to be called again when the node is shut down.
LoopFailedRetries ==
    /\ Loop("failed") /\ mtx = "free"
    /\ loopPc' = IF shutdowned THEN "check" ELSE "store"
    /\ UNCHANGED <<nodeVars, flagVars, appVars, loopConn, undefined, netVars>>

\* isShutdowned decides whether runLoop returns the error.
LoopFailed ==
    /\ Loop("failed") /\ mtx = "free"
    /\ loopPc' = IF shutdowned THEN "clearRunning" ELSE "store"
    /\ UNCHANGED <<nodeVars, flagVars, appVars, loopConn, undefined, netVars>>

LoopStore ==
    /\ Loop("store")
    /\ threadError' = "error"
    /\ loopPc' = "clearRunning"
    /\ UNCHANGED <<nodeVars, running, connected, thread, appVars, loopConn,
                   undefined, netVars>>

\* The worker ends with running_ still set.
LoopClearSkipped ==
    /\ Loop("clearRunning")
    /\ loopPc' = "clearConnected"
    /\ UNCHANGED <<nodeVars, flagVars, appVars, loopConn, undefined, netVars>>

LoopClearRunning ==
    /\ Loop("clearRunning")
    /\ running' = FALSE
    /\ loopPc' = "clearConnected"
    /\ UNCHANGED <<nodeVars, connected, thread, threadError, appVars, loopConn,
                   undefined, netVars>>

LoopClearConnected ==
    /\ Loop("clearConnected")
    /\ connected' = FALSE
    /\ loopPc' = "done"
    /\ UNCHANGED <<nodeVars, running, thread, threadError, appVars, loopConn,
                   undefined, netVars>>

-----------------------------------------------------------------------------
\* What the calling thread does of its own accord, and what a call it is in
\* does next.
AppCalls == Start \/ Stop \/ Request

AppStep ==
    \/ StartJoin
    \/ Connect
    \/ ConnectAddr
    \/ SendTimeout
    \/ Spawn
    \/ StopCheck
    \/ StopConnected
    \/ Shutdown
    \/ ShutdownEnd
    \/ Join
    \/ RequestEnds

LoopStep ==
    \/ LoopCheck
    \/ LoopCall
    \/ LoopReceive
    \/ LoopEnd
    \/ LoopFailed
    \/ LoopStore
    \/ LoopClearRunning
    \/ LoopClearConnected

=============================================================================
