-------------------------------- MODULE Link --------------------------------
(***************************************************************************)
(* A Python client and a server on one host name, composed: the client is  *)
(* started, used, stopped, started again and destroyed while the server    *)
(* accepts, serves and is shut down.                                       *)
(***************************************************************************)
EXTENDS ClientNode, ServerNode

vars == <<clientVars, serverVars, netVars>>

Init == NetInit /\ ClientInit /\ ServerInit

Client == (AppCalls \/ AppStep \/ LoopStep) /\ UNCHANGED serverVars

Server ==
    /\ AcceptOnce \/ AcceptFails \/ ServeStep \/ ShutdownServer
    /\ undefined = "no"
    /\ UNCHANGED clientVars

\* The system may stop once the client is destroyed, and does so after
\* undefined behaviour.
Finished ==
    /\ undefined # "no" \/ appPc = "gone"
    /\ UNCHANGED vars

Next == Client \/ Server \/ Finished

Spec == Init /\ [][Next]_vars

\* Every thread inside a call goes on: connect, wait_for and the attempts have
\* time limits. Not so accept, which waits for a peer, and no call need be
\* made, that of shutdown on the server included.
Fairness ==
    /\ WF_vars(AppStep /\ UNCHANGED serverVars)
    /\ WF_vars(LoopStep /\ UNCHANGED serverVars)
    /\ WF_vars(ServeStep /\ undefined = "no" /\ UNCHANGED clientVars)

FairSpec == Spec /\ Fairness

-----------------------------------------------------------------------------
(* Properties.                                                             *)

\* One type invariant for client, server and network.
TypeOK ==
    /\ listenFd \in 0 .. NumAddrs /\ abandoned \subseteq Addrs
    /\ conns \in Seq(Connection) /\ Len(conns) <= MaxConns
    /\ backend \in {"live", "null"} /\ fd \in 0 .. Len(conns)
    /\ shutdowned \in BOOLEAN /\ mtx \in {"free", "app"}
    /\ running \in BOOLEAN /\ connected \in BOOLEAN
    /\ thread \in {"none", "joinable"} /\ threadError \in {"none", "error"}
    /\ appPc \in AppPcs /\ addr \in Addrs
    /\ failed \in BOOLEAN /\ starts \in 0 .. MaxStarts
    /\ loopPc \in LoopPcs /\ loopConn \in 0 .. Len(conns)
    /\ undefined \in {"no", "null", "freed"}
    /\ clientFd \in 0 .. Len(conns)
    /\ srvMtx \in {"free", "serve"} /\ srvShutdowned \in BOOLEAN
    /\ srvPc \in SrvPcs /\ srvAddr \in 1 .. NumAddrs + 1
    /\ srvResult \in Results /\ accepts \in 0 .. MaxAccepts
    /\ stopPc \in {"idle", "stopped", "refused"}

\* Whenever start goes on to connect, nothing is left of the worker before it:
\* it has ended and been joined, its flags are clear and its error has been
\* thrown, so that a new thread_ is never assigned over a joinable one and no
\* old error is charged to the new connection.
FreshStart ==
    appPc \in {"connect", "connectAddr", "sendTimeout", "spawn"} =>
        /\ thread = "none" /\ loopPc \in {"none", "done"}
        /\ ~running /\ ~connected /\ threadError = "none"

\* shutdown is only called on a node that has a backend and a descriptor: the
\* flags of stop are never set without a connection behind them, whatever the
\* worker does between the two times stop reads connected_.
ShutdownFindsBackend ==
    appPc \in {"shutdown", "shutdownEnd"} => backend = "live" /\ fd # 0

\* The worker reports an error only when the server's end of its connection is
\* gone: a stop never makes the loop it wakes look as if it had failed, since
\* isShutdowned waits for the shutdown that woke it.
CleanStop ==
    threadError = "error" => conns[loopConn].server \in {"shut", "closed"}

\* The client keeps no descriptor it does not know of: whatever connect, the
\* attempts at other addresses, stop and the destructor did, an end that is
\* not closed is the fd_ of a live backend.
ClientDescriptorsOwned ==
    \A c \in Conns : conns[c].client # "closed" => backend = "live" /\ fd = c

\* "Call node.stop() to shut down and join the worker thread" (README): the
\* worker is joined, and until then it never calls a backend that the shutdown
\* of stop has destroyed.
WorkerKeepsBackend == undefined # "freed"

\* stop and the destructor return: the worker they join always comes out of
\* its receive.
StopReturns ==
    appPc \in StopPcs ~> appPc \in {"idle", "gone"} \/ undefined # "no"

\* A client whose server has gone notices: the worker ends and running_ and
\* connected_ are cleared, so that start is possible again.
LossNoticed ==
    (loopPc = "recv" /\ conns[loopConn].server \in {"shut", "closed"})
        ~> (~running /\ ~connected) \/ undefined # "no"

\* A serving loop whose connection is over ends, whatever it was doing: whether
\* the client ended it, shutdown of another thread did, or it was over before
\* the loop was run.
ServerStops ==
    (srvPc \in ServePcs /\ ServerSeesEnd(clientFd))
        ~> srvPc = "idle" \/ undefined # "no"

=============================================================================
