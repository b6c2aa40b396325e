----------------------------- MODULE LinkProofs -----------------------------
(***************************************************************************)
(* The theorems about Link: what holds of the client's threads, flags and  *)
(* descriptors whatever the number of addresses, connections, starts and   *)
(* accepts, and whatever the server does.                                  *)
(***************************************************************************)
EXTENDS Link, SequenceTheorems, TLAPS

ConnectPcs == {"connect", "connectAddr", "sendTimeout", "spawn"}

\* The worker is inside runLoop.
InLoop == {"check", "call", "recv", "failed"}

\* The server's end of connection c is gone.
Gone(c) == conns[c].server \in {"shut", "closed"}

\* What the steps need to know of the values of the variables.
Typed ==
    /\ conns \in Seq(Connection)
    /\ fd \in 0 .. Len(conns) /\ loopConn \in 0 .. Len(conns)
    /\ backend \in {"live", "null"} /\ addr \in Addrs
    /\ appPc \in AppPcs /\ loopPc \in LoopPcs
    /\ thread \in {"none", "joinable"} /\ threadError \in {"none", "error"}
    /\ running \in BOOLEAN /\ connected \in BOOLEAN

\* The server's descriptor is that of a connection, while it uses it.
ServerTyped ==
    /\ clientFd \in 0 .. Len(conns)
    /\ srvPc \in ServePcs \union {"sendTimeout"} => clientFd # 0

\* Flags, errors and the state of the thread object follow the worker.
Worker ==
    /\ thread = "none" => loopPc \in {"none", "done"}
    /\ running => loopPc \notin {"none", "clearConnected", "done"}
    /\ connected => loopPc \notin {"none", "done"}
    /\ threadError = "error" =>
         /\ thread = "joinable"
         /\ loopPc \in {"clearRunning", "clearConnected", "done"}
    /\ appPc \in ConnectPcs => thread = "none"
    /\ loopPc # "none" => loopConn # 0

\* There is a connection behind connected_ and in the calls that use it.
Backing ==
    /\ connected => backend = "live" /\ fd # 0
    /\ ShutdownFindsBackend
    /\ appPc = "shutdownEnd" => mtx = "app"
    /\ appPc = "connectAddr" => backend = "live" /\ fd = 0
    /\ appPc \in {"sendTimeout", "spawn"} =>
         backend = "live" /\ fd # 0 /\ conns[fd].client = "open"

\* shutdown has begun on this connection.
Stopping == shutdowned \/ appPc = "shutdownEnd"

\* The worker comes out of the loop because of a stop or of the server.
Cause ==
    /\ loopPc \in InLoop =>
         Stopping \/ (backend = "live" /\ conns[loopConn].client = "open")
    /\ loopPc = "failed" => Gone(loopConn) \/ Stopping
    /\ loopPc = "store" => Gone(loopConn)
    /\ CleanStop

\* The inductive invariant.
LInv ==
    /\ Typed /\ ServerTyped /\ Worker /\ Backing /\ Cause
    /\ ClientDescriptorsOwned

-----------------------------------------------------------------------------
(* What the steps do to the connections.                                   *)

\* The server's steps leave the client's ends alone and bring back no server's
\* end that is gone.
ServerMove ==
    /\ conns' \in Seq(Connection) /\ Len(conns') = Len(conns)
    /\ \A c \in Conns :
         conns'[c].client = conns[c].client /\ (Gone(c) => Gone(c)')

\* Changing one connection keeps the others.
LEMMA OneConnection ==
    ASSUME conns \in Seq(Connection), NEW c \in Conns, NEW r \in Connection,
           conns' = [conns EXCEPT ![c] = r]
    PROVE  /\ conns' \in Seq(Connection) /\ Len(conns') = Len(conns)
           /\ conns'[c] = r
           /\ \A d \in Conns : d # c => conns'[d] = conns[d]
BY ExceptSeq DEF Conns

\* Shutting or closing one end of a connection leaves the other as it is.
LEMMA EndedConnection ==
    ASSUME NEW k \in Connection
    PROVE  /\ \A e \in ClientEnds :
                /\ ClientEnded(k, e) \in Connection
                /\ ClientEnded(k, e).client = e
                /\ ClientEnded(k, e).server = k.server
           /\ \A e \in ServerEnds :
                /\ ServerEnded(k, e) \in Connection
                /\ ServerEnded(k, e).client = k.client
                /\ ServerEnded(k, e).server = e
<1>1. /\ k \in [client : ClientEnds, server : ServerEnds, command : BOOLEAN,
                reply : BOOLEAN]
      /\ k.command \in BOOLEAN /\ k.reply \in BOOLEAN
  BY DEF Connection
<1>2. \A e : /\ (k.command /\ e # "closed") \in BOOLEAN
             /\ (k.reply /\ e # "closed") \in BOOLEAN
  OBVIOUS
<1> QED
  BY <1>1, <1>2 DEF ClientEnded, ServerEnded, Connection

\* The server's end of one connection moves on.
LEMMA ServerEndMove ==
    ASSUME conns \in Seq(Connection), NEW c \in 0 .. Len(conns),
           NEW e \in ServerEnds, conns' = ServerEnd(c, e),
           e = "open" => c # 0 /\ ~Gone(c), e \notin {"queued", "stuck"}
    PROVE  ServerMove
<1>1. CASE c = 0
  BY <1>1 DEF ServerEnd, ServerMove, Gone
<1>2. CASE c # 0
  <2> DEFINE r == ServerEnded(conns[c], e)
  <2>1. c \in Conns /\ conns[c] \in Connection
    BY <1>2 DEF Conns
  <2>2. r \in Connection /\ r.client = conns[c].client /\ r.server = e
    BY <2>1, EndedConnection
  <2>3. conns' = [conns EXCEPT ![c] = r]
    BY <1>2 DEF ServerEnd
  <2> HIDE DEF r
  <2>4. /\ conns' \in Seq(Connection) /\ Len(conns') = Len(conns)
        /\ conns'[c] = r
        /\ \A d \in Conns : d # c => conns'[d] = conns[d]
    BY <2>1, <2>2, <2>3, OneConnection
  <2> QED
    BY <2>2, <2>4 DEF ServerMove, Gone, ServerEnds
<1> QED
  BY <1>1, <1>2

\* Closing or forgetting the listening socket is no concern of the connections
\* that have been accepted.
LEMMA UnlistenedMove ==
    ASSUME NEW cs \in Seq(Connection), NEW end \in {"stuck", "closed"}
    PROVE  LET ds == Unlistened(cs, end)
           IN  /\ ds \in Seq(Connection) /\ Len(ds) = Len(cs)
               /\ \A c \in 1 .. Len(cs) :
                    /\ ds[c].client = cs[c].client
                    /\ cs[c].server \in {"shut", "closed"} =>
                         ds[c].server \in {"shut", "closed"}
<1> DEFINE ds == Unlistened(cs, end)
<1>1. DOMAIN cs = 1 .. Len(cs) /\ Len(cs) \in Nat
  BY LenProperties
<1>2. \A c \in 1 .. Len(cs) :
        ds[c] = IF cs[c].server = "queued"
                THEN ServerEnded(cs[c], end) ELSE cs[c]
  BY <1>1 DEF Unlistened
<1>3. \A c \in 1 .. Len(cs) : cs[c] \in Connection
  BY ElementOfSeq
<1>4. \A c \in 1 .. Len(cs) :
        /\ ds[c] \in Connection
        /\ ds[c].client = cs[c].client
        /\ cs[c].server \in {"shut", "closed"} =>
             ds[c].server \in {"shut", "closed"}
  BY <1>2, <1>3, EndedConnection DEF ServerEnds
<1>5. ds \in [1 .. Len(cs) -> Connection]
  BY <1>1, <1>4 DEF Unlistened
<1>6. ds \in Seq(Connection) /\ Len(ds) = Len(cs)
  BY <1>1, <1>5
<1> QED
  BY <1>4, <1>6

\* Every step of the server is such a move, and keeps its own descriptor.
LEMMA ServerSteps ==
    ASSUME conns \in Seq(Connection), ServerTyped, Server
    PROVE  ServerMove /\ ServerTyped'
<1> USE DEF netVars, listenVars, ServePcs
<1>1. Len(conns) \in Nat /\ Conns = 1 .. Len(conns)
  BY LenProperties DEF Conns
<1>2. UNCHANGED conns => ServerMove
  BY DEF ServerMove, Gone
<1>3. ShutdownOk \/ ShutdownFails => ServerMove
  <2>1. CASE ShutdownOk
    BY <2>1, ServerEndMove DEF ShutdownOk, ServerTyped, ServerEnds
  <2>2. CASE ShutdownFails
    BY <2>2, <1>2 DEF ShutdownFails
  <2> QED
    BY <2>1, <2>2
<1>4. ServerMove /\ clientFd' = clientFd => clientFd' \in 0 .. Len(conns')
  BY DEF ServerMove, ServerTyped
<1>5. CASE AcceptOnce \/ Listen \/ ServeEnd \/ ServeFailed
  <2>1. ServerMove /\ clientFd' = clientFd
    <3>1. CASE Listen
      BY <1>1, <3>1, UnlistenedMove DEF Listen, ServerMove, Gone
    <3>2. CASE ~Listen
      BY <1>2, <1>5, <3>2, Zenon
      DEF AcceptOnce, ServeEnd, ServeFailed, LoopReturns
    <3> QED
      BY <3>1, <3>2
  <2>2. srvPc' \in ServePcs \union {"sendTimeout"} =>
          srvPc \in ServePcs \union {"sendTimeout"}
    BY <1>5, Zenon DEF AcceptOnce, Listen, ServeEnd, ServeFailed,
                LoopReturns
  <2> QED
    BY <1>4, <2>1, <2>2, Zenon DEF ServerTyped
<1>6. CASE Accept
  <2> PICK c \in Conns :
        /\ conns[c].server = "queued"
        /\ \/ clientFd' = c /\ conns' = ServerEnd(c, "open")
           \/ /\ clientFd' = 0
              /\ conns' = Unlistened(ServerEnd(c, "closed"), "closed")
    BY <1>6 DEF Accept, CloseListener
  <2>1. c \in 0 .. Len(conns) /\ c # 0
    BY <1>1
  <2>2. CASE clientFd' = c /\ conns' = ServerEnd(c, "open")
    <3>1. ServerMove
      BY <2>1, <2>2, ServerEndMove DEF Gone, ServerEnds
    <3> QED
      BY <1>6, <2>1, <2>2, <3>1 DEF ServerTyped, Accept, ServerMove
  <2>3. CASE /\ clientFd' = 0
             /\ conns' = Unlistened(ServerEnd(c, "closed"), "closed")
    <3> DEFINE cs == ServerEnd(c, "closed")
               r == ServerEnded(conns[c], "closed")
    <3>1. conns[c] \in Connection
      BY <1>1, ElementOfSeq
    <3>2. /\ r \in Connection /\ r.client = conns[c].client
          /\ r.server = "closed"
      BY <3>1, EndedConnection DEF ServerEnds
    <3>3. cs = [conns EXCEPT ![c] = r]
      BY <2>1 DEF ServerEnd
    <3> HIDE DEF r, cs
    <3>4. /\ cs \in Seq(Connection) /\ Len(cs) = Len(conns)
          /\ \A d \in Conns : cs[d] = IF d = c THEN r ELSE conns[d]
      BY <1>1, <3>2, <3>3, ExceptSeq
    <3>5. conns' = Unlistened(cs, "closed")
      BY <2>3 DEF cs
    <3>6. ServerMove
      BY <1>1, <3>2, <3>4, <3>5, UnlistenedMove DEF ServerMove, Gone
    <3> QED
      BY <1>6, <2>3, <3>6 DEF ServerTyped, Accept, ServerMove
  <2> QED
    BY <2>2, <2>3
<1>7. CASE AcceptFails
  <2>1. ServerMove
    BY <1>1, <1>7, UnlistenedMove
    DEF AcceptFails, CloseListener, ServerMove, Gone
  <2> QED
    BY <1>7, <2>1 DEF AcceptFails, ServerTyped, ServerMove
<1>8. CASE Accepted
  <2>1. ServerMove
    BY <1>1, <1>2, <1>8, UnlistenedMove
    DEF Accepted, CloseListener, ServerMove, Gone
  <2> QED
    BY <1>4, <1>8, <2>1 DEF Accepted, CloseListener, ServerTyped
<1>9. CASE AcceptSendTimeout \/ ServeEof \/ ShutdownServer
  <2>1. ServerMove /\ clientFd' = clientFd
    BY <1>2, <1>3, <1>9, Zenon
    DEF AcceptSendTimeout, ServeEof, ShutdownServer, LoopReturns
  <2>2. srvPc' \in ServePcs \union {"sendTimeout"} =>
          srvPc \in ServePcs \union {"sendTimeout"}
    BY <1>9, Zenon DEF AcceptSendTimeout, ServeEof, ShutdownServer, LoopReturns
  <2> QED
    BY <1>4, <2>1, <2>2, Zenon DEF ServerTyped
<1>10. CASE Serve \/ Reply
  <2>1. clientFd' = clientFd /\ clientFd \in Conns
    BY <1>1, <1>10 DEF Serve, Reply, ServerTyped
  <2>2. conns[clientFd] \in Connection
    BY <1>1, <2>1, ElementOfSeq
  <2>3. ServerMove
    <3> DEFINE r == [conns[clientFd] EXCEPT !.command = FALSE]
               q == [conns[clientFd] EXCEPT !.reply =
                                              conns[clientFd].client # "closed"]
    <3>1. /\ r \in Connection /\ r.client = conns[clientFd].client
          /\ r.server = conns[clientFd].server
      BY <2>2 DEF Connection
    <3>2. /\ q \in Connection /\ q.client = conns[clientFd].client
          /\ q.server = conns[clientFd].server
      BY <2>2 DEF Connection
    <3>3. \/ UNCHANGED conns
          \/ conns' = [conns EXCEPT ![clientFd] = r]
          \/ conns' = [conns EXCEPT ![clientFd] = q]
      BY <1>10 DEF Serve, Reply, SendReply
    <3> HIDE DEF r, q
    <3> QED
      BY <1>2, <2>1, <3>1, <3>2, <3>3, OneConnection DEF ServerMove, Gone
  <2>4. srvPc \in ServePcs
    BY <1>10 DEF Serve, Reply
  <2> QED
    BY <1>4, <2>1, <2>3, <2>4, Zenon DEF ServerTyped
<1> QED
  BY <1>5, <1>6, <1>7, <1>8, <1>9, <1>10, Zenon DEF Server, ServeStep

\* Whatever the server does, the client's part of the invariant stays.
LEMMA ServerKeeps ==
    ASSUME LInv, Server
    PROVE  LInv'
<1>1. ServerMove /\ ServerTyped'
  BY ServerSteps DEF LInv, Typed
<1> USE DEF Server, clientVars, nodeVars, flagVars, appVars, loopVars
<1>2. Len(conns) \in Nat /\ Conns = 1 .. Len(conns) /\ Conns' = Conns
  BY <1>1, LenProperties DEF Conns, LInv, Typed, ServerMove
<1>3. Typed'
  BY <1>1 DEF LInv, Typed, ServerMove
<1>4. Worker'
  BY Zenon DEF LInv, Worker
<1>5. Backing'
  BY <1>1, <1>2 DEF LInv, Typed, Backing, ShutdownFindsBackend, ServerMove
<1>6. loopPc # "none" => loopConn \in Conns
  BY <1>2 DEF LInv, Typed, Worker
<1>7. Cause'
  BY <1>1, <1>6, Zenon
  DEF LInv, Cause, CleanStop, Worker, Stopping, ServerMove, Gone, InLoop
<1>8. ClientDescriptorsOwned'
  BY <1>1, <1>2, Zenon DEF LInv, ClientDescriptorsOwned, ServerMove
<1> QED
  BY <1>1, <1>3, <1>4, <1>5, <1>7, <1>8, Zenon DEF LInv

-----------------------------------------------------------------------------
(* The client's steps.                                                     *)

\* The client's end of its connection is shut or closed; nothing else is.
LEMMA ClientEndMove ==
    ASSUME Typed, NEW e \in ClientEnds, conns' = ClientEnd(fd, e)
    PROVE  /\ conns' \in Seq(Connection) /\ Len(conns') = Len(conns)
           /\ \A c \in Conns : Gone(c)' = Gone(c)
           /\ \A c \in Conns : c # fd => conns'[c].client = conns[c].client
           /\ fd # 0 => conns'[fd].client = e
<1>1. CASE fd = 0
  BY <1>1 DEF ClientEnd, Gone, Typed
<1>2. CASE fd # 0
  <2> DEFINE r == ClientEnded(conns[fd], e)
  <2>1. fd \in Conns /\ conns[fd] \in Connection
    BY <1>2, ElementOfSeq DEF Conns, Typed
  <2>2. r \in Connection /\ r.client = e /\ r.server = conns[fd].server
    BY <2>1, EndedConnection
  <2>3. conns' = [conns EXCEPT ![fd] = r]
    BY <1>2 DEF ClientEnd
  <2> HIDE DEF r
  <2>4. /\ conns' \in Seq(Connection) /\ Len(conns') = Len(conns)
        /\ conns'[fd] = r
        /\ \A d \in Conns : d # fd => conns'[d] = conns[d]
    BY <2>1, <2>2, <2>3, OneConnection DEF Typed
  <2> QED
    BY <2>2, <2>4 DEF Gone
<1> QED
  BY <1>1, <1>2

\* A new connection leaves the others alone.
LEMMA HandshakeMove ==
    ASSUME Typed, NEW e \in ClientEnds, Handshake(addr, e)
    PROVE  /\ conns' \in Seq(Connection) /\ Len(conns') = Len(conns) + 1
           /\ \A c \in Conns : conns'[c] = conns[c]
           /\ conns'[Len(conns')].client = e
<1> PICK queue \in {"queued", "stuck"} :
      conns' = Append(conns, [client |-> e, server |-> queue,
                              command |-> FALSE, reply |-> FALSE])
  BY DEF Handshake
<1> DEFINE r == [client |-> e, server |-> queue, command |-> FALSE,
                 reply |-> FALSE]
<1>1. r \in Connection /\ r.client = e
  BY DEF Connection, ServerEnds
<1>2. conns' = Append(conns, r)
  OBVIOUS
<1> HIDE DEF r
<1>3. /\ conns' \in Seq(Connection) /\ Len(conns') = Len(conns) + 1
      /\ \A c \in 1 .. Len(conns) : conns'[c] = conns[c]
      /\ conns'[Len(conns) + 1] = r
  BY <1>1, <1>2, AppendProperties DEF Typed
<1> QED
  BY <1>1, <1>3 DEF Conns

\* A command sent or a reply received changes neither end.
LEMMA TrafficMove ==
    ASSUME Typed, NEW c \in Conns,
           \/ conns' = SendCommand(c)
           \/ conns' = [conns EXCEPT ![c].reply = FALSE]
    PROVE  /\ conns' \in Seq(Connection) /\ Len(conns') = Len(conns)
           /\ \A d \in Conns :
                conns'[d].client = conns[d].client /\ Gone(d)' = Gone(d)
<1> DEFINE r == [conns[c] EXCEPT !.command = conns[c].server # "closed"]
           q == [conns[c] EXCEPT !.reply = FALSE]
<1>1. conns[c] \in Connection
  BY ElementOfSeq DEF Conns, Typed
<1>2. /\ r \in Connection /\ r.client = conns[c].client
      /\ r.server = conns[c].server
  BY <1>1 DEF Connection
<1>3. /\ q \in Connection /\ q.client = conns[c].client
      /\ q.server = conns[c].server
  BY <1>1 DEF Connection
<1>4. conns' = [conns EXCEPT ![c] = r] \/ conns' = [conns EXCEPT ![c] = q]
  BY DEF SendCommand
<1> HIDE DEF r, q
<1> QED
  BY <1>2, <1>3, <1>4, OneConnection DEF Typed, Gone

\* The flags, the threads and the places of the calls: every step of the client
\* keeps what Worker says of them.
LEMMA ClientWorker ==
    ASSUME LInv, AppCalls \/ AppStep \/ LoopStep
    PROVE  Worker'
<1> USE DEF LInv, Worker, Typed, ConnectPcs, App, Loop, AppTo,
            nodeVars, flagVars, appVars, loopVars
<1>1. CASE Start
  BY <1>1, Zenon DEF Start
<1>2. CASE Stop
  BY <1>2, Zenon DEF Stop
<1>3. CASE Request
  BY <1>3, Zenon DEF Request
<1>4. CASE StartJoin
  BY <1>4, Zenon DEF StartJoin
<1>5. CASE Connect
  BY <1>5, Zenon DEF Connect
<1>6. CASE ConnectAddr
  BY <1>6, Zenon DEF ConnectAddr
<1>7. CASE SendTimeout
  BY <1>7, Zenon DEF SendTimeout
<1>8. CASE Spawn
  BY <1>8, Zenon DEF Spawn, Backing
<1>9. CASE StopCheck
  BY <1>9, Zenon DEF StopCheck
<1>10. CASE StopConnected
  <2>1. CASE connected
    <3>1. appPc' = "shutdown" /\ UNCHANGED <<flagVars, loopVars>>
      BY <1>10, <2>1, Zenon DEF StopConnected
    <3> QED
      BY <3>1, Zenon
  <2>2. CASE ~connected
    BY <1>10, <2>2, Zenon DEF StopConnected
  <2> QED
    BY <2>1, <2>2, Zenon
<1>11. CASE Shutdown
  BY <1>11, Zenon DEF Shutdown
<1>12. CASE ShutdownEnd
  BY <1>12, Zenon DEF ShutdownEnd
<1>13. CASE Join
  BY <1>13, Zenon DEF Join
<1>14. CASE RequestEnds
  BY <1>14, Zenon DEF RequestEnds
<1>15. CASE LoopCheck
  BY <1>15, Zenon DEF LoopCheck
<1>16. CASE LoopCall
  BY <1>16, Zenon DEF LoopCall
<1>17. CASE LoopReceive
  BY <1>17, Zenon DEF LoopReceive
<1>18. CASE LoopEnd
  BY <1>18, Zenon DEF LoopEnd
<1>19. CASE LoopFailed
  BY <1>19, Zenon DEF LoopFailed
<1>20. CASE LoopStore
  BY <1>20, Zenon DEF LoopStore
<1>21. CASE LoopClearRunning
  BY <1>21, Zenon DEF LoopClearRunning
<1>22. CASE LoopClearConnected
  BY <1>22, Zenon DEF LoopClearConnected
<1> QED
  BY <1>1, <1>2, <1>3, <1>4, <1>5, <1>6, <1>7, <1>8, <1>9, <1>10, <1>11, <1>12,
     <1>13, <1>14, <1>15, <1>16, <1>17, <1>18, <1>19, <1>20, <1>21, <1>22,
     Zenon
  DEF AppCalls, AppStep, LoopStep

\* Every step of the client keeps what is behind connected_ and the calls.
LEMMA ClientBacking ==
    ASSUME LInv, AppCalls \/ AppStep \/ LoopStep
    PROVE  Typed' /\ Backing' /\ ClientDescriptorsOwned'
<1> DEFINE Goal == Typed' /\ Backing' /\ ClientDescriptorsOwned'
<1> USE DEF LInv, Typed, AppPcs, StopPcs, LoopPcs, App, Loop, AppTo,
            nodeVars, flagVars, appVars, loopVars, netVars, listenVars
<1>1. Len(conns) \in Nat /\ Conns = 1 .. Len(conns)
  BY LenProperties DEF Conns
<1>2. ASSUME UNCHANGED <<conns, fd, backend, loopConn, addr, mtx>>,
             appPc' \in AppPcs, loopPc' \in LoopPcs,
             threadError' \in {"none", "error"},
             thread' \in {"none", "joinable"},
             running' \in BOOLEAN, connected' \in BOOLEAN,
             connected' => connected,
             appPc' \in {"shutdown", "shutdownEnd"} =>
                appPc \in {"shutdown", "shutdownEnd"} \/ connected,
             appPc' # "shutdownEnd" \/ appPc = "shutdownEnd",
             appPc' # "connectAddr" \/ appPc = "connectAddr",
             appPc' \notin {"sendTimeout", "spawn"} \/ appPc' = appPc
      PROVE  Goal
  BY <1>2, Zenon
  DEF Backing, ShutdownFindsBackend, ClientDescriptorsOwned, Conns
<1>3. CASE Start
  BY <1>2, <1>3, Zenon DEF Start
<1>4. CASE Stop
  BY <1>2, <1>4, Zenon DEF Stop
<1>5. CASE StopCheck
  BY <1>2, <1>5, Zenon DEF StopCheck
<1>6. CASE RequestEnds
  BY <1>2, <1>6, Zenon DEF RequestEnds
<1>7. CASE StartJoin
  BY <1>2, <1>7, Zenon DEF StartJoin
<1>8. CASE StopConnected
  BY <1>2, <1>8, Zenon DEF StopConnected
<1>9. CASE LoopCheck
  BY <1>2, <1>9, Zenon DEF LoopCheck
<1>10. CASE LoopCall
  BY <1>2, <1>10, Zenon DEF LoopCall
<1>11. CASE LoopEnd
  BY <1>2, <1>11, Zenon DEF LoopEnd
<1>12. CASE LoopFailed
  BY <1>2, <1>12, Zenon DEF LoopFailed
<1>13. CASE LoopStore
  BY <1>2, <1>13, Zenon DEF LoopStore
<1>14. CASE LoopClearRunning
  BY <1>2, <1>14, Zenon DEF LoopClearRunning
<1>15. CASE LoopClearConnected
  BY <1>2, <1>15, Zenon DEF LoopClearConnected
<1>16. CASE Spawn
  BY <1>16, Zenon
  DEF Spawn, Backing, ShutdownFindsBackend, ClientDescriptorsOwned, Conns,
      Worker, ConnectPcs
<1>17. ASSUME NEW e \in ClientEnds, conns' = ClientEnd(fd, e)
       PROVE  /\ conns' \in Seq(Connection) /\ Len(conns') = Len(conns)
              /\ Conns' = Conns
              /\ fd # 0 => conns'[fd].client = e
              /\ \A c \in Conns : c # fd => conns'[c].client = conns[c].client
  BY <1>17, ClientEndMove DEF Conns
<1>18. \A c \in Conns : c # fd => conns[c].client = "closed"
  BY Zenon DEF ClientDescriptorsOwned
<1>19. ASSUME conns' = ClientEnd(fd, "closed"), fd' = 0,
              UNCHANGED <<loopConn, addr>>,
              backend' \in {"live", "null"}, appPc' \in AppPcs,
              loopPc' \in LoopPcs, thread' \in {"none", "joinable"},
              threadError' \in {"none", "error"},
              running' \in BOOLEAN, ~connected', connected' \in BOOLEAN,
              appPc' \notin {"shutdown", "shutdownEnd", "connectAddr",
                             "sendTimeout", "spawn"}
       PROVE  Goal
  <2>1. "closed" \in ClientEnds
    BY Zenon DEF ClientEnds
  <2>2. /\ conns' \in Seq(Connection) /\ Len(conns') = Len(conns)
        /\ Conns' = Conns
        /\ fd # 0 => conns'[fd].client = "closed"
        /\ \A c \in Conns : c # fd => conns'[c].client = conns[c].client
    BY <1>17, <1>19, <2>1, Zenon
  <2>3. Typed'
    BY <1>1, <1>19, <2>2
  <2>4. Backing'
    BY <1>19, Zenon DEF Backing, ShutdownFindsBackend
  <2>5. \A c \in Conns : conns'[c].client = "closed"
    BY <1>1, <1>18, <2>2
  <2> QED
    BY <2>2, <2>3, <2>4, <2>5, Zenon DEF ClientDescriptorsOwned
<1>20. CASE Connect
  <2>1. CASE backend = "null"
    BY <1>2, <1>20, <2>1, Zenon DEF Connect
  <2>2. CASE backend = "live" /\ appPc' = "idle"
    <3>1. ~connected
      BY <1>20, Zenon DEF Connect, Worker, ConnectPcs
    <3> QED
      BY <1>19, <1>20, <2>2, <3>1, Zenon DEF Connect
  <2>3. CASE backend = "live" /\ appPc' # "idle"
    <3>1. /\ fd = 0 /\ appPc' = "connectAddr"
          /\ UNCHANGED <<conns, fd, backend, loopConn, addr, flagVars, loopPc>>
      BY <1>20, <2>3, Zenon DEF Connect
    <3> QED
      BY <2>3, <3>1, Zenon
      DEF Backing, ShutdownFindsBackend, ClientDescriptorsOwned, Conns
  <2> QED
    BY <2>1, <2>2, <2>3, Zenon
<1>21. CASE SendTimeout
  <2>1. ~connected
    BY <1>21, Zenon DEF SendTimeout, Worker, ConnectPcs
  <2>2. CASE appPc' = "spawn"
    BY <1>21, <2>1, <2>2, Zenon
    DEF SendTimeout, Backing, ShutdownFindsBackend, ClientDescriptorsOwned,
        Conns
  <2>3. CASE appPc' # "spawn"
    BY <1>19, <1>21, <2>1, <2>3, Zenon DEF SendTimeout
  <2> QED
    BY <2>2, <2>3, Zenon
<1>22. CASE ShutdownEnd
  <2>1. CASE failed
    BY <1>22, <2>1, Zenon
    DEF ShutdownEnd, Backing, ShutdownFindsBackend, ClientDescriptorsOwned,
        Conns
  <2>2. CASE ~failed
    BY <1>19, <1>22, <2>2, Zenon DEF ShutdownEnd
  <2> QED
    BY <2>1, <2>2, Zenon
<1>23. CASE Join
  <2>1. ~connected
    BY <1>23, Zenon DEF Join, Worker
  <2>2. CASE appPc' = "idle"
    BY <1>2, <1>23, <2>2, Zenon DEF Join
  <2>3. CASE appPc' # "idle"
    BY <1>19, <1>23, <2>1, <2>3, Zenon DEF Join
  <2> QED
    BY <2>2, <2>3, Zenon
<1>24. CASE Shutdown
  <2>1. backend = "live" /\ fd # 0
    BY <1>24, Zenon DEF Shutdown, Backing, ShutdownFindsBackend
  <2>2. "shut" \in ClientEnds
    BY Zenon DEF ClientEnds
  <2>3. /\ appPc' = "shutdownEnd" /\ mtx' = "app"
        /\ UNCHANGED <<fd, backend, loopConn, addr, flagVars, loopPc>>
        /\ conns' = conns \/ conns' = ClientEnd(fd, "shut")
    BY <1>24, Zenon DEF Shutdown
  <2>4. /\ conns' \in Seq(Connection) /\ Len(conns') = Len(conns)
        /\ Conns' = Conns
        /\ \A c \in Conns : c # fd => conns'[c].client = conns[c].client
    BY <1>17, <2>2, <2>3 DEF Conns
  <2>5. Typed'
    BY <2>3, <2>4
  <2>6. Backing'
    BY <2>1, <2>3, Zenon DEF Backing, ShutdownFindsBackend
  <2>7. ClientDescriptorsOwned'
    BY <1>18, <2>1, <2>3, <2>4, Zenon DEF ClientDescriptorsOwned
  <2> QED
    BY <2>5, <2>6, <2>7, Zenon
<1>25. CASE Request \/ LoopReceive
  <2>1. /\ appPc' \in {"wait", appPc} /\ loopPc' \in LoopPcs
        /\ UNCHANGED <<fd, backend, loopConn, addr, mtx, flagVars>>
    BY <1>25, Zenon DEF Request, LoopReceive
  <2>2. /\ conns' \in Seq(Connection) /\ Len(conns') = Len(conns)
        /\ \A c \in Conns : conns'[c].client = conns[c].client
    <3>1. CASE Request
      <4>1. fd \in Conns
        BY <1>1, <3>1 DEF Request
      <4> QED
        BY <3>1, <4>1, TrafficMove DEF Request
    <3>2. CASE LoopReceive
      <4>1. loopConn \in Conns
        BY <1>1, <3>2 DEF LoopReceive, Worker
      <4> QED
        BY <3>2, <4>1, TrafficMove DEF LoopReceive
    <3> QED
      BY <1>25, <3>1, <3>2
  <2>3. Typed'
    BY <2>1, <2>2
  <2>4. Conns' = Conns
    BY <2>2 DEF Conns
  <2>5. fd # 0 => fd \in Conns
    BY <1>1
  <2>6. Backing'
    BY <2>1, <2>2, <2>5, Zenon DEF Backing, ShutdownFindsBackend
  <2>7. ClientDescriptorsOwned'
    BY <2>1, <2>2, <2>4, Zenon DEF ClientDescriptorsOwned
  <2> QED
    BY <2>3, <2>6, <2>7, Zenon
<1>26. CASE ConnectAddr
  <2>1. /\ fd = 0 /\ backend = "live" /\ ~connected
        /\ UNCHANGED <<backend, loopConn, flagVars, loopPc>>
    BY <1>26, Zenon DEF ConnectAddr, Backing, Worker, ConnectPcs
  <2>2. \A c \in Conns : conns[c].client = "closed"
    BY <1>1, <1>18, <2>1
  <2>3. CASE Handshake(addr, "open") /\ fd' = Len(conns') /\ addr' = 1
             /\ appPc' = "sendTimeout"
    <3>1. /\ conns' \in Seq(Connection) /\ Len(conns') = Len(conns) + 1
          /\ \A c \in Conns : conns'[c] = conns[c]
          /\ conns'[Len(conns')].client = "open"
      BY <2>3, HandshakeMove DEF ClientEnds
    <3>2. Typed'
      BY <1>1, <2>1, <2>3, <3>1, SocketsAssumption DEF Addrs
    <3>3. fd' # 0
      BY <1>1, <2>3, <3>1
    <3>4. Backing'
      BY <2>1, <2>3, <3>1, <3>3, Zenon DEF Backing, ShutdownFindsBackend
    <3>5. \A c \in Conns' : c = fd' \/ c \in Conns
      BY <1>1, <2>3, <3>1 DEF Conns
    <3>6. ClientDescriptorsOwned'
      BY <2>1, <2>2, <3>1, <3>5, Zenon DEF ClientDescriptorsOwned
    <3> QED
      BY <3>2, <3>4, <3>6, Zenon
  <2>4. CASE /\ AttemptFails /\ fd' = fd
             /\ \/ addr < NumAddrs /\ addr' = addr + 1 /\ appPc' = appPc
                \/ addr' = 1 /\ appPc' = "idle"
    <3>1. /\ conns' \in Seq(Connection) /\ Len(conns) <= Len(conns')
          /\ \A c \in Conns' : conns'[c].client = "closed"
      <4>1. CASE UNCHANGED netVars
        BY <1>1, <2>2, <4>1 DEF Conns
      <4>2. CASE Handshake(addr, "closed")
        <5>1. /\ conns' \in Seq(Connection) /\ Len(conns') = Len(conns) + 1
              /\ \A c \in Conns : conns'[c] = conns[c]
              /\ conns'[Len(conns')].client = "closed"
          BY <4>2, HandshakeMove DEF ClientEnds
        <5>2. \A c \in Conns' : c = Len(conns') \/ c \in Conns
          BY <1>1, <5>1 DEF Conns
        <5> QED
          BY <1>1, <2>2, <5>1, <5>2
      <4> QED
        BY <2>4, <4>1, <4>2, Zenon DEF AttemptFails
    <3>2. addr' \in Addrs /\ appPc' \in {"idle", "connectAddr"}
      <4>1. appPc = "connectAddr"
        BY <1>26, Zenon DEF ConnectAddr
      <4> QED
        BY <2>4, <4>1, SocketsAssumption DEF Addrs
    <3>3. Typed'
      BY <1>1, <2>1, <2>4, <3>1, <3>2
    <3>4. Backing'
      BY <2>1, <2>4, <3>2, Zenon DEF Backing, ShutdownFindsBackend
    <3> QED
      BY <3>1, <3>3, <3>4, Zenon DEF ClientDescriptorsOwned
  <2> QED
    BY <1>26, <2>3, <2>4, Zenon DEF ConnectAddr
<1> QED
  BY <1>3, <1>4, <1>5, <1>6, <1>7, <1>8, <1>9, <1>10, <1>11, <1>12, <1>13,
     <1>14, <1>15, <1>16, <1>20, <1>21, <1>22, <1>23, <1>24, <1>25, <1>26,
     Zenon
  DEF AppCalls, AppStep, LoopStep

\* Every step of the client keeps the cause of the worker's end.
LEMMA ClientCause ==
    ASSUME LInv, Worker', AppCalls \/ AppStep \/ LoopStep
    PROVE  Cause'
<1> USE DEF LInv, App, Loop, AppTo, nodeVars, flagVars, appVars, loopVars,
            netVars, listenVars
<1>1. Len(conns) \in Nat /\ Conns = 1 .. Len(conns)
  BY LenProperties DEF Conns, Typed
<1>2. loopPc # "none" => loopConn \in Conns
  BY <1>1 DEF Typed, Worker
<1>3. ASSUME UNCHANGED <<conns, backend, loopPc, loopConn, shutdowned>>,
             threadError' \in {"none", threadError},
             appPc = "shutdownEnd" => appPc' = "shutdownEnd"
      PROVE  Cause'
  BY <1>3, Zenon DEF Cause, CleanStop, Stopping, Gone, InLoop
<1>4. ASSUME thread = "none", UNCHANGED <<loopPc, threadError>>
      PROVE  Cause'
  <2>1. loopPc \notin InLoop \union {"store"} /\ threadError # "error"
    BY <1>4, Zenon DEF Worker, InLoop
  <2> QED
    BY <1>4, <2>1, Zenon DEF Cause, CleanStop, InLoop
<1>5. CASE Start
  BY <1>3, <1>5, Zenon DEF Start
<1>6. CASE Stop \/ StopCheck \/ RequestEnds
  BY <1>3, <1>6, Zenon DEF Stop, StopCheck, RequestEnds
<1>7. CASE StartJoin \/ StopConnected
  BY <1>3, <1>7, Zenon DEF StartJoin, StopConnected
<1>8. CASE Connect \/ ConnectAddr \/ SendTimeout
  <2>1. thread = "none"
    BY <1>8, Zenon DEF Connect, ConnectAddr, SendTimeout, Worker, ConnectPcs
  <2> QED
    BY <1>4, <1>8, <2>1, Zenon DEF Connect, ConnectAddr, SendTimeout
<1>9. CASE Spawn
  <2>1. backend = "live" /\ conns[fd].client = "open"
    BY <1>9, Zenon DEF Spawn, Backing
  <2> QED
    BY <1>9, <2>1, Zenon DEF Spawn, Cause, CleanStop
<1>10. CASE Shutdown
  <2>1. /\ appPc' = "shutdownEnd"
        /\ UNCHANGED <<shutdowned, flagVars, loopVars>>
        /\ conns' = conns \/ conns' = ClientEnd(fd, "shut")
    BY <1>10, Zenon DEF Shutdown
  <2>2. \A c \in Conns : Gone(c)' = Gone(c)
    <3>1. CASE conns' = conns
      BY <3>1, Zenon DEF Gone
    <3>2. CASE conns' = ClientEnd(fd, "shut")
      BY <3>2, ClientEndMove DEF ClientEnds
    <3> QED
      BY <2>1, <3>1, <3>2
  <2>3. threadError = "error" => loopPc # "none"
    BY Zenon DEF Worker
  <2> QED
    BY <1>2, <2>1, <2>2, <2>3, Zenon DEF Cause, CleanStop, Stopping, Gone
<1>11. CASE ShutdownEnd
  <2>1. /\ shutdowned' = TRUE /\ UNCHANGED <<thread, threadError, loopVars>>
        /\ conns' = conns \/ conns' = ClientEnd(fd, "closed")
    BY <1>11, Zenon DEF ShutdownEnd
  <2>2. \A c \in Conns : Gone(c)' = Gone(c)
    <3>1. CASE conns' = conns
      BY <3>1, Zenon DEF Gone
    <3>2. CASE conns' = ClientEnd(fd, "closed")
      BY <3>2, ClientEndMove DEF ClientEnds
    <3> QED
      BY <2>1, <3>1, <3>2
  <2>3. threadError = "error" => loopPc # "none"
    BY Zenon DEF Worker
  <2> QED
    BY <1>2, <2>1, <2>2, <2>3, Zenon DEF Cause, CleanStop, Stopping, Gone
<1>12. CASE Join
  <2>1. /\ loopPc \in {"none", "done"} /\ loopPc' = loopPc
        /\ threadError' = "none"
    BY <1>12, Zenon DEF Join, Worker, Typed
  <2> QED
    BY <2>1, Zenon DEF Cause, CleanStop, InLoop
<1>13. CASE Request \/ LoopReceive
  <2>1. /\ UNCHANGED <<backend, loopConn, shutdowned, threadError>>
        /\ appPc = "shutdownEnd" => appPc' = "shutdownEnd"
        /\ loopPc' = loopPc \/ (loopPc = "recv" /\ loopPc' = "check")
    BY <1>13, Zenon DEF Request, LoopReceive
  <2>2. \A d \in Conns :
          conns'[d].client = conns[d].client /\ Gone(d)' = Gone(d)
    <3>1. CASE Request
      <4>1. fd \in Conns
        BY <1>1, <3>1 DEF Request, Typed
      <4> QED
        BY <3>1, <4>1, TrafficMove DEF Request
    <3>2. CASE LoopReceive
      <4>1. loopConn \in Conns
        BY <1>2, <3>2 DEF LoopReceive
      <4> QED
        BY <3>2, <4>1, TrafficMove DEF LoopReceive
    <3> QED
      BY <1>13, <3>1, <3>2
  <2>3. threadError = "error" => loopPc # "none"
    BY Zenon DEF Worker
  <2> QED
    BY <1>2, <2>1, <2>2, <2>3, Zenon
    DEF Cause, CleanStop, Stopping, Gone, InLoop
<1>14. CASE LoopCheck
  BY <1>14, Zenon
  DEF LoopCheck, Cause, CleanStop, Stopping, Gone, InLoop, Typed
<1>15. CASE LoopCall
  BY <1>15, Zenon DEF LoopCall, Cause, CleanStop, Stopping, Gone, InLoop
<1>16. CASE LoopEnd
  BY <1>16, Zenon
  DEF LoopEnd, ClientSeesEnd, Cause, CleanStop, Stopping, Gone, InLoop
<1>17. CASE LoopFailed
  BY <1>17, Zenon
  DEF LoopFailed, Cause, CleanStop, Stopping, Gone, InLoop, Backing
<1>18. CASE LoopStore
  BY <1>18, Zenon DEF LoopStore, Cause, CleanStop, Gone, InLoop
<1>19. CASE LoopClearRunning \/ LoopClearConnected
  BY <1>19, Zenon
  DEF LoopClearRunning, LoopClearConnected, Cause, CleanStop, Gone, InLoop
<1> QED
  BY <1>5, <1>6, <1>7, <1>8, <1>9, <1>10, <1>11, <1>12, <1>13, <1>14, <1>15,
     <1>16, <1>17, <1>18, <1>19, Zenon
  DEF AppCalls, AppStep, LoopStep

\* No connection is ever forgotten: the client only adds to them.
LEMMA ClientAdds ==
    ASSUME Typed, AppCalls \/ AppStep \/ LoopStep
    PROVE  /\ Len(conns') \in Nat /\ Len(conns') >= Len(conns)
           /\ Len(conns) <= MaxConns => Len(conns') <= MaxConns
<1>1. Len(conns) \in Nat
  BY LenProperties DEF Typed
<1>2. CASE conns' = conns
  BY <1>1, <1>2
<1>3. CASE \E e \in ClientEnds : conns' = ClientEnd(fd, e)
  BY <1>1, <1>3, ClientEndMove
<1>4. CASE \E e \in ClientEnds : Handshake(addr, e)
  BY <1>1, <1>4, HandshakeMove, SocketsAssumption DEF Handshake
<1>5. CASE Request
  <2>1. fd \in Conns
    BY <1>1, <1>5 DEF Request, Typed, Conns
  <2> QED
    BY <1>1, <1>5, <2>1, TrafficMove DEF Request
<1>6. CASE LoopReceive
  <2>1. loopConn \in Conns \/ loopConn = 0
    BY <1>1 DEF Typed, Conns
  <2>2. CASE loopConn \in Conns
    BY <1>1, <1>6, <2>2, TrafficMove DEF LoopReceive
  <2>3. CASE loopConn = 0
    <3>1. conns \in [1 .. Len(conns) -> Connection]
      BY LenProperties DEF Typed
    <3>2. conns' = conns
      BY <1>1, <1>6, <2>3, <3>1 DEF LoopReceive
    <3> QED
      BY <1>2, <3>2
  <2> QED
    BY <2>1, <2>2, <2>3
<1>7. "open" \in ClientEnds /\ "shut" \in ClientEnds /\ "closed" \in ClientEnds
  BY DEF ClientEnds
<1>8. ASSUME AppCalls \/ AppStep, ~Request
      PROVE  \/ conns' = conns
             \/ \E e \in ClientEnds : conns' = ClientEnd(fd, e)
             \/ \E e \in ClientEnds : Handshake(addr, e)
  BY <1>7, <1>8, Zenon
  DEF AppCalls, AppStep, Start, Stop, StartJoin, Connect, ConnectAddr,
      AttemptFails, SendTimeout, Spawn, StopCheck, StopConnected, Shutdown,
      ShutdownEnd, Join, RequestEnds, netVars
<1>9. LoopStep /\ ~LoopReceive => conns' = conns
  BY Zenon DEF LoopStep, LoopCheck, LoopCall, LoopEnd, LoopFailed, LoopStore,
               LoopClearRunning, LoopClearConnected, netVars
<1> QED
  BY <1>2, <1>3, <1>4, <1>5, <1>6, <1>8, <1>9

-----------------------------------------------------------------------------
(* The invariant and its consequences.                                     *)

\* It holds before anything has been called.
LEMMA LInvInit == Init => LInv
<1> SUFFICES ASSUME Init PROVE LInv
  OBVIOUS
<1> USE DEF Init, NetInit, ClientInit, ServerInit
<1>1. conns \in Seq(Connection) /\ Len(conns) = 0 /\ Conns = {}
  BY EmptySeq DEF Conns
<1>2. Typed /\ ServerTyped
  <2>1. 0 \in 0 .. Len(conns) /\ 1 \in Addrs
    BY <1>1, SocketsAssumption DEF Addrs
  <2> QED
    BY <1>1, <2>1, Zenon
    DEF Typed, ServerTyped, AppPcs, StopPcs, LoopPcs, ServePcs
<1>3. Worker /\ Backing
  BY DEF Worker, Backing, ConnectPcs, ShutdownFindsBackend
<1>4. Cause /\ ClientDescriptorsOwned
  BY <1>1 DEF Cause, CleanStop, InLoop, ClientDescriptorsOwned
<1> QED
  BY <1>2, <1>3, <1>4 DEF LInv

\* Every step keeps it.
LEMMA LInvStep == LInv /\ [Next]_vars => LInv'
<1> SUFFICES ASSUME LInv, [Next]_vars PROVE LInv'
  OBVIOUS
<1>1. CASE Client
  <2>1. AppCalls \/ AppStep \/ LoopStep
    BY <1>1, Zenon DEF Client
  <2>2. Worker'
    BY <2>1, ClientWorker
  <2>3. Typed' /\ Backing' /\ ClientDescriptorsOwned'
    BY <2>1, ClientBacking
  <2>4. Cause'
    BY <2>1, <2>2, ClientCause
  <2>5. ServerTyped'
    <3>1. UNCHANGED <<clientFd, srvPc>>
      BY <1>1, Zenon DEF Client, serverVars
    <3>2. Len(conns) \in Nat /\ Len(conns') \in Nat
      BY <2>3, LenProperties DEF LInv, Typed
    <3>3. Len(conns') >= Len(conns)
      BY <2>1, ClientAdds DEF LInv
    <3> QED
      BY <3>1, <3>2, <3>3 DEF LInv, ServerTyped
  <2> QED
    BY <2>2, <2>3, <2>4, <2>5, Zenon DEF LInv
<1>2. CASE Server
  BY <1>2, ServerKeeps
<1>3. CASE UNCHANGED vars
  <2> USE <1>3 DEF vars, clientVars, serverVars, netVars, nodeVars, flagVars,
                   appVars, loopVars, LInv
  <2>1. Typed' /\ ServerTyped'
    BY Zenon DEF Typed, ServerTyped
  <2>2. Worker' /\ Backing'
    BY Zenon DEF Worker, Backing, ShutdownFindsBackend
  <2>3. Cause' /\ ClientDescriptorsOwned'
    BY Zenon
    DEF Cause, CleanStop, Stopping, Gone, ClientDescriptorsOwned, Conns
  <2> QED
    BY <2>1, <2>2, <2>3
<1> QED
  BY <1>1, <1>2, <1>3, Zenon DEF Next, Finished

\* The invariant holds throughout.
LEMMA LInvAlways == Spec => []LInv
BY LInvInit, LInvStep, PTL DEF Spec

\* Whenever start goes on to connect, the worker before it has ended and been
\* joined, its flags are clear and its error has been thrown, however the
\* worker's last steps fell between the reads of start and stop.
THEOREM StartIsFresh == Spec => []FreshStart
<1>1. LInv => FreshStart
  BY Zenon DEF LInv, Typed, Worker, FreshStart, ConnectPcs
<1> QED
  BY <1>1, LInvAlways, PTL

\* stop only calls shutdown on a node that has a backend and a descriptor.
THEOREM StopFindsBackend == Spec => []ShutdownFindsBackend
<1>1. LInv => ShutdownFindsBackend
  BY Zenon DEF LInv, Backing
<1> QED
  BY <1>1, LInvAlways, PTL

\* The worker reports an error only when the server's end is gone: a stop never
\* makes the loop it wakes look as if it had failed.
THEOREM StopIsClean == Spec => []CleanStop
<1>1. LInv => CleanStop
  BY Zenon DEF LInv, Cause
<1> QED
  BY <1>1, LInvAlways, PTL

\* Every open descriptor of the client is the one its live backend knows.
THEOREM DescriptorsOwned == Spec => []ClientDescriptorsOwned
<1>1. LInv => ClientDescriptorsOwned
  BY Zenon DEF LInv
<1> QED
  BY <1>1, LInvAlways, PTL

-----------------------------------------------------------------------------
(* Type correctness.                                                       *)

\* The variables with a few values that Typed and ServerTyped leave out.
States ==
    /\ shutdowned \in BOOLEAN /\ mtx \in {"free", "app"}
    /\ failed \in BOOLEAN /\ undefined \in {"no", "null", "freed"}
    /\ srvMtx \in {"free", "serve"} /\ srvShutdowned \in BOOLEAN
    /\ srvPc \in SrvPcs /\ srvResult \in Results
    /\ stopPc \in {"idle", "stopped", "refused"}

\* The counters and addresses. start looks at its bound before it joins, and
\* connect counts after; accept_once does not accept past the last address.
Counters ==
    /\ listenFd \in 0 .. NumAddrs /\ abandoned \subseteq Addrs
    /\ Len(conns) <= MaxConns
    /\ starts \in 0 .. MaxStarts /\ accepts \in 0 .. MaxAccepts
    /\ srvAddr \in 1 .. NumAddrs + 1
    /\ appPc \in {"startJoin", "connect"} => starts < MaxStarts
    /\ srvPc = "accept" => srvAddr <= NumAddrs

\* The client's steps keep both.
LEMMA ClientStaysTyped ==
    ASSUME LInv, States, Counters, Client
    PROVE  States' /\ Counters'
<1> USE DEF App, AppTo, Loop, nodeVars, flagVars, appVars, loopVars, netVars,
            listenVars
<1>1. AppCalls \/ AppStep \/ LoopStep
  BY Zenon DEF Client
<1>2. UNCHANGED <<srvMtx, srvShutdowned, srvPc, srvResult, stopPc, accepts,
                  srvAddr>>
  BY Zenon DEF Client, serverVars
<1>3. UNCHANGED listenVars
  BY <1>1, Zenon
  DEF AppCalls, AppStep, LoopStep, Start, Stop, Request, StartJoin, Connect,
      ConnectAddr, AttemptFails, Handshake, SendTimeout, Spawn, StopCheck,
      StopConnected, Shutdown, ShutdownEnd, Join, RequestEnds, LoopCheck,
      LoopCall, LoopReceive, LoopEnd, LoopFailed, LoopStore, LoopClearRunning,
      LoopClearConnected
<1>4. States'
  <2>1. CASE AppCalls \/ LoopStep
    BY <1>2, <2>1, Zenon
    DEF States, AppCalls, Start, Stop, Request, LoopStep, LoopCheck, LoopCall,
        LoopReceive, LoopEnd, LoopFailed, LoopStore, LoopClearRunning,
        LoopClearConnected
  <2>2. CASE AppStep
    BY <1>2, <2>2, Zenon
    DEF States, AppStep, StartJoin, Connect, ConnectAddr, SendTimeout, Spawn,
        StopCheck, StopConnected, Shutdown, ShutdownEnd, Join, RequestEnds
  <2> QED
    BY <1>1, <2>1, <2>2, Zenon
<1>5. Counters'
  <2>1. Len(conns') <= MaxConns
    BY <1>1, ClientAdds DEF LInv, Counters
  <2>2. CASE UNCHANGED starts
    <3>1. appPc' \in {"startJoin", "connect"} =>
            appPc \in {"startJoin", "connect"} \/ starts < MaxStarts
      BY <1>1, Zenon
      DEF AppCalls, AppStep, LoopStep, Start, Stop, Request, StartJoin,
          Connect, ConnectAddr, SendTimeout, Spawn, StopCheck, StopConnected,
          Shutdown, ShutdownEnd, Join, RequestEnds, LoopCheck, LoopCall,
          LoopReceive, LoopEnd, LoopFailed, LoopStore, LoopClearRunning,
          LoopClearConnected
    <3> QED
      BY <1>2, <1>3, <2>1, <2>2, <3>1, Zenon DEF Counters
  <2>3. CASE ~UNCHANGED starts
    <3>1. /\ appPc = "connect" /\ appPc' = "connectAddr"
          /\ starts' = starts + 1
      BY <1>1, <2>3, Zenon
      DEF AppCalls, AppStep, LoopStep, Start, Stop, Request, StartJoin,
          Connect, ConnectAddr, SendTimeout, Spawn, StopCheck, StopConnected,
          Shutdown, ShutdownEnd, Join, RequestEnds, LoopCheck, LoopCall,
          LoopReceive, LoopEnd, LoopFailed, LoopStore, LoopClearRunning,
          LoopClearConnected
    <3> QED
      BY <1>2, <1>3, <2>1, <3>1, ClientAssumption DEF Counters
  <2> QED
    BY <2>2, <2>3, Zenon
<1> QED
  BY <1>4, <1>5, Zenon

\* The server's steps keep them.
LEMMA ServerStaysTyped ==
    ASSUME LInv, States, Counters, Server
    PROVE  States' /\ Counters'
<1> USE SocketsAssumption, ServerAssumption DEF netVars, listenVars
<1>1. UNCHANGED <<shutdowned, mtx, failed, undefined, starts, appPc>>
  BY Zenon DEF Server, clientVars, nodeVars, appVars
<1>2. Len(conns') = Len(conns)
  BY ServerSteps DEF LInv, Typed, ServerMove
<1>3. States'
  <2> USE DEF States
  <2> /\ "idle" \in SrvPcs /\ "listen" \in SrvPcs /\ "accept" \in SrvPcs
      /\ "sendTimeout" \in SrvPcs /\ "recv" \in SrvPcs /\ "reply" \in SrvPcs
      /\ "eof" \in SrvPcs /\ "failed" \in SrvPcs
    BY DEF SrvPcs, AcceptPcs, ServePcs
  <2> /\ "none" \in Results /\ "ended" \in Results
      /\ "receive_error" \in Results /\ "reply_error" \in Results
      /\ "shutdown_error" \in Results
    BY DEF Results
  <2>1. CASE AcceptOnce \/ ShutdownServer
    BY <1>1, <2>1, Zenon DEF AcceptOnce, ShutdownServer
  <2>2. CASE Listen \/ Accept \/ AcceptFails \/ Accepted
    BY <1>1, <2>2, ZenonT(30) DEF Listen, Accept, AcceptFails, Accepted
  <2>3. CASE AcceptSendTimeout \/ Serve \/ Reply
    BY <1>1, <2>3, ZenonT(30) DEF AcceptSendTimeout, Serve, Reply, LoopReturns
  <2>4. CASE ServeEnd \/ ServeEof \/ ServeFailed
    BY <1>1, <2>4, Zenon DEF ServeEnd, ServeEof, ServeFailed, LoopReturns
  <2> QED
    BY <2>1, <2>2, <2>3, <2>4, Zenon DEF Server, ServeStep
<1>4. Counters'
  <2>1. CASE AcceptOnce
    BY <1>1, <1>2, <2>1 DEF AcceptOnce, Counters
  <2>2. CASE Listen
    BY <1>1, <1>2, <2>2 DEF Listen, Counters, Addrs
  <2>3. CASE Accepted
    BY <1>1, <1>2, <2>3 DEF Accepted, CloseListener, Counters
  <2>4. CASE Accept \/ AcceptFails
    BY <1>1, <1>2, <2>4 DEF Accept, AcceptFails, CloseListener, Counters
  <2>5. CASE \/ ShutdownServer \/ AcceptSendTimeout \/ Serve
             \/ Reply \/ ServeEnd \/ ServeEof \/ ServeFailed
    <3>1. /\ UNCHANGED <<listenVars, accepts, srvAddr>>
          /\ srvPc' = "accept" => srvPc = "accept"
      BY <2>5, Zenon
      DEF ShutdownServer, AcceptSendTimeout, Serve, Reply,
          ServeEnd, ServeEof, ServeFailed, LoopReturns
    <3> QED
      BY <1>1, <1>2, <3>1, Zenon DEF Counters
  <2> QED
    BY <2>1, <2>2, <2>3, <2>4, <2>5, Zenon DEF Server, ServeStep
<1> QED
  BY <1>3, <1>4, Zenon

\* Client, server and network stay well typed: descriptors name connections
\* that were made, and neither connect nor accept_once leaves the addresses.
THEOREM LinkTypeCorrect == Spec => []TypeOK
<1>1. Init => States /\ Counters
  <2>1. Init => States
    BY Zenon
    DEF Init, ClientInit, ServerInit, States, SrvPcs, Results
  <2>2. Init => Counters
    <3> SUFFICES ASSUME Init PROVE Counters
      BY Zenon
    <3>1. Len(conns) = 0
      BY EmptySeq DEF Init, NetInit
    <3> QED
      BY <3>1, SocketsAssumption, ClientAssumption, ServerAssumption
      DEF Init, NetInit, ClientInit, ServerInit, Counters
  <2> QED
    BY <2>1, <2>2, Zenon
<1>2. LInv /\ States /\ Counters /\ [Next]_vars => States' /\ Counters'
  <2> SUFFICES ASSUME LInv, States, Counters, [Next]_vars
               PROVE  States' /\ Counters'
    BY Zenon
  <2>1. CASE UNCHANGED vars
    BY <2>1, Zenon
    DEF vars, clientVars, serverVars, netVars, listenVars, nodeVars, appVars,
        States, Counters
  <2> QED
    BY <2>1, ClientStaysTyped, ServerStaysTyped, Zenon DEF Next, Finished
<1>3. LInv /\ States /\ Counters => TypeOK
  BY Zenon DEF LInv, Typed, ServerTyped, States, Counters, TypeOK
<1> QED
  BY <1>1, <1>2, <1>3, LInvAlways, PTL DEF Spec

=============================================================================
