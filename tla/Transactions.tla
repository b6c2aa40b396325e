---------------------------- MODULE Transactions ----------------------------
(***************************************************************************)
(* The transaction machinery of SpwRmapTCPNodeImpl: the pool of RMAP       *)
(* transaction IDs, the table of reply and error callbacks, the promises   *)
(* behind the futures handed to callers, the application threads inside    *)
(* write / read / writeAsync / readAsync (and the Python read built on     *)
(* readAsync), and the thread inside runLoop that dispatches replies.      *)
(*                                                                         *)
(* One step is one critical section or one call made outside every lock.   *)
(* transaction_ids_mtx_ only guards sections that call nothing, so each is *)
(* one step. reply_callback_mtx_[i] is held over several steps only by     *)
(* poll(), while it runs a reply callback; LockFree says when others may   *)
(* enter a section on slot i.                                              *)
(*                                                                         *)
(* A try is one pass through startWrite/ReadAsyncOperation_: one promise,  *)
(* one transaction ID, one command. <<t, n, k>> is the k-th try of the     *)
(* n-th operation of thread t.                                             *)
(***************************************************************************)
EXTENDS Integers

CONSTANTS
    Callers,     \* application threads
    TotalIds,    \* transaction_id_max - transaction_id_min
    MaxOps,      \* bound: operations started per application thread
    RetryCount,  \* the retry_count argument of write and read
    Kinds,       \* the API calls the threads make
    None         \* nullptr, std::nullopt

SyncKinds  == {"write", "read"}
AsyncKinds == {"writeAsync", "readAsync"}
AllKinds   == SyncKinds \union AsyncKinds \union {"python"}

\* retry_count == 0 ? 1 : retry_count
NumTries == IF RetryCount = 0 THEN 1 ELSE RetryCount

\* Indices into the tables: transaction_id - transaction_id_min_.
Idx   == 0 .. TotalIds - 1
Tries == Callers \X (1 .. MaxOps) \X (1 .. NumTries)

ASSUME ConstantsAssumption ==
    /\ TotalIds \in Nat
    /\ MaxOps \in Nat
    /\ RetryCount \in Nat
    /\ Kinds \subseteq AllKinds
    /\ None \notin Tries
    /\ None \notin Int

VARIABLES
    available,  \* the indices set in available_transaction_ids_
    expired,    \* those in use for longer than transaction_timeout_
    replyCb,    \* reply_callback_: the try whose callback is registered
    errorCb,    \* reply_error_callback_
    promise,    \* the shared state of the try's promise
    kind,       \* the API call the try belongs to
    slot,       \* the table index of the transaction ID the try was given
    pc,         \* where each application thread is
    op,         \* operations the thread has started
    try,        \* the attempt counter of its current operation
    victim,     \* expired_index of getAvailableTransactionID_
    handling,   \* the try whose error_handler the thread is running
    left,       \* tries whose caller is no longer waiting for them
    pollPc,     \* where the thread inside runLoop is
    pollIdx,    \* the slot of the reply it is dispatching
    pollTry,    \* the try whose callback it moved out of the table
    pollRes,    \* what that callback sets the promise to
    runs,       \* how often on_complete of the try was called
    cmds,       \* tries whose command is in flight
    replies,    \* tries whose reply is in flight
    process     \* running, until std::terminate is called

tableVars  == <<available, expired, replyCb, errorCb>>
tryVars    == <<promise, kind, slot>>
locals     == <<op, try, victim, handling, left>>
callerVars == <<pc, locals>>
pollVars   == <<pollPc, pollIdx, pollTry, pollRes, runs>>
netVars    == <<cmds, replies>>
vars == <<tableVars, tryVars, callerVars, pollVars, netVars, process>>

Outcomes == {"ok", "operation_canceled", "timed_out", "send_error", "no_id"}

StartPcs == {"scan", "force", "handlerSet", "handlerRelease", "handlerClear",
             "forceRelease", "install", "send", "sendFailed",
             "sendFailedSet", "sendFailedRelease"}
Pcs      == StartPcs \union {"idle", "wait", "cancel", "cancelRelease"}
BusyPcs  == {"callback", "set", "release", "unlock"}
PollPcs  == BusyPcs \union {"recv", "dispatch", "stopped"}

\* Type correctness of the tables, the tries, the threads and the loop.
TypeOK ==
    /\ available \subseteq Idx
    /\ expired \subseteq Idx
    /\ replyCb \in [Idx -> Tries \union {None}]
    /\ errorCb \in [Idx -> Tries \union {None}]
    /\ promise \in [Tries -> Outcomes \union {"none", "pending"}]
    /\ kind \in [Tries -> AllKinds \union {None}]
    /\ slot \in [Tries -> Idx \union {None}]
    /\ pc \in [Callers -> Pcs]
    /\ op \in [Callers -> 0 .. MaxOps]
    /\ try \in [Callers -> 1 .. NumTries]
    /\ victim \in [Callers -> Idx \union {None}]
    /\ handling \in [Callers -> Tries \union {None}]
    /\ left \subseteq Tries
    /\ pollPc \in PollPcs
    /\ pollIdx \in Idx \union {None}
    /\ pollTry \in Tries \union {None}
    /\ pollRes \in {"ok", "operation_canceled", "none"}
    /\ runs \in [Tries -> Nat]
    /\ cmds \subseteq Tries
    /\ replies \subseteq Tries
    /\ process \in {"running", "terminated"}

Init ==
    /\ available = Idx
    /\ expired = {}
    /\ replyCb = [i \in Idx |-> None]
    /\ errorCb = [i \in Idx |-> None]
    /\ promise = [a \in Tries |-> "none"]
    /\ kind = [a \in Tries |-> None]
    /\ slot = [a \in Tries |-> None]
    /\ pc = [t \in Callers |-> "idle"]
    /\ op = [t \in Callers |-> 0]
    /\ try = [t \in Callers |-> 1]
    /\ victim = [t \in Callers |-> None]
    /\ handling = [t \in Callers |-> None]
    /\ left = {}
    /\ pollPc = "recv"
    /\ pollIdx = None
    /\ pollTry = None
    /\ pollRes = "none"
    /\ runs = [a \in Tries |-> 0]
    /\ cmds = {}
    /\ replies = {}
    /\ process = "running"

-----------------------------------------------------------------------------
(* Steps shared by several operations.                                     *)

\* The try thread t is working on.
Cur(t) == <<t, op[t], try[t]>>

\* What LockFree would be if poll() let go of the slot's mutex before it
\* calls the callback it moved out.
LockFreeUnlockedEarly(i) == TRUE

\* reply_callback_mtx_[i] can be taken: poll() is not running a callback of
\* slot i, the only section on the slot that spans several steps.
LockFree(i) == ~(pollPc \in BusyPcs /\ pollIdx = i)

Running    == process = "running"
At(t, p)   == pc[t] = p /\ Running
Goto(t, p) == pc' = [pc EXCEPT ![t] = p]

\* A release that forgets to mark the ID available.
ReleaseKeepsTaken(i) ==
    /\ expired' = expired \ {i}
    /\ UNCHANGED available

\* releaseTransactionID_: the ID goes back to the pool whoever holds it.
Release(i) ==
    /\ available' = available \union {i}
    /\ expired' = expired \ {i}

\* A clearing that forgets the reply callback.
ClearErrorOnly(i) ==
    /\ errorCb' = [errorCb EXCEPT ![i] = None]
    /\ UNCHANGED replyCb

\* reply_callback_[i] = nullptr; reply_error_callback_[i] = nullptr
ClearCallbacks(i) ==
    /\ replyCb' = [replyCb EXCEPT ![i] = None]
    /\ errorCb' = [errorCb EXCEPT ![i] = None]

\* promise->set_value: a second call throws std::future_error out of a
\* noexcept function.
SetValue(a, v) ==
    \/ /\ promise[a] = "pending"
       /\ promise' = [promise EXCEPT ![a] = v]
       /\ UNCHANGED process
    \/ /\ promise[a] # "pending"
       /\ process' = "terminated"
       /\ UNCHANGED promise

\* Someone still owns a shared_ptr to the promise of try a: a callback in the
\* tables, a callback moved out of them, or the start function itself.
Referenced(a) ==
    \/ \E i \in Idx : replyCb[i] = a \/ errorCb[i] = a
    \/ pollPc \in BusyPcs /\ pollTry = a
    \/ \E t \in Callers : handling[t] = a
    \/ \E t \in Callers : Cur(t) = a /\ pc[t] \in StartPcs

\* The future became ready with std::future_errc::broken_promise.
Broken(a) == promise[a] = "pending" /\ ~Referenced(a)

\* future.wait_for(...) == std::future_status::ready
Ready(a) == promise[a] # "pending" \/ Broken(a)

\* Entering startWrite/ReadAsyncOperation_ for try a of kind k.
NewTry(a, k) ==
    /\ promise' = [promise EXCEPT ![a] = "pending"]
    /\ kind' = [kind EXCEPT ![a] = k]
    /\ UNCHANGED slot

\* Where the caller goes when the start function returns: the asynchronous
\* calls hand the future to the application at once.
AfterStart(t) == IF kind[Cur(t)] \in AsyncKinds THEN "idle" ELSE "wait"

-----------------------------------------------------------------------------
(* Application threads.                                                    *)

\* write, read, writeAsync, readAsync or the Python read is called.
StartOp(t, k) ==
    /\ At(t, "idle")
    /\ op[t] < MaxOps
    /\ op' = [op EXCEPT ![t] = @ + 1]
    /\ try' = [try EXCEPT ![t] = 1]
    /\ NewTry(<<t, op[t] + 1, 1>>, k)
    /\ Goto(t, "scan")
    /\ UNCHANGED <<tableVars, victim, handling, left, pollVars, netVars,
                   process>>

\* A scan that does not look whether the ID is free.
FirstAvailableUnchecked(i) == \A j \in available : i <= j

\* The scan stops at the lowest free ID.
FirstAvailable(i) == i \in available /\ \A j \in available : i <= j

\* getAvailableTransactionID_, the scan finds a free ID.
AcquireId(t) ==
    /\ At(t, "scan")
    /\ \E i \in Idx :
        /\ FirstAvailable(i)
        /\ available' = available \ {i}
        /\ expired' = expired \ {i}
        /\ slot' = [slot EXCEPT ![Cur(t)] = i]
    /\ Goto(t, "install")
    /\ UNCHANGED <<replyCb, errorCb, promise, kind, locals, pollVars, netVars,
                   process>>

\* All IDs are taken; the first one that is too old will be taken back, but
\* only after transaction_ids_mtx_ has been released.
FindExpired(t) ==
    /\ At(t, "scan")
    /\ available = {}
    /\ \E i \in expired :
        /\ \A j \in expired : i <= j
        /\ victim' = [victim EXCEPT ![t] = i]
    /\ Goto(t, "force")
    /\ UNCHANGED <<tableVars, tryVars, op, try, handling, left, pollVars,
                   netVars, process>>

\* All IDs are taken and none is old: resource_unavailable_try_again.
NoId(t) ==
    /\ At(t, "scan")
    /\ available = {} /\ expired = {}
    /\ SetValue(Cur(t), "no_id")
    /\ Goto(t, AfterStart(t))
    /\ UNCHANGED <<tableVars, kind, slot, locals, pollVars, netVars>>

\* forceReleaseTransaction_, the section under the slot's mutex: both
\* callbacks go, the error handler is kept to be called.
ForceRelease(t) ==
    /\ At(t, "force")
    /\ LockFree(victim[t])
    /\ handling' = [handling EXCEPT ![t] = errorCb[victim[t]]]
    /\ Goto(t, IF errorCb[victim[t]] # None THEN "handlerSet"
                                            ELSE "forceRelease")
    /\ ClearCallbacks(victim[t])
    /\ UNCHANGED <<available, expired, tryVars, op, try, victim, left,
                   pollVars, netVars, process>>

\* The error handler, outside every lock: promise->set_value(timed_out) ...
HandlerSet(t) ==
    /\ At(t, "handlerSet")
    /\ SetValue(handling[t], "timed_out")
    /\ Goto(t, "handlerRelease")
    /\ UNCHANGED <<tableVars, kind, slot, locals, pollVars, netVars>>

\* ... releaseTransactionID_(transaction_id) ...
HandlerRelease(t) ==
    /\ At(t, "handlerRelease")
    /\ Release(slot[handling[t]])
    /\ Goto(t, "handlerClear")
    /\ UNCHANGED <<replyCb, errorCb, tryVars, locals, pollVars, netVars,
                   process>>

\* ... and reply_error_callback_[tx_index] = nullptr, without the mutex.
\* Then getAvailableTransactionID_ scans again.
HandlerClear(t) ==
    /\ At(t, "handlerClear")
    /\ errorCb' = [errorCb EXCEPT ![slot[handling[t]]] = None]
    /\ handling' = [handling EXCEPT ![t] = None]
    /\ victim' = [victim EXCEPT ![t] = None]
    /\ Goto(t, "scan")
    /\ UNCHANGED <<available, expired, replyCb, tryVars, op, try, left,
                   pollVars, netVars, process>>

\* forceReleaseTransaction_ found no error handler: it releases the ID itself.
ReleaseVictim(t) ==
    /\ At(t, "forceRelease")
    /\ Release(victim[t])
    /\ victim' = [victim EXCEPT ![t] = None]
    /\ Goto(t, "scan")
    /\ UNCHANGED <<replyCb, errorCb, tryVars, op, try, handling, left,
                   pollVars, netVars, process>>

\* Both callbacks of the try are registered under the slot's mutex.
Install(t) ==
    /\ At(t, "install")
    /\ LockFree(slot[Cur(t)])
    /\ replyCb' = [replyCb EXCEPT ![slot[Cur(t)]] = Cur(t)]
    /\ errorCb' = [errorCb EXCEPT ![slot[Cur(t)]] = Cur(t)]
    /\ Goto(t, "send")
    /\ UNCHANGED <<available, expired, tryVars, locals, pollVars, netVars,
                   process>>

\* sendWritePacket_ / sendReadPacket_ succeeds; the start function returns.
SendOk(t) ==
    /\ At(t, "send")
    /\ cmds' = cmds \union {Cur(t)}
    /\ Goto(t, AfterStart(t))
    /\ UNCHANGED <<tableVars, tryVars, locals, pollVars, replies, process>>

\* It fails: not connected, no buffer space, a socket error or a send timeout.
SendFail(t) ==
    /\ At(t, "send")
    /\ Goto(t, "sendFailed")
    /\ UNCHANGED <<tableVars, tryVars, locals, pollVars, netVars, process>>

\* The callbacks stay registered.
SendFailClearSkipped(t) ==
    /\ At(t, "sendFailed")
    /\ Goto(t, "sendFailedSet")
    /\ UNCHANGED <<tableVars, tryVars, locals, pollVars, netVars, process>>

\* The failure path: unregister both callbacks under the slot's mutex ...
SendFailClear(t) ==
    /\ At(t, "sendFailed")
    /\ LockFree(slot[Cur(t)])
    /\ ClearCallbacks(slot[Cur(t)])
    /\ Goto(t, "sendFailedSet")
    /\ UNCHANGED <<available, expired, tryVars, locals, pollVars, netVars,
                   process>>

\* ... set the promise ...
SendFailSet(t) ==
    /\ At(t, "sendFailedSet")
    /\ SetValue(Cur(t), "send_error")
    /\ Goto(t, "sendFailedRelease")
    /\ UNCHANGED <<tableVars, kind, slot, locals, pollVars, netVars>>

\* ... and release the ID.
SendFailRelease(t) ==
    /\ At(t, "sendFailedRelease")
    /\ Release(slot[Cur(t)])
    /\ Goto(t, AfterStart(t))
    /\ UNCHANGED <<replyCb, errorCb, tryVars, locals, pollVars, netVars,
                   process>>

\* wait_for finds the future ready and future.get() returns its value, which
\* write and read return whatever it is, without another try. On a broken
\* promise get() throws: out of the noexcept write and read that is
\* std::terminate, the Python call passes the exception on.
WaitReady(t) ==
    /\ At(t, "wait")
    /\ Ready(Cur(t))
    /\ process' = IF Broken(Cur(t)) /\ kind[Cur(t)] \in SyncKinds
                  THEN "terminated" ELSE process
    /\ left' = left \union {Cur(t)}
    /\ Goto(t, "idle")
    /\ UNCHANGED <<tableVars, tryVars, op, try, victim, handling, pollVars,
                   netVars>>

\* wait_for gives up in write or read; cancelTransaction_ is called next.
WaitTimeout(t) ==
    /\ At(t, "wait")
    /\ kind[Cur(t)] \in SyncKinds
    /\ ~Ready(Cur(t))
    /\ Goto(t, "cancel")
    /\ UNCHANGED <<tableVars, tryVars, locals, pollVars, netVars, process>>

\* wait_for gives up in the Python read: it throws and cancels nothing.
PythonTimeout(t) ==
    /\ At(t, "wait")
    /\ kind[Cur(t)] = "python"
    /\ ~Ready(Cur(t))
    /\ left' = left \union {Cur(t)}
    /\ Goto(t, "idle")
    /\ UNCHANGED <<tableVars, tryVars, op, try, victim, handling, pollVars,
                   netVars, process>>

\* cancelTransaction_, the section under the slot's mutex: whatever is
\* registered there goes.
Cancel(t) ==
    /\ At(t, "cancel")
    /\ LockFree(slot[Cur(t)])
    /\ ClearCallbacks(slot[Cur(t)])
    /\ left' = left \union {Cur(t)}
    /\ Goto(t, "cancelRelease")
    /\ UNCHANGED <<available, expired, tryVars, op, try, victim, handling,
                   pollVars, netVars, process>>

\* The attempt counter is not advanced.
CancelReleaseRepeats(t) ==
    /\ At(t, "cancelRelease")
    /\ Release(slot[Cur(t)])
    /\ NewTry(Cur(t), kind[Cur(t)])
    /\ Goto(t, "scan")
    /\ UNCHANGED <<replyCb, errorCb, locals, pollVars, netVars, process>>

\* cancelTransaction_ ends with releaseTransactionID_; the loop of write and
\* read goes on to the next try, or they return timed_out.
CancelRelease(t) ==
    /\ At(t, "cancelRelease")
    /\ Release(slot[Cur(t)])
    /\ \/ /\ try[t] < NumTries
          /\ try' = [try EXCEPT ![t] = @ + 1]
          /\ NewTry(<<t, op[t], try[t] + 1>>, kind[Cur(t)])
          /\ Goto(t, "scan")
       \/ /\ try[t] = NumTries
          /\ Goto(t, "idle")
          /\ UNCHANGED <<try, tryVars>>
    /\ UNCHANGED <<replyCb, errorCb, op, victim, handling, left, pollVars,
                   netVars, process>>

-----------------------------------------------------------------------------
(* The thread inside runLoop.                                              *)

\* recvAndParseOnePacket_ returns a reply; its ID selects the slot.
PollReceive ==
    /\ pollPc = "recv" /\ Running
    /\ \E a \in replies :
        /\ replies' = replies \ {a}
        /\ pollIdx' = slot[a]
    /\ pollPc' = "dispatch"
    /\ UNCHANGED <<tableVars, tryVars, callerVars, pollTry, pollRes, runs,
                   cmds, process>>

\* poll() returns an error or false (connection lost, an unparsable packet,
\* an ID outside the configured range, shutdown) and runLoop returns.
LoopStops ==
    /\ pollPc = "recv" /\ Running
    /\ pollPc' = "stopped"
    /\ UNCHANGED <<tableVars, tryVars, callerVars, pollIdx, pollTry, pollRes,
                   runs, netVars, process>>

\* The slot's mutex is taken. A registered callback is moved out, both table
\* entries are cleared and the callback is called with the mutex held.
PollDispatch ==
    /\ pollPc = "dispatch" /\ Running
    /\ \/ /\ replyCb[pollIdx] # None
          /\ pollTry' = replyCb[pollIdx]
          /\ ClearCallbacks(pollIdx)
          /\ pollPc' = "callback"
          /\ UNCHANGED pollIdx
       \/ /\ replyCb[pollIdx] = None
          /\ pollPc' = "recv"
          /\ pollIdx' = None
          /\ UNCHANGED <<replyCb, errorCb, pollTry>>
    /\ UNCHANGED <<available, expired, tryVars, callerVars, pollRes, runs,
                   netVars, process>>

\* A callback whose outcome is not recorded.
CallbackResultsLost(a) == {None}

\* What on_complete(packet) leads to. The callbacks of write, read and the
\* Python read are noexcept; one passed to writeAsync or readAsync may throw.
CallbackResults(a) ==
    IF kind[a] \in AsyncKinds THEN {"ok", "operation_canceled"} ELSE {"ok"}

\* The promise is set before on_complete is called.
OnCompleteLate ==
    /\ pollPc = "callback" /\ Running
    /\ SetValue(pollTry, "ok")
    /\ UNCHANGED runs
    /\ pollRes' = "ok"
    /\ pollPc' = "set"
    /\ UNCHANGED <<tableVars, kind, slot, callerVars, pollIdx, pollTry,
                   netVars>>

\* A callback that throws is called once more.
OnCompleteAgain ==
    /\ pollPc = "callback" /\ Running
    /\ pollRes' \in CallbackResults(pollTry)
    /\ runs' = [runs EXCEPT ![pollTry] = @ + IF pollRes' = "ok" THEN 1 ELSE 2]
    /\ pollPc' = "set"
    /\ UNCHANGED <<tableVars, tryVars, callerVars, pollIdx, pollTry, netVars,
                   process>>

\* on_complete(packet), inside the try block of the reply callback
OnComplete ==
    /\ pollPc = "callback" /\ Running
    /\ runs' = [runs EXCEPT ![pollTry] = @ + 1]
    /\ pollRes' \in CallbackResults(pollTry)
    /\ pollPc' = "set"
    /\ UNCHANGED <<tableVars, tryVars, callerVars, pollIdx, pollTry, netVars,
                   process>>

\* An exception of on_complete is reported as a try that expired.
PollSetExpired ==
    /\ pollPc = "set" /\ Running
    /\ SetValue(pollTry, IF pollRes = "ok" THEN "ok" ELSE "timed_out")
    /\ pollPc' = "release"
    /\ UNCHANGED <<tableVars, kind, slot, callerVars, pollIdx, pollTry,
                   pollRes, runs, netVars>>

\* The promise is forgotten when on_complete threw.
PollSetOnSuccess ==
    /\ pollPc = "set" /\ Running
    /\ \/ pollRes = "ok" /\ SetValue(pollTry, pollRes)
       \/ pollRes # "ok" /\ UNCHANGED <<promise, process>>
    /\ pollPc' = "release"
    /\ UNCHANGED <<tableVars, kind, slot, callerVars, pollIdx, pollTry,
                   pollRes, runs, netVars>>

\* promise->set_value
PollSet ==
    /\ pollPc = "set" /\ Running
    /\ SetValue(pollTry, pollRes)
    /\ pollPc' = "release"
    /\ UNCHANGED <<tableVars, kind, slot, callerVars, pollIdx, pollTry,
                   pollRes, runs, netVars>>

\* releaseTransactionID_, still with the slot's mutex held
PollRelease ==
    /\ pollPc = "release" /\ Running
    /\ Release(slot[pollTry])
    /\ pollPc' = "unlock"
    /\ UNCHANGED <<replyCb, errorCb, tryVars, callerVars, pollIdx, pollTry,
                   pollRes, runs, netVars, process>>

\* reply_error_callback_[tx_index] = nullptr, the callback returns, the mutex
\* is released and poll() returns true.
PollUnlock ==
    /\ pollPc = "unlock" /\ Running
    /\ errorCb' = [errorCb EXCEPT ![slot[pollTry]] = None]
    /\ pollPc' = "recv"
    /\ pollIdx' = None
    /\ pollTry' = None
    /\ pollRes' = "none"
    /\ UNCHANGED <<available, expired, replyCb, tryVars, callerVars, runs,
                   netVars, process>>

-----------------------------------------------------------------------------
(* Time and the SpaceWire network. A command or reply that is never        *)
(* delivered stays in its set; delivery is in any order.                   *)

\* transaction_timeout_ elapses for an ID in use.
Expire(i) ==
    /\ i \notin available /\ i \notin expired /\ Running
    /\ expired' = expired \union {i}
    /\ UNCHANGED <<available, replyCb, errorCb, tryVars, callerVars, pollVars,
                   netVars, process>>

\* A target executes the command of try a and replies with its ID.
TargetReplies(a) ==
    /\ a \in cmds /\ Running
    /\ cmds' = cmds \ {a}
    /\ replies' = replies \union {a}
    /\ UNCHANGED <<tableVars, tryVars, callerVars, pollVars, process>>

-----------------------------------------------------------------------------

StartStep(t) ==
    \/ AcquireId(t) \/ FindExpired(t) \/ NoId(t)
    \/ ForceRelease(t) \/ HandlerSet(t) \/ HandlerRelease(t)
    \/ HandlerClear(t) \/ ReleaseVictim(t)
    \/ Install(t) \/ SendOk(t) \/ SendFail(t)
    \/ SendFailClear(t) \/ SendFailSet(t) \/ SendFailRelease(t)

WaitStep(t) ==
    \/ WaitReady(t) \/ WaitTimeout(t) \/ PythonTimeout(t)
    \/ Cancel(t) \/ CancelRelease(t)

\* A step of a thread that is inside a call.
CallerStep(t) == StartStep(t) \/ WaitStep(t)

\* A step of the loop that does not wait for the network.
DispatchStep ==
    PollDispatch \/ OnComplete \/ PollSet \/ PollRelease \/ PollUnlock

\* Nothing is left to do: the bound is reached or the process is gone.
Finished ==
    /\ ~Running \/ \A t \in Callers : pc[t] = "idle" /\ op[t] = MaxOps
    /\ UNCHANGED vars

Next ==
    \/ \E t \in Callers, k \in Kinds : StartOp(t, k)
    \/ \E t \in Callers : CallerStep(t)
    \/ PollReceive
    \/ LoopStops
    \/ DispatchStep
    \/ \E i \in Idx : Expire(i)
    \/ \E a \in Tries : TargetReplies(a)
    \/ Finished

Spec == Init /\ [][Next]_vars

\* Threads inside a call and a loop that has a packet in hand keep running;
\* nothing obliges the application to call, the network to deliver, or the
\* peer to stay connected.
FairSpec ==
    /\ Spec
    /\ \A t \in Callers : WF_vars(CallerStep(t))
    /\ WF_vars(DispatchStep)

-----------------------------------------------------------------------------
(* Properties that hold for any number of threads.                         *)

\* The on_complete of write and read, which stores into the caller's buffer,
\* never runs once the caller has stopped waiting for that try: the mutex
\* poll() holds over the callback makes cancelTransaction_ wait for it.
CallbackWithinCall ==
    pollPc = "callback" /\ kind[pollTry] \in SyncKinds => pollTry \notin left

\* on_complete is called at most once per try, however replies are delayed,
\* reordered or answered under a reused ID.
CallbackRunsOnce == \A a \in Tries : runs[a] <= 1

\* A future reports the reply, or the callback's exception, only after
\* on_complete has run ("before fulfilling the future", README.md).
ResolvedAfterCallback ==
    \A a \in Tries :
        promise[a] \in {"ok", "operation_canceled"} => runs[a] = 1

\* The thread inside runLoop never sets a promise twice, so it is never the
\* one that takes the process down.
LoopSetsPendingPromise ==
    pollPc \in {"callback", "set"} => promise[pollTry] = "pending"

\* Who will give the ID of slot i back.
Responsible(i) ==
    \/ replyCb[i] # None
    \/ pollPc \in {"callback", "set", "release"} /\ pollIdx = i
    \/ \E t \in Callers :
        \/ /\ pc[t] \in {"install", "sendFailedSet", "sendFailedRelease",
                         "cancelRelease"}
           /\ slot[Cur(t)] = i
        \/ /\ pc[t] \in {"handlerSet", "handlerRelease"}
           /\ slot[handling[t]] = i
        \/ /\ pc[t] = "forceRelease"
           /\ victim[t] = i

\* No ID leaks: one that is not available is registered with a callback or
\* held by a thread whose next steps release it. This covers failed sends,
\* exceptions in callbacks, cancellation and forced release.
NoLeakedId == \A i \in Idx : i \notin available => Responsible(i)

\* The futures and callbacks of the tries, seen from outside.
Async == INSTANCE AsyncResult WITH future <- promise, calls <- runs

\* The node implements AsyncResult: over all interleavings of callers, loop and
\* forced releases, every try is completed through its callback or fails
\* without it, never both, and a value once given stays.
ImplementsAsyncResult == Async!Spec

\* Every call returns, replies or not, running loop or not ("This prevents
\* deadlocks when a remote node never replies", README.md).
CallsReturn ==
    \A t \in Callers : pc[t] # "idle" ~> pc[t] = "idle" \/ ~Running

\* Once poll() has a reply callback in hand the future of its try becomes ready
\* ("resolve when the reply is received", README.md), also when on_complete
\* throws.
DispatchedResolves ==
    \A a \in Tries :
        pollPc = "callback" /\ pollTry = a
            ~> promise[a] \in {"ok", "operation_canceled"} \/ ~Running

-----------------------------------------------------------------------------
(* Properties that hold when one application thread uses the node.         *)

\* A slot with a registered callback is not handed out again.
RegisteredIdsTaken == \A i \in Idx : replyCb[i] # None => i \notin available

\* A promise is dropped unfulfilled only when its caller has given up on it.
PromisesKept == \A a \in Tries : Broken(a) => a \in left

\* set_value on a satisfied promise, or get() on a broken one, ends the
\* process. With one thread only the failure path of a send can do it, when
\* a late reply under the reused ID has already completed the try.
TerminatesOnlyOnFailedSend ==
    ~Running => \E t \in Callers : pc[t] = "sendFailedRelease"

-----------------------------------------------------------------------------
(* What the documentation says and the code does not provide.              *)

\* write and read cancel "the pending transaction" (README.md): a reply
\* callback that cancelTransaction_ removes is that of the caller's own try.
CancelsOwnTransaction ==
    [][\A t \in Callers :
        pc[t] = "cancel" /\ pc'[t] = "cancelRelease"
            => replyCb[slot[Cur(t)]] \in {Cur(t), None}]_vars

\* The Python read and write are "synchronous" (README.md): the callback, which
\* stores into a vector of the call's frame, does not run after the call has
\* thrown its timeout.
PythonCallbackWithinCall ==
    pollPc = "callback" /\ kind[pollTry] = "python" => pollTry \notin left

=============================================================================
