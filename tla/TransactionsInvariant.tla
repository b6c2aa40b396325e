----------------------- MODULE TransactionsInvariant ------------------------
(***************************************************************************)
(* The inductive invariant behind the theorems of TransactionsProofs, for  *)
(* any number of threads, transaction IDs, operations and retries: what it *)
(* says, that its typing part holds at first and is kept by every step, and *)
(* that every step of an application thread keeps the rest, one lemma per  *)
(* action.                                                                 *)
(***************************************************************************)
EXTENDS Transactions, TLAPS

\* Before its callbacks are registered a try is known to its own thread only.
PrePcs == {"scan", "force", "handlerSet", "handlerRelease", "handlerClear",
           "forceRelease", "install"}

\* A thread inside a call has a current try; the loop, while it holds a
\* slot's mutex, has the try whose callback it moved out.
Locals ==
    /\ \A t \in Callers : pc[t] # "idle" => op[t] # 0
    /\ pollPc \in BusyPcs => pollTry \in Tries
    /\ pollPc = "set" => pollRes # "none"

\* A try that is not yet registered anywhere: not begun, or still in the part
\* of the start function before the callbacks are installed.
Unborn(a) ==
    \/ promise[a] = "none"
    \/ \E t \in Callers : Cur(t) = a /\ pc[t] \in PrePcs

\* The tries a thread has still ahead of it have not begun.
Ahead ==
    \A t \in Callers : \A n \in 1 .. MaxOps : \A k \in 1 .. NumTries :
        n > op[t] \/ (n = op[t] /\ k > try[t])
            => promise[<<t, n, k>>] = "none"

\* A thread inside a call works on a try that has begun.
Begun == \A t \in Callers : pc[t] # "idle" => promise[Cur(t)] # "none"

\* A thread that has not installed its callbacks holds a pending promise.
PrePending ==
    \A t \in Callers : pc[t] \in PrePcs => promise[Cur(t)] = "pending"

\* An unborn try is in no table, in no thread's hands, and has no history.
UnbornUnknown ==
    \A a \in Tries : Unborn(a) =>
        /\ \A i \in Idx : replyCb[i] # a /\ errorCb[i] # a
        /\ \A t \in Callers : handling[t] # a
        /\ pollPc \in BusyPcs => pollTry # a
        /\ runs[a] = 0
        /\ a \notin left

\* Callbacks sit in the slot of their try's transaction ID, in the tables and
\* in the hands of the loop or of a thread that runs an error handler.
Placement ==
    /\ \A i \in Idx : replyCb[i] # None => slot[replyCb[i]] = i
    /\ \A i \in Idx : errorCb[i] # None => slot[errorCb[i]] = i
    /\ pollPc \in BusyPcs => slot[pollTry] = pollIdx
    /\ pollPc \in BusyPcs \union {"dispatch"} => pollIdx \in Idx
    /\ \A a \in cmds \union replies : slot[a] \in Idx

\* The reply callback of try a can still be called.
Callable(a) ==
    \/ \E i \in Idx : replyCb[i] = a
    \/ pollPc = "callback" /\ pollTry = a

\* A try whose callback can still be called is pending, has not run it, and
\* its caller, if it cancels on timeout, is still waiting.
CallablePending ==
    \A a \in Tries : Callable(a) =>
        /\ promise[a] = "pending"
        /\ runs[a] = 0
        /\ kind[a] \in SyncKinds => a \notin left

\* A registered callback is registered only there.
CallableOnce ==
    pollPc \in BusyPcs => \A i \in Idx : replyCb[i] # pollTry

\* While the loop is about to set a promise, it is pending and the callback
\* has run.
SetPending ==
    pollPc = "set" => promise[pollTry] = "pending" /\ runs[pollTry] = 1

\* A try whose error handler is running, or whose send has failed and whose
\* callbacks were removed, will not be completed by the loop.
NotCallable(a) ==
    /\ \A i \in Idx : replyCb[i] # a
    /\ ~(pollPc \in {"callback", "set"} /\ pollTry = a)

\* Nor will one whose error handler runs, or whose sending has failed.
Settled ==
    \A t \in Callers :
        /\ handling[t] # None => NotCallable(handling[t])
        /\ pc[t] \in {"sendFailedSet", "sendFailedRelease"}
               => NotCallable(Cur(t))

\* The indices the steps use are indices of the tables.
Indices ==
    \A t \in Callers :
        /\ pc[t] \in {"force", "forceRelease", "handlerSet", "handlerRelease",
                      "handlerClear"} => victim[t] \in Idx
        /\ pc[t] \in {"handlerSet", "handlerRelease", "handlerClear"}
               => handling[t] \in Tries /\ slot[handling[t]] = victim[t]
        /\ pc[t] \in {"install", "send", "sendFailed", "sendFailedSet",
                      "sendFailedRelease", "cancel", "cancelRelease"}
               => slot[Cur(t)] \in Idx
        /\ pc[t] = "wait" /\ promise[Cur(t)] = "pending"
               => slot[Cur(t)] \in Idx

\* The inductive invariant: the properties and what they rest on.
IInv ==
    /\ TypeOK /\ Locals /\ Ahead /\ Begun /\ PrePending /\ UnbornUnknown
    /\ Placement /\ CallablePending /\ CallableOnce /\ SetPending
    /\ Settled /\ Indices
    /\ ResolvedAfterCallback /\ CallbackRunsOnce /\ NoLeakedId

-----------------------------------------------------------------------------

\* write and read try at least once.
LEMMA NumTriesPositive == NumTries \in Nat /\ 1 <= NumTries
BY ConstantsAssumption DEF NumTries

\* The current try of a thread inside a call is a try, and its own.
LEMMA CurTry ==
    ASSUME TypeOK, NEW t \in Callers, op[t] # 0
    PROVE  Cur(t) \in Tries
BY ConstantsAssumption DEF TypeOK, Cur, Tries

\* Different threads work on different tries.
LEMMA CurOwn ==
    ASSUME NEW s \in Callers, NEW t \in Callers, Cur(s) = Cur(t)
    PROVE  s = t
BY Zenon DEF Cur

\* set_value changes the promise of that try only, and only from pending.
LEMMA SetValueFacts ==
    ASSUME TypeOK, NEW a \in Tries, NEW v \in Outcomes, SetValue(a, v)
    PROVE  /\ \A b \in Tries : b # a => promise'[b] = promise[b]
           /\ promise[a] = "pending" => promise'[a] = v
           /\ promise[a] # "pending" => promise'[a] = promise[a]
           /\ \A b \in Tries : promise'[b] = "pending" =>
                promise[b] = "pending" /\ b # a
           /\ \A b \in Tries : promise'[b] = "none" <=> promise[b] = "none"
BY Zenon DEF TypeOK, SetValue, Outcomes

\* Clearing the slot j makes no try callable that was not.
LEMMA ClearedNotCallable ==
    ASSUME NEW b \in Tries, NEW j, NotCallable(b),
           \A i \in Idx : replyCb'[i] = IF i = j THEN None ELSE replyCb[i],
           pollPc' = pollPc, pollTry' = pollTry
    PROVE  NotCallable(b)'
BY ConstantsAssumption, Zenon DEF NotCallable

\* The initial state is well typed.
LEMMA InitTyping == Init => TypeOK /\ Locals
<1> USE ConstantsAssumption, NumTriesPositive
<1>1. Init => TypeOK
  BY DEF Init, TypeOK, Pcs, PollPcs
<1>2. Init => Locals
  BY Zenon DEF Init, Locals, BusyPcs
<1> QED
  BY <1>1, <1>2, Zenon

\* Every step keeps the state well typed.
LEMMA TypingStep ==
    ASSUME TypeOK, Locals, Indices, Placement, [Next]_vars
    PROVE  TypeOK' /\ Locals'
<1> USE ConstantsAssumption, NumTriesPositive
<1> USE DEF TypeOK, Locals, Pcs, StartPcs, PollPcs, BusyPcs, Outcomes,
            At, Goto, tableVars, tryVars, locals, callerVars, pollVars, netVars
<1>1. ASSUME NEW t \in Callers, NEW k \in Kinds, StartOp(t, k)
      PROVE  TypeOK' /\ Locals'
  <2> DEFINE a == <<t, op[t] + 1, 1>>
  <2>1. promise' = [promise EXCEPT ![a] = "pending"]
    BY <1>1, Zenon DEF StartOp, NewTry
  <2>2. kind' = [kind EXCEPT ![a] = k]
    BY <1>1, Zenon DEF StartOp, NewTry
  <2>3. op' = [op EXCEPT ![t] = op[t] + 1] /\ op[t] + 1 \in 1 .. MaxOps
    BY <1>1 DEF StartOp
  <2>4. kind' \in [Tries -> AllKinds \union {None}]
    <3> HIDE DEF a
    <3> QED BY <2>2
  <2>5. promise' \in [Tries -> Outcomes \union {"none", "pending"}]
    <3> HIDE DEF a
    <3> QED BY <2>1
  <2>6. op' \in [Callers -> 0 .. MaxOps]
    BY <2>3
  <2>7. try' \in [Callers -> 1 .. NumTries] /\ pc' \in [Callers -> Pcs]
    BY <1>1 DEF StartOp
  <2> HIDE DEF a
  <2>8. slot' = slot
    BY <1>1, Zenon DEF StartOp, NewTry
  <2>9. TypeOK'
    BY <1>1, <2>4, <2>5, <2>6, <2>7, <2>8, Zenon DEF StartOp
  <2>10. Locals'
    BY <1>1, <2>3 DEF StartOp
  <2> QED
    BY <2>9, <2>10, Zenon
<1>2. ASSUME NEW t \in Callers, StartStep(t)
      PROVE  TypeOK' /\ Locals'
  <2> Cur(t) \in Tries
    <3> pc[t] # "idle"
      BY <1>2, Zenon DEF StartStep, AcquireId, FindExpired, NoId, ForceRelease,
        HandlerSet, HandlerRelease, HandlerClear, ReleaseVictim, Install,
        SendOk, SendFail, SendFailClear, SendFailSet, SendFailRelease
    <3> QED
      BY CurTry, Zenon
  <2>1. CASE AcquireId(t)
    BY <2>1 DEF AcquireId
  <2>2. CASE FindExpired(t)
    BY <2>2, ZenonT(30) DEF FindExpired
  <2>3. CASE NoId(t)
    BY <2>3, ZenonT(30) DEF NoId, SetValue, AfterStart
  <2>4. CASE ForceRelease(t)
    BY <2>4, Zenon DEF ForceRelease, ClearCallbacks, Indices
  <2>5. CASE HandlerSet(t)
    BY <2>5, ZenonT(30) DEF HandlerSet, SetValue
  <2>6. CASE HandlerRelease(t)
    BY <2>6 DEF HandlerRelease, Release, Indices
  <2>7. CASE HandlerClear(t)
    BY <2>7, Zenon DEF HandlerClear
  <2>8. CASE ReleaseVictim(t)
    BY <2>8, Zenon DEF ReleaseVictim, Release, Indices
  <2>9. CASE Install(t)
    BY <2>9, Zenon DEF Install
  <2>10. CASE SendOk(t)
    BY <2>10, Zenon DEF SendOk, AfterStart
  <2>11. CASE SendFail(t)
    BY <2>11, Zenon DEF SendFail
  <2>12. CASE SendFailClear(t)
    BY <2>12, Zenon DEF SendFailClear, ClearCallbacks
  <2>13. CASE SendFailSet(t)
    BY <2>13, ZenonT(30) DEF SendFailSet, SetValue
  <2>14. CASE SendFailRelease(t)
    BY <2>14, Zenon DEF SendFailRelease, Release, Indices, AfterStart
  <2> QED
    BY ONLY <1>2, <2>1, <2>2, <2>3, <2>4, <2>5, <2>6, <2>7, <2>8, <2>9, <2>10,
            <2>11,
       <2>12, <2>13, <2>14, Zenon DEF StartStep
<1>3. ASSUME NEW t \in Callers, WaitStep(t)
      PROVE  TypeOK' /\ Locals'
  <2> Cur(t) \in Tries
    <3> pc[t] # "idle"
      BY <1>3, Zenon DEF WaitStep, WaitReady, WaitTimeout, PythonTimeout, Cancel,
        CancelRelease
    <3> QED
      BY CurTry, Zenon
  <2>1. CASE WaitReady(t)
    BY <2>1, Zenon DEF WaitReady
  <2>2. CASE WaitTimeout(t)
    BY <2>2, Zenon DEF WaitTimeout
  <2>3. CASE PythonTimeout(t)
    BY <2>3, Zenon DEF PythonTimeout
  <2>4. CASE Cancel(t)
    BY <2>4, Zenon DEF Cancel, ClearCallbacks
  <2>5. CASE CancelRelease(t)
    <3>1. CASE try[t] < NumTries
      <4> DEFINE a == <<t, op[t], try[t] + 1>>
      <4>1. /\ promise' = [promise EXCEPT ![a] = "pending"]
            /\ kind' = [kind EXCEPT ![a] = kind[Cur(t)]]
            /\ try' = [try EXCEPT ![t] = try[t] + 1]
            /\ pc' = [pc EXCEPT ![t] = "scan"]
            /\ slot' = slot
        BY <2>5, <3>1 DEF CancelRelease, NewTry
      <4> HIDE DEF a
      <4>2. kind' \in [Tries -> AllKinds \union {None}]
        BY <4>1, Zenon
      <4>3. promise' \in [Tries -> Outcomes \union {"none", "pending"}]
        BY <4>1, Zenon
      <4>4. available' \subseteq Idx /\ expired' \subseteq Idx
        BY <2>5, Zenon DEF CancelRelease, Release, Indices
      <4> QED
        BY <2>5, <3>1, <4>1, <4>2, <4>3, <4>4 DEF CancelRelease
    <3>2. CASE ~(try[t] < NumTries)
      BY <2>5, <3>2, ZenonT(30) DEF CancelRelease, Release, Indices
    <3> QED
      BY <3>1, <3>2, Zenon
  <2> QED
    BY <1>3, <2>1, <2>2, <2>3, <2>4, <2>5, Zenon DEF WaitStep
<1>4. CASE PollReceive
  BY <1>4, Zenon DEF PollReceive
<1>5. CASE LoopStops
  BY <1>5, Zenon DEF LoopStops
<1>6. CASE PollDispatch
  BY <1>6 DEF PollDispatch, ClearCallbacks, Placement
<1>7. CASE OnComplete
  BY <1>7 DEF OnComplete, CallbackResults
<1>8. CASE PollSet
  BY <1>8 DEF PollSet, SetValue
<1>9. CASE PollRelease
  BY <1>9, ZenonT(30) DEF PollRelease, Release, Placement
<1>10. CASE PollUnlock
  BY <1>10, Zenon DEF PollUnlock
<1>11. ASSUME NEW i \in Idx, Expire(i)
       PROVE  TypeOK' /\ Locals'
  BY <1>11, Zenon DEF Expire
<1>12. ASSUME NEW a \in Tries, TargetReplies(a)
       PROVE  TypeOK' /\ Locals'
  BY <1>12, Zenon DEF TargetReplies
<1>13. CASE UNCHANGED vars
  BY <1>13, Zenon DEF vars
<1> QED
  BY ONLY [Next]_vars, <1>1, <1>2, <1>3, <1>4, <1>5, <1>6, <1>7, <1>8, <1>9,
          <1>10,
     <1>11, <1>12, <1>13, Zenon DEF Next, CallerStep, DispatchStep, Finished

\* A step A keeps the inductive invariant, given that it keeps the types.
KeptBy(A) == IInv /\ TypeOK' /\ Locals' /\ A => IInv'

-----------------------------------------------------------------------------
(* The steps that begin a try and those that give it a transaction ID.     *)

\* Entering the start function for a try with no history keeps the invariant:
\* nothing but its own thread knows the try. That is the step of a new call,
\* and of a cancellation that ends in another try.
LEMMA NewTryStep ==
    ASSUME IInv, TypeOK', Locals', Ahead',
           NEW t \in Callers, NEW a \in Tries, NEW k,
           promise[a] = "none", NewTry(a, k), Cur(t)' = a, pc'[t] = "scan",
           \A s \in Callers : s # t => Cur(s)' = Cur(s) /\ pc'[s] = pc[s],
           \/ pc[t] = "idle" /\ UNCHANGED <<available, expired>>
           \/ pc[t] = "cancelRelease" /\ Release(slot[Cur(t)]),
           UNCHANGED <<replyCb, errorCb, victim, handling, left, pollVars,
                       netVars, process>>
    PROVE  IInv'
<1> USE DEF IInv, pollVars, netVars
<1>1. /\ promise'[a] = "pending" /\ slot' = slot
      /\ \A b \in Tries :
           b # a => promise'[b] = promise[b] /\ kind'[b] = kind[b]
  BY Zenon DEF TypeOK, NewTry
<1>2. Unborn(a)
  BY Zenon DEF Unborn
<1>3. \A s \in Callers : s # t => Cur(s) # a
  BY CurOwn, Zenon DEF Cur
<1>4. \A b \in Tries : Unborn(b)' => Unborn(b)
  <2> SUFFICES ASSUME NEW b \in Tries, Unborn(b)', b # a
               PROVE  Unborn(b)
    BY <1>2, Zenon
  <2> QED
    BY <1>1, Zenon DEF Unborn
<1>5. ~Callable(a) /\ runs[a] = 0 /\ NotCallable(a)
  BY <1>2, Zenon DEF UnbornUnknown, Callable, NotCallable, BusyPcs
<1>6. \A s \in Callers : pc[s] # "idle" => Cur(s) \in Tries
  BY CurTry, Zenon DEF Locals
<1>7. PrePending' /\ Begun'
  BY <1>1, <1>3, <1>6, Zenon DEF PrePending, Begun, PrePcs
<1>8. UnbornUnknown'
  BY <1>4, Zenon DEF UnbornUnknown
<1>9. Placement'
  BY <1>1, Zenon DEF Placement
<1>10. CallablePending'
  BY <1>1, <1>5, Zenon DEF CallablePending, Callable
<1>11. CallableOnce' /\ CallbackRunsOnce'
  BY Zenon DEF CallableOnce, CallbackRunsOnce
<1>12. SetPending'
  BY <1>1, <1>5, Zenon DEF SetPending, NotCallable, Locals, BusyPcs
<1>13. Settled'
  BY Zenon DEF Settled, NotCallable
<1>14. Indices'
  BY <1>1, <1>3, <1>6, ZenonT(30) DEF Indices
<1>15. ResolvedAfterCallback'
  BY <1>1, Zenon DEF ResolvedAfterCallback
<1>16. NoLeakedId'
  BY <1>1 DEF NoLeakedId, Responsible, Release
<1> QED
  BY <1>7, <1>8, <1>9, <1>10, <1>11, <1>12, <1>13, <1>14, <1>15, <1>16, Zenon

\* A call that begins keeps the invariant.
LEMMA StartOpStep ==
    ASSUME IInv, TypeOK', Locals', NEW t \in Callers, NEW k \in Kinds,
           StartOp(t, k)
    PROVE  IInv'
<1> USE DEF IInv
<1> DEFINE a == <<t, op[t] + 1, 1>>
<1>1. a \in Tries
  BY ConstantsAssumption, NumTriesPositive DEF Tries, TypeOK, StartOp
<1>2. promise[a] = "none"
  BY ConstantsAssumption, NumTriesPositive DEF Ahead, TypeOK, StartOp
<1>3. Cur(t)' = a
  BY Zenon DEF Cur, StartOp, TypeOK
<1>4. /\ pc[t] = "idle" /\ pc'[t] = "scan" /\ NewTry(a, k)
      /\ \A s \in Callers : s # t => Cur(s)' = Cur(s) /\ pc'[s] = pc[s]
      /\ UNCHANGED <<tableVars, slot, victim, handling, left, pollVars,
                     netVars, process>>
  BY Zenon DEF StartOp, NewTry, At, Goto, TypeOK, Cur
<1>5. Ahead'
  <2> SUFFICES ASSUME NEW s \in Callers, NEW n \in 1 .. MaxOps,
                      NEW j \in 1 .. NumTries,
                      n > op'[s] \/ (n = op'[s] /\ j > try'[s])
               PROVE  promise'[<<s, n, j>>] = "none"
    BY Zenon DEF Ahead
  <2>1. <<s, n, j>> # a /\ <<s, n, j>> \in Tries
    BY SMTT(30) DEF StartOp, TypeOK, Tries
  <2>2. promise[<<s, n, j>>] = "none"
    BY DEF StartOp, TypeOK, Ahead
  <2> QED
    BY <1>1, <2>1, <2>2, Zenon DEF StartOp, NewTry, TypeOK
<1> HIDE DEF a
<1> QED
  BY <1>1, <1>2, <1>3, <1>4, <1>5, NewTryStep, Zenon DEF tableVars

\* The end of a cancellation keeps the invariant when the call tries again.
LEMMA RetryStep ==
    ASSUME IInv, TypeOK', Locals', NEW t \in Callers, CancelRelease(t),
           try[t] < NumTries
    PROVE  IInv'
<1> USE DEF IInv
<1> DEFINE a == <<t, op[t], try[t] + 1>>
<1>0. op[t] \in 1 .. MaxOps /\ try[t] + 1 \in 1 .. NumTries
  BY ConstantsAssumption, NumTriesPositive, SMTT(30)
  DEF TypeOK, Locals, CancelRelease, At
<1>1. a \in Tries
  BY <1>0, Zenon DEF Tries
<1>2. promise[a] = "none"
  BY <1>0 DEF Ahead, TypeOK
<1>3. Cur(t)' = a
  BY DEF Cur, CancelRelease, TypeOK
<1>4. /\ pc[t] = "cancelRelease" /\ pc'[t] = "scan"
      /\ NewTry(a, kind[Cur(t)]) /\ Release(slot[Cur(t)])
      /\ \A s \in Callers : s # t => Cur(s)' = Cur(s) /\ pc'[s] = pc[s]
      /\ UNCHANGED <<replyCb, errorCb, slot, victim, handling, left, pollVars,
                     netVars, process>>
  BY DEF CancelRelease, NewTry, At, Goto, TypeOK, Cur
<1>5. Ahead'
  <2> SUFFICES ASSUME NEW s \in Callers, NEW n \in 1 .. MaxOps,
                      NEW j \in 1 .. NumTries,
                      n > op'[s] \/ (n = op'[s] /\ j > try'[s])
               PROVE  promise'[<<s, n, j>>] = "none"
    BY Zenon DEF Ahead
  <2>1. <<s, n, j>> # a /\ <<s, n, j>> \in Tries
    BY <1>0, SMTT(30) DEF CancelRelease, TypeOK, Tries
  <2>2. promise[<<s, n, j>>] = "none"
    BY <1>0 DEF CancelRelease, TypeOK, Ahead
  <2> QED
    BY <1>1, <1>4, <2>1, <2>2, Zenon DEF NewTry, TypeOK
<1> HIDE DEF a
<1> QED
  BY <1>1, <1>2, <1>3, <1>4, <1>5, NewTryStep, Zenon

\* Taking a free ID keeps the invariant.
LEMMA AcquireIdStep ==
    ASSUME NEW t \in Callers
    PROVE  KeptBy(AcquireId(t))
<1> SUFFICES ASSUME IInv, TypeOK', Locals', AcquireId(t)
             PROVE  IInv'
  BY Zenon DEF KeptBy
<1> USE CurOwn, ConstantsAssumption
<1> USE DEF At, Goto, tableVars, tryVars, locals, callerVars, pollVars, netVars
<1> TypeOK /\ Locals
  BY Zenon DEF IInv
<1> Cur(t) \in Tries
  BY CurTry, Zenon DEF Locals, AcquireId
<1>1. \A s \in Callers : Cur(s)' = Cur(s)
  BY Zenon DEF Cur, AcquireId, FirstAvailable
<1>2. /\ slot \in [Tries -> Idx \union {None}]
      /\ pc \in [Callers -> Pcs]
  BY Zenon DEF TypeOK
<1>3. Begun' /\ PrePending' /\ CallablePending' /\ CallableOnce' /\ SetPending'
  BY <1>1, <1>2, Zenon
  DEF IInv, AcquireId, FirstAvailable, Begun, PrePending, PrePcs,
    CallablePending, Callable, CallableOnce, BusyPcs, SetPending
<1>4. Settled'
  BY <1>1 DEF IInv, AcquireId, FirstAvailable, Settled, NotCallable
<1>5. ResolvedAfterCallback' /\ CallbackRunsOnce'
  BY <1>1, <1>2, Zenon
  DEF IInv, AcquireId, FirstAvailable, ResolvedAfterCallback, CallbackRunsOnce
<1>6. Ahead'
  BY <1>1, ZenonT(30) DEF IInv, AcquireId, FirstAvailable, Ahead
<1>7. UnbornUnknown'
  BY <1>1
  DEF IInv, AcquireId, FirstAvailable, UnbornUnknown, Unborn, PrePcs, BusyPcs
<1>8. Placement'
  <2>1. /\ slot'[Cur(t)] \in Idx
        /\ \A b \in Tries : b # Cur(t) => slot'[b] = slot[b]
    BY <1>2, Zenon DEF AcquireId, FirstAvailable
  <2>2. Unborn(Cur(t))
    BY Zenon DEF Unborn, AcquireId, PrePcs
  <2>3. /\ replyCb' = replyCb /\ errorCb' = errorCb /\ pollPc' = pollPc
        /\ pollTry' = pollTry /\ pollIdx' = pollIdx /\ cmds' = cmds
        /\ replies' = replies
    BY Zenon DEF AcquireId, FirstAvailable
  <2>4. /\ replyCb \in [Idx -> Tries \union {None}]
        /\ errorCb \in [Idx -> Tries \union {None}]
        /\ cmds \subseteq Tries /\ replies \subseteq Tries
    BY Zenon DEF TypeOK
  <2>5. /\ \A i \in Idx : replyCb[i] # Cur(t) /\ errorCb[i] # Cur(t)
        /\ pollPc \in BusyPcs => pollTry \in Tries /\ pollTry # Cur(t)
    BY <2>2, Zenon DEF IInv, Locals, UnbornUnknown
  <2>6. /\ \A i \in Idx : replyCb'[i] # None => slot'[replyCb'[i]] = i
        /\ \A i \in Idx : errorCb'[i] # None => slot'[errorCb'[i]] = i
    <3> SUFFICES ASSUME NEW i \in Idx
                 PROVE  /\ replyCb[i] # None => slot'[replyCb[i]] = i
                        /\ errorCb[i] # None => slot'[errorCb[i]] = i
      BY <2>3, Zenon
    <3>1. /\ replyCb[i] # None => slot[replyCb[i]] = i
          /\ errorCb[i] # None => slot[errorCb[i]] = i
      BY Zenon DEF IInv, Placement
    <3>2. /\ replyCb[i] \in Tries \union {None}
          /\ errorCb[i] \in Tries \union {None}
      BY <2>4, Zenon
    <3> QED
      BY <2>1, <2>5, <3>1, <3>2, Zenon
  <2>7. \A b \in cmds' \union replies' : slot'[b] \in Idx
    BY <2>1, <2>3, <2>4, Zenon DEF IInv, Placement
  <2> QED
    BY <2>1, <2>3, <2>5, <2>6, <2>7, Zenon DEF IInv, Placement, BusyPcs
<1>9. Indices'
  BY <1>1, <1>2
  DEF IInv, AcquireId, FirstAvailable, Indices, PrePending, UnbornUnknown,
    Unborn, PrePcs
<1>10. NoLeakedId'
  BY <1>1, <1>2, SMTT(30)
  DEF IInv, AcquireId, FirstAvailable, NoLeakedId, Responsible, PrePending,
    UnbornUnknown, Unborn, PrePcs
<1> QED
  BY <1>3, <1>4, <1>5, <1>6, <1>7, <1>8, <1>9, <1>10, Zenon DEF IInv

\* Choosing an expired ID keeps the invariant.
LEMMA FindExpiredStep ==
    ASSUME NEW t \in Callers
    PROVE  KeptBy(FindExpired(t))
<1> SUFFICES ASSUME IInv, TypeOK', Locals', FindExpired(t)
             PROVE  IInv'
  BY Zenon DEF KeptBy
<1> USE CurOwn, ConstantsAssumption
<1> USE DEF At, Goto, tableVars, tryVars, locals, callerVars, pollVars, netVars
<1> TypeOK /\ Locals
  BY Zenon DEF IInv
<1> Cur(t) \in Tries
  BY CurTry, Zenon DEF Locals, FindExpired
<1>1. \A s \in Callers : Cur(s)' = Cur(s)
  BY Zenon DEF Cur, FindExpired
<1>2. /\ victim \in [Callers -> Idx \union {None}]
      /\ pc \in [Callers -> Pcs]
  BY Zenon DEF TypeOK
<1>3. Begun' /\ PrePending' /\ Placement' /\ CallablePending' /\ CallableOnce'
  BY <1>1, <1>2, ZenonT(30)
  DEF IInv, FindExpired, Begun, PrePending, PrePcs, Placement, BusyPcs,
    CallablePending, Callable, CallableOnce
<1>4. SetPending'
  BY <1>1, <1>2, Zenon DEF IInv, FindExpired, SetPending
<1>5. Settled'
  BY <1>1 DEF IInv, FindExpired, Settled, NotCallable
<1>6. ResolvedAfterCallback' /\ CallbackRunsOnce'
  BY <1>1, <1>2, Zenon
  DEF IInv, FindExpired, ResolvedAfterCallback, CallbackRunsOnce
<1>7. Ahead'
  BY <1>1, ZenonT(30) DEF IInv, FindExpired, Ahead
<1>8. UnbornUnknown'
  BY <1>1 DEF IInv, FindExpired, UnbornUnknown, Unborn, PrePcs, BusyPcs
<1>9. Indices'
  BY <1>1, ZenonT(30) DEF IInv, TypeOK, FindExpired, Indices
<1>10. NoLeakedId'
  BY <1>1 DEF IInv, FindExpired, NoLeakedId, Responsible
<1> QED
  BY <1>3, <1>4, <1>5, <1>6, <1>7, <1>8, <1>9, <1>10, Zenon DEF IInv

\* Finding no ID at all keeps the invariant.
LEMMA NoIdStep ==
    ASSUME NEW t \in Callers
    PROVE  KeptBy(NoId(t))
<1> SUFFICES ASSUME IInv, TypeOK', Locals', NoId(t)
             PROVE  IInv'
  BY Zenon DEF KeptBy
<1> USE CurOwn, ConstantsAssumption
<1> USE DEF At, Goto, tableVars, tryVars, locals, callerVars, pollVars, netVars
<1> TypeOK /\ Locals
  BY Zenon DEF IInv
<1> Cur(t) \in Tries
  BY CurTry, Zenon DEF Locals, NoId
<1>1. \A s \in Callers : Cur(s)' = Cur(s)
  BY Zenon DEF Cur, NoId, SetValue, AfterStart
<1>2. /\ promise \in [Tries -> Outcomes \union {"none", "pending"}]
      /\ pc \in [Callers -> Pcs]
  BY Zenon DEF TypeOK
<1>3. \A s \in Callers : pc[s] # "idle" => Cur(s) \in Tries
  BY CurTry, Zenon DEF Locals
<1>4. /\ \A b \in Tries : promise'[b] = "none" <=> promise[b] = "none"
      /\ \A b \in Tries : b # Cur(t) => promise'[b] = promise[b]
      /\ \A b \in Tries :
           promise'[b] = "pending" => promise[b] = "pending" /\ b # Cur(t)
  BY SetValueFacts, <1>2, Zenon DEF IInv, Outcomes, NoId, AfterStart
<1>5. UnbornUnknown'
  BY <1>1, <1>2, <1>4, ZenonT(30)
  DEF IInv, NoId, AfterStart, UnbornUnknown, Unborn, PrePcs, BusyPcs
<1>6. Placement'
  BY <1>1, <1>2, <1>4, Zenon DEF IInv, NoId, AfterStart, Placement, BusyPcs
<1>7. CallableOnce' /\ CallbackRunsOnce'
  BY <1>1, <1>2, <1>4, Zenon
  DEF IInv, NoId, AfterStart, CallableOnce, BusyPcs, CallbackRunsOnce
<1>8. Settled' /\ ResolvedAfterCallback'
  <2>1. Settled'
    BY <1>1, <1>2, ZenonT(30)
    DEF IInv, NoId, SetValue, AfterStart, Settled, NotCallable
  <2>2. ResolvedAfterCallback'
    BY <1>1, <1>2, Zenon
    DEF IInv, NoId, SetValue, AfterStart, ResolvedAfterCallback
  <2> QED
    BY <2>1, <2>2, Zenon
<1>9. SetPending'
  BY <1>1, <1>2, <1>4, Zenon
  DEF IInv, Locals, NoId, AfterStart, SetPending, PrePending, BusyPcs,
    UnbornUnknown, Unborn, PrePcs, Placement, Indices
<1>10. CallablePending'
  BY <1>1, <1>2, <1>4, SMTT(30)
  DEF IInv, NoId, AfterStart, CallablePending, Callable, PrePending, BusyPcs,
    UnbornUnknown, Unborn, PrePcs, Placement, Indices
<1>11. NoLeakedId'
  BY <1>1, <1>2, <1>4, SMTT(30) DEF IInv, NoId, AfterStart, NoLeakedId, Responsible
<1>12. Ahead'
  <2> SUFFICES ASSUME NEW s \in Callers, NEW n \in 1 .. MaxOps,
                      NEW k \in 1 .. NumTries,
                      n > op[s] \/ (n = op[s] /\ k > try[s])
               PROVE  promise'[<<s, n, k>>] = "none"
    BY Zenon DEF Ahead, NoId, SetValue, AfterStart
  <2>1. <<s, n, k>> \in Tries
    BY Zenon DEF Tries
  <2>2. promise[<<s, n, k>>] = "none"
    BY Zenon DEF IInv, Ahead
  <2> QED
    BY <1>4, <2>1, <2>2, Zenon
<1>13. Begun'
  BY <1>1, <1>3, <1>4, <1>2, Zenon DEF IInv, Begun, PrePcs, NoId, AfterStart
<1>14. PrePending'
  BY <1>1, <1>3, <1>4, <1>2, ZenonT(30) DEF IInv, PrePending, PrePcs, NoId, AfterStart
<1>15. Indices'
  <2>1. /\ pc'[t] \in {"idle", "wait"} /\ promise'[Cur(t)] # "pending"
        /\ \A s \in Callers : s # t => pc'[s] = pc[s]
        /\ victim' = victim /\ handling' = handling /\ slot' = slot
    BY <1>2, <1>4, Zenon DEF NoId, AfterStart
  <2>2. \A s \in Callers :
          promise'[Cur(s)] = "pending" /\ pc[s] # "idle"
            => promise[Cur(s)] = "pending"
    BY <1>3, <1>4, Zenon
  <2> SUFFICES ASSUME NEW s \in Callers
               PROVE  Indices!(s)'
    BY Zenon DEF Indices
  <2>3. Indices!(s)
    BY Zenon DEF IInv, Indices
  <2>4. CASE s = t
    BY <1>1, <2>1, <2>4, Zenon
  <2>5. CASE s # t
    BY <1>1, <2>1, <2>2, <2>3, <2>5, Zenon
  <2> QED
    BY <2>4, <2>5, Zenon
<1> QED
  BY <1>5, <1>6, <1>7, <1>8, <1>9, <1>10, <1>11, <1>12, <1>13, <1>14, <1>15,
    Zenon
  DEF IInv

\* Emptying the slot of an expired ID keeps the invariant.
LEMMA ForceReleaseStep ==
    ASSUME NEW t \in Callers
    PROVE  KeptBy(ForceRelease(t))
<1> SUFFICES ASSUME IInv, TypeOK', Locals', ForceRelease(t)
             PROVE  IInv'
  BY Zenon DEF KeptBy
<1> USE CurOwn, ConstantsAssumption
<1> USE DEF At, Goto, tableVars, tryVars, locals, callerVars, pollVars, netVars
<1> TypeOK /\ Locals
  BY Zenon DEF IInv
<1> Cur(t) \in Tries
  BY CurTry, Zenon DEF Locals, ForceRelease
<1>1. \A s \in Callers : Cur(s)' = Cur(s)
  BY Zenon DEF Cur, ForceRelease, ClearCallbacks, LockFree
<1>2. /\ handling \in [Callers -> Tries \union {None}]
      /\ pc \in [Callers -> Pcs]
      /\ replyCb \in [Idx -> Tries \union {None}]
      /\ errorCb \in [Idx -> Tries \union {None}]
  BY Zenon DEF TypeOK
<1>3. \A s \in Callers : pc[s] # "idle" => Cur(s) \in Tries
  BY CurTry, Zenon DEF Locals
<1>4. /\ victim[t] \in Idx
      /\ \A i \in Idx :
           /\ replyCb'[i] = IF i = victim[t] THEN None ELSE replyCb[i]
           /\ errorCb'[i] = IF i = victim[t] THEN None ELSE errorCb[i]
  BY <1>2, Zenon DEF IInv, Indices, ForceRelease, ClearCallbacks
<1>5. Ahead' /\ Begun'
  <2>1. Ahead'
    BY <1>1, <1>2, <1>4, Zenon DEF IInv, ForceRelease, LockFree, Ahead
  <2>2. Begun'
    BY <1>1, <1>2, <1>4, ZenonT(30) DEF IInv, ForceRelease, LockFree, Begun
  <2> QED
    BY <2>1, <2>2, Zenon
<1>6. Placement' /\ SetPending' /\ ResolvedAfterCallback'
  BY <1>1, <1>2, <1>4, Zenon
  DEF IInv, ForceRelease, LockFree, Placement, BusyPcs, SetPending,
    ResolvedAfterCallback
<1>7. CallbackRunsOnce'
  BY <1>1, <1>2, <1>4, Zenon DEF IInv, ForceRelease, LockFree, CallbackRunsOnce
<1>8. PrePending' /\ CallablePending'
  BY <1>1, <1>2, Zenon
  DEF IInv, ForceRelease, ClearCallbacks, LockFree, PrePending, PrePcs,
    CallablePending, Callable
<1>9. CallableOnce'
  BY <1>1, <1>2, <1>4, ZenonT(30)
  DEF IInv, Locals, ForceRelease, LockFree, CallableOnce, BusyPcs
<1>10. UnbornUnknown'
  BY <1>1, <1>2, <1>4
  DEF IInv, ForceRelease, LockFree, UnbornUnknown, Unborn, PrePcs, BusyPcs
<1>11. Indices'
  BY <1>1, <1>2, <1>4, SMTT(30)
  DEF IInv, ForceRelease, LockFree, Indices, Placement, BusyPcs
<1>12. NoLeakedId'
  BY <1>1, <1>2, <1>4, SMTT(30)
  DEF IInv, ForceRelease, LockFree, NoLeakedId, Responsible, Placement, BusyPcs
<1>13. Settled'
  <2>1. \A b \in Tries : NotCallable(b) => NotCallable(b)'
    <3>1. pollPc' = pollPc /\ pollTry' = pollTry
      BY Zenon DEF ForceRelease
    <3> QED
      BY <1>4, <3>1, ClearedNotCallable, Zenon
  <2>2. \A b \in Tries : slot[b] = victim[t] => NotCallable(b)'
    BY <1>2, <1>4
    DEF NotCallable, Placement, Indices, IInv, LockFree, BusyPcs, ForceRelease
  <2> QED
    BY <1>1, <1>3, <2>1, <2>2, <1>2, SMTT(30)
    DEF IInv, Settled, Placement, Indices, ForceRelease
<1> QED
  BY <1>5, <1>6, <1>7, <1>8, <1>9, <1>10, <1>11, <1>12, <1>13, Zenon DEF IInv

-----------------------------------------------------------------------------
(* The error handler of an expired ID, registering, sending and waiting.   *)

\* The error handler's set_value keeps the invariant.
LEMMA HandlerSetStep ==
    ASSUME NEW t \in Callers
    PROVE  KeptBy(HandlerSet(t))
<1> SUFFICES ASSUME IInv, TypeOK', Locals', HandlerSet(t)
             PROVE  IInv'
  BY Zenon DEF KeptBy
<1> USE CurOwn, ConstantsAssumption
<1> USE DEF At, Goto, tableVars, tryVars, locals, callerVars, pollVars, netVars
<1> TypeOK /\ Locals
  BY Zenon DEF IInv
<1> Cur(t) \in Tries
  BY CurTry, Zenon DEF Locals, HandlerSet
<1>1. \A s \in Callers : Cur(s)' = Cur(s)
  BY Zenon DEF Cur, HandlerSet, SetValue
<1>2. /\ promise \in [Tries -> Outcomes \union {"none", "pending"}]
      /\ pc \in [Callers -> Pcs]
  BY Zenon DEF TypeOK
<1>3. \A s \in Callers : pc[s] # "idle" => Cur(s) \in Tries
  BY CurTry, Zenon DEF Locals
<1>4. /\ \A b \in Tries : promise'[b] = "none" <=> promise[b] = "none"
      /\ \A b \in Tries : b # handling[t] => promise'[b] = promise[b]
      /\ \A b \in Tries :
           promise'[b] = "pending" => promise[b] = "pending" /\ b # handling[t]
  BY SetValueFacts, <1>2, Zenon DEF IInv, Indices, Outcomes, HandlerSet
<1>5. Placement' /\ CallableOnce' /\ CallbackRunsOnce'
  BY <1>1, <1>2, <1>4, Zenon
  DEF IInv, HandlerSet, Placement, BusyPcs, CallableOnce, CallbackRunsOnce
<1>6. UnbornUnknown'
  BY <1>1, <1>2, Zenon
  DEF IInv, HandlerSet, SetValue, UnbornUnknown, Unborn, PrePcs, BusyPcs
<1>7. Settled'
  BY <1>1, <1>2, ZenonT(30) DEF IInv, HandlerSet, SetValue, Settled, NotCallable
<1>8. ResolvedAfterCallback'
  BY <1>1, <1>2, Zenon DEF IInv, HandlerSet, SetValue, ResolvedAfterCallback
<1>9. SetPending'
  BY <1>1, <1>2, <1>4, Zenon
  DEF IInv, Locals, HandlerSet, SetPending, Settled, NotCallable, Indices,
    Placement, BusyPcs
<1>10. CallablePending'
  BY <1>1, <1>2, <1>4, SMTT(30)
  DEF IInv, HandlerSet, CallablePending, Callable, Settled, NotCallable,
    Indices, Placement, BusyPcs
<1>11. NoLeakedId'
  BY <1>1, <1>2, <1>4, SMTT(30) DEF IInv, HandlerSet, NoLeakedId, Responsible
<1>12. Ahead'
  <2> SUFFICES ASSUME NEW s \in Callers, NEW n \in 1 .. MaxOps,
                      NEW k \in 1 .. NumTries,
                      n > op[s] \/ (n = op[s] /\ k > try[s])
               PROVE  promise'[<<s, n, k>>] = "none"
    BY Zenon DEF Ahead, HandlerSet, SetValue
  <2>1. <<s, n, k>> \in Tries
    BY Zenon DEF Tries
  <2>2. promise[<<s, n, k>>] = "none"
    BY Zenon DEF IInv, Ahead
  <2> QED
    BY <1>4, <2>1, <2>2, Zenon
<1>13. Begun'
  BY <1>1, <1>3, <1>4, <1>2
  DEF IInv, Begun, PrePcs, UnbornUnknown, Unborn, HandlerSet
<1>14. PrePending'
  BY <1>1, <1>3, <1>4, <1>2
  DEF IInv, PrePending, PrePcs, UnbornUnknown, Unborn, HandlerSet
<1>15. Indices'
  BY <1>1, <1>3, <1>4, <1>2, SMTT(30)
  DEF IInv, Indices, PrePcs, UnbornUnknown, Unborn, HandlerSet
<1> QED
  BY <1>5, <1>6, <1>7, <1>8, <1>9, <1>10, <1>11, <1>12, <1>13, <1>14, <1>15,
    Zenon
  DEF IInv

\* The error handler's release of the ID keeps the invariant.
LEMMA HandlerReleaseStep ==
    ASSUME NEW t \in Callers
    PROVE  KeptBy(HandlerRelease(t))
<1> SUFFICES ASSUME IInv, TypeOK', Locals', HandlerRelease(t)
             PROVE  IInv'
  BY Zenon DEF KeptBy
<1> USE CurOwn, ConstantsAssumption
<1> USE DEF At, Goto, tableVars, tryVars, locals, callerVars, pollVars, netVars
<1> TypeOK /\ Locals
  BY Zenon DEF IInv
<1> Cur(t) \in Tries
  BY CurTry, Zenon DEF Locals, HandlerRelease
<1>1. \A s \in Callers : Cur(s)' = Cur(s)
  BY Zenon DEF Cur, HandlerRelease, Release
<1>2. pc \in [Callers -> Pcs]
  BY Zenon DEF TypeOK
<1>3. Ahead' /\ Begun'
  <2>1. Ahead'
    BY <1>1, <1>2, Zenon DEF IInv, HandlerRelease, Release, Ahead
  <2>2. Begun'
    BY <1>1, <1>2, Zenon DEF IInv, HandlerRelease, Release, Begun
  <2> QED
    BY <2>1, <2>2, Zenon
<1>4. PrePending' /\ UnbornUnknown' /\ Placement'
  <2>1. PrePending'
    BY <1>1, <1>2, Zenon DEF IInv, HandlerRelease, Release, PrePending, PrePcs
  <2>2. UnbornUnknown'
    BY <1>1, <1>2, Zenon
    DEF IInv, HandlerRelease, Release, UnbornUnknown, Unborn, PrePcs, BusyPcs
  <2>3. Placement'
    BY <1>1, <1>2, Zenon DEF IInv, HandlerRelease, Release, Placement, BusyPcs
  <2> QED
    BY <2>1, <2>2, <2>3, Zenon
<1>5. CallablePending' /\ CallableOnce'
  BY <1>1, <1>2, Zenon
  DEF IInv, HandlerRelease, Release, CallablePending, Callable, CallableOnce,
    BusyPcs
<1>6. SetPending'
  BY <1>1, <1>2, Zenon DEF IInv, HandlerRelease, Release, SetPending
<1>7. Settled'
  BY <1>1, <1>2, Zenon DEF IInv, HandlerRelease, Release, Settled, NotCallable
<1>8. Indices'
  BY <1>1, <1>2, Zenon DEF IInv, HandlerRelease, Release, Indices
<1>9. ResolvedAfterCallback' /\ CallbackRunsOnce'
  BY <1>1, <1>2, Zenon
  DEF IInv, HandlerRelease, Release, ResolvedAfterCallback, CallbackRunsOnce
<1>10. NoLeakedId'
  BY <1>1 DEF IInv, HandlerRelease, Release, NoLeakedId, Responsible
<1> QED
  BY <1>3, <1>4, <1>5, <1>6, <1>7, <1>8, <1>9, <1>10, Zenon DEF IInv

\* The error handler's unlocked clearing of its slot keeps the invariant.
LEMMA HandlerClearStep ==
    ASSUME NEW t \in Callers
    PROVE  KeptBy(HandlerClear(t))
<1> SUFFICES ASSUME IInv, TypeOK', Locals', HandlerClear(t)
             PROVE  IInv'
  BY Zenon DEF KeptBy
<1> USE CurOwn, ConstantsAssumption
<1> USE DEF At, Goto, tableVars, tryVars, locals, callerVars, pollVars, netVars
<1> TypeOK /\ Locals
  BY Zenon DEF IInv
<1> Cur(t) \in Tries
  BY CurTry, Zenon DEF Locals, HandlerClear
<1>1. \A s \in Callers : Cur(s)' = Cur(s)
  BY Zenon DEF Cur, HandlerClear
<1>2. /\ errorCb \in [Idx -> Tries \union {None}]
      /\ handling \in [Callers -> Tries \union {None}]
      /\ victim \in [Callers -> Idx \union {None}]
      /\ pc \in [Callers -> Pcs]
  BY Zenon DEF TypeOK
<1>3. Ahead' /\ Begun'
  <2>1. Ahead'
    BY <1>1, <1>2, Zenon DEF IInv, HandlerClear, Ahead
  <2>2. Begun'
    BY <1>1, <1>2, Zenon DEF IInv, HandlerClear, Begun
  <2> QED
    BY <2>1, <2>2, Zenon
<1>4. PrePending'
  BY <1>1, <1>2, Zenon DEF IInv, HandlerClear, PrePending, PrePcs
<1>5. UnbornUnknown'
  BY <1>1, <1>2, ZenonT(30)
  DEF IInv, HandlerClear, UnbornUnknown, Unborn, PrePcs, BusyPcs
<1>6. Placement'
  BY <1>1, <1>2, Zenon DEF IInv, HandlerClear, Placement, BusyPcs
<1>7. CallablePending' /\ CallableOnce'
  BY <1>1, <1>2, Zenon
  DEF IInv, HandlerClear, CallablePending, Callable, CallableOnce, BusyPcs
<1>8. SetPending'
  BY <1>1, <1>2, Zenon DEF IInv, HandlerClear, SetPending
<1>9. Settled'
  BY <1>1, <1>2, Zenon DEF IInv, HandlerClear, Settled, NotCallable
<1>10. Indices'
  BY <1>1, <1>2, Zenon DEF IInv, HandlerClear, Indices
<1>11. ResolvedAfterCallback' /\ CallbackRunsOnce' /\ NoLeakedId'
  <2>1. ResolvedAfterCallback'
    BY <1>1, <1>2, Zenon DEF IInv, HandlerClear, ResolvedAfterCallback
  <2>2. CallbackRunsOnce'
    BY <1>1, <1>2, Zenon DEF IInv, HandlerClear, CallbackRunsOnce
  <2>3. NoLeakedId'
    BY <1>1, <1>2, Zenon DEF IInv, HandlerClear, NoLeakedId, Responsible
  <2> QED
    BY <2>1, <2>2, <2>3, Zenon
<1> QED
  BY <1>3, <1>4, <1>5, <1>6, <1>7, <1>8, <1>9, <1>10, <1>11, Zenon DEF IInv

\* Releasing an expired ID that has no error handler keeps the invariant.
LEMMA ReleaseVictimStep ==
    ASSUME NEW t \in Callers
    PROVE  KeptBy(ReleaseVictim(t))
<1> SUFFICES ASSUME IInv, TypeOK', Locals', ReleaseVictim(t)
             PROVE  IInv'
  BY Zenon DEF KeptBy
<1> USE CurOwn, ConstantsAssumption
<1> USE DEF At, Goto, tableVars, tryVars, locals, callerVars, pollVars, netVars
<1> TypeOK /\ Locals
  BY Zenon DEF IInv
<1> Cur(t) \in Tries
  BY CurTry, Zenon DEF Locals, ReleaseVictim
<1>1. \A s \in Callers : Cur(s)' = Cur(s)
  BY Zenon DEF Cur, ReleaseVictim, Release
<1>2. /\ victim \in [Callers -> Idx \union {None}]
      /\ pc \in [Callers -> Pcs]
  BY Zenon DEF TypeOK
<1>3. Ahead' /\ Begun'
  <2>1. Ahead'
    BY <1>1, <1>2, Zenon DEF IInv, ReleaseVictim, Release, Ahead
  <2>2. Begun'
    BY <1>1, <1>2, Zenon DEF IInv, ReleaseVictim, Release, Begun
  <2> QED
    BY <2>1, <2>2, Zenon
<1>4. PrePending' /\ UnbornUnknown' /\ Placement'
  <2>1. PrePending'
    BY <1>1, <1>2, Zenon DEF IInv, ReleaseVictim, Release, PrePending, PrePcs
  <2>2. UnbornUnknown'
    BY <1>1, <1>2, Zenon
    DEF IInv, ReleaseVictim, Release, UnbornUnknown, Unborn, PrePcs, BusyPcs
  <2>3. Placement'
    BY <1>1, <1>2, Zenon DEF IInv, ReleaseVictim, Release, Placement, BusyPcs
  <2> QED
    BY <2>1, <2>2, <2>3, Zenon
<1>5. CallablePending' /\ CallableOnce'
  BY <1>1, <1>2, Zenon
  DEF IInv, ReleaseVictim, Release, CallablePending, Callable, CallableOnce,
    BusyPcs
<1>6. SetPending'
  BY <1>1, <1>2, Zenon DEF IInv, ReleaseVictim, Release, SetPending
<1>7. Settled'
  BY <1>1, <1>2, Zenon DEF IInv, ReleaseVictim, Release, Settled, NotCallable
<1>8. Indices'
  BY <1>1, <1>2, Zenon DEF IInv, ReleaseVictim, Release, Indices
<1>9. ResolvedAfterCallback' /\ CallbackRunsOnce' /\ NoLeakedId'
  BY <1>1, <1>2, Zenon
  DEF IInv, ReleaseVictim, Release, ResolvedAfterCallback, CallbackRunsOnce,
    NoLeakedId, Responsible
<1> QED
  BY <1>3, <1>4, <1>5, <1>6, <1>7, <1>8, <1>9, Zenon DEF IInv

\* Registering the callbacks keeps the invariant.
LEMMA InstallStep ==
    ASSUME NEW t \in Callers
    PROVE  KeptBy(Install(t))
<1> SUFFICES ASSUME IInv, TypeOK', Locals', Install(t)
             PROVE  IInv'
  BY Zenon DEF KeptBy
<1> USE CurOwn, ConstantsAssumption
<1> USE DEF At, Goto, tableVars, tryVars, locals, callerVars, pollVars, netVars
<1> TypeOK /\ Locals
  BY Zenon DEF IInv
<1> Cur(t) \in Tries
  BY CurTry, Zenon DEF Locals, Install
<1>1. \A s \in Callers : Cur(s)' = Cur(s)
  BY Zenon DEF Cur, Install, LockFree
<1>2. /\ replyCb \in [Idx -> Tries \union {None}]
      /\ errorCb \in [Idx -> Tries \union {None}]
      /\ pc \in [Callers -> Pcs]
  BY Zenon DEF TypeOK
<1>3. Ahead' /\ Begun'
  BY <1>1, <1>2, Zenon DEF IInv, Install, LockFree, Ahead, Begun, Indices
<1>4. PrePending' /\ Placement' /\ CallablePending'
  <2>1. PrePending'
    BY <1>1, <1>2, ZenonT(30)
    DEF IInv, Install, LockFree, UnbornUnknown, Unborn, PrePending, PrePcs
  <2>2. Placement'
    BY <1>1, <1>2, Zenon
    DEF IInv, Install, LockFree, UnbornUnknown, Unborn, Placement, BusyPcs
  <2>3. CallablePending'
    BY <1>1, <1>2, Zenon
    DEF IInv, Install, LockFree, UnbornUnknown, Unborn, CallablePending,
      Callable, PrePending, PrePcs
  <2> QED
    BY <2>1, <2>2, <2>3, Zenon
<1>5. CallableOnce' /\ SetPending'
  BY <1>1, <1>2, Zenon
  DEF IInv, Install, LockFree, CallableOnce, BusyPcs, SetPending, PrePending,
    UnbornUnknown, Unborn, PrePcs
<1>6. Indices' /\ ResolvedAfterCallback' /\ CallbackRunsOnce'
  BY <1>1, <1>2, Zenon
  DEF IInv, Install, LockFree, Indices, ResolvedAfterCallback, CallbackRunsOnce
<1>7. UnbornUnknown'
  BY <1>1, <1>2
  DEF IInv, Install, LockFree, UnbornUnknown, Unborn, PrePcs, BusyPcs,
    PrePending
<1>8. Settled'
  BY <1>1
  DEF IInv, Install, LockFree, Settled, NotCallable, PrePending, UnbornUnknown,
    Unborn, PrePcs
<1>9. NoLeakedId'
  BY <1>1, <1>2, SMTT(30) DEF IInv, Install, LockFree, NoLeakedId, Responsible
<1> QED
  BY <1>3, <1>4, <1>5, <1>6, <1>7, <1>8, <1>9, Zenon DEF IInv

\* A send that succeeds keeps the invariant.
LEMMA SendOkStep ==
    ASSUME NEW t \in Callers
    PROVE  KeptBy(SendOk(t))
<1> SUFFICES ASSUME IInv, TypeOK', Locals', SendOk(t)
             PROVE  IInv'
  BY Zenon DEF KeptBy
<1> USE CurOwn, ConstantsAssumption
<1> USE DEF At, Goto, tableVars, tryVars, locals, callerVars, pollVars, netVars
<1> TypeOK /\ Locals
  BY Zenon DEF IInv
<1> Cur(t) \in Tries
  BY CurTry, Zenon DEF Locals, SendOk
<1>1. \A s \in Callers : Cur(s)' = Cur(s)
  BY Zenon DEF Cur, SendOk, AfterStart
<1>2. pc \in [Callers -> Pcs]
  BY Zenon DEF TypeOK
<1>3. Ahead' /\ Begun'
  <2>1. Ahead'
    BY <1>1, <1>2, Zenon DEF IInv, SendOk, AfterStart, Ahead
  <2>2. Begun'
    BY <1>1, <1>2, Zenon DEF IInv, SendOk, AfterStart, Begun
  <2> QED
    BY <2>1, <2>2, Zenon
<1>4. PrePending'
  BY <1>1, <1>2, Zenon DEF IInv, SendOk, AfterStart, PrePending, PrePcs
<1>5. UnbornUnknown'
  BY <1>1, <1>2, Zenon
  DEF IInv, SendOk, AfterStart, UnbornUnknown, Unborn, PrePcs, BusyPcs
<1>6. Placement'
  BY <1>1, <1>2, Zenon
  DEF IInv, SendOk, AfterStart, Placement, BusyPcs, Indices
<1>7. CallablePending' /\ CallableOnce'
  BY <1>1, <1>2, Zenon
  DEF IInv, SendOk, AfterStart, CallablePending, Callable, CallableOnce,
    BusyPcs
<1>8. SetPending'
  BY <1>1, <1>2, Zenon DEF IInv, SendOk, AfterStart, SetPending
<1>9. Settled'
  BY <1>1, <1>2, Zenon DEF IInv, SendOk, AfterStart, Settled, NotCallable
<1>10. Indices'
  BY <1>1, <1>2, Zenon DEF IInv, SendOk, AfterStart, Indices
<1>11. ResolvedAfterCallback' /\ CallbackRunsOnce'
  BY <1>1, <1>2, Zenon
  DEF IInv, SendOk, AfterStart, ResolvedAfterCallback, CallbackRunsOnce
<1>12. NoLeakedId'
  BY <1>1 DEF IInv, SendOk, AfterStart, NoLeakedId, Responsible
<1> QED
  BY <1>3, <1>4, <1>5, <1>6, <1>7, <1>8, <1>9, <1>10, <1>11, <1>12, Zenon
  DEF IInv

\* A send that fails keeps the invariant.
LEMMA SendFailStep ==
    ASSUME NEW t \in Callers
    PROVE  KeptBy(SendFail(t))
<1> SUFFICES ASSUME IInv, TypeOK', Locals', SendFail(t)
             PROVE  IInv'
  BY Zenon DEF KeptBy
<1> USE CurOwn, ConstantsAssumption
<1> USE DEF At, Goto, tableVars, tryVars, locals, callerVars, pollVars, netVars
<1> TypeOK /\ Locals
  BY Zenon DEF IInv
<1> Cur(t) \in Tries
  BY CurTry, Zenon DEF Locals, SendFail
<1>1. \A s \in Callers : Cur(s)' = Cur(s)
  BY Zenon DEF Cur, SendFail
<1>2. pc \in [Callers -> Pcs]
  BY Zenon DEF TypeOK
<1>3. Ahead' /\ Begun'
  <2>1. Ahead'
    BY <1>1, <1>2, Zenon DEF IInv, SendFail, Ahead
  <2>2. Begun'
    BY <1>1, <1>2, Zenon DEF IInv, SendFail, Begun
  <2> QED
    BY <2>1, <2>2, Zenon
<1>4. PrePending' /\ UnbornUnknown' /\ Placement'
  <2>1. PrePending'
    BY <1>1, <1>2, Zenon DEF IInv, SendFail, PrePending, PrePcs
  <2>2. UnbornUnknown'
    BY <1>1, <1>2, Zenon
    DEF IInv, SendFail, UnbornUnknown, Unborn, PrePcs, BusyPcs
  <2>3. Placement'
    BY <1>1, <1>2, Zenon DEF IInv, SendFail, Placement, BusyPcs
  <2> QED
    BY <2>1, <2>2, <2>3, Zenon
<1>5. CallablePending' /\ CallableOnce'
  BY <1>1, <1>2, Zenon
  DEF IInv, SendFail, CallablePending, Callable, CallableOnce, BusyPcs
<1>6. SetPending'
  BY <1>1, <1>2, Zenon DEF IInv, SendFail, SetPending
<1>7. Settled'
  BY <1>1, <1>2, Zenon DEF IInv, SendFail, Settled, NotCallable
<1>8. Indices'
  BY <1>1, <1>2, Zenon DEF IInv, SendFail, Indices
<1>9. ResolvedAfterCallback' /\ CallbackRunsOnce'
  BY <1>1, <1>2, Zenon
  DEF IInv, SendFail, ResolvedAfterCallback, CallbackRunsOnce
<1>10. NoLeakedId'
  BY <1>1 DEF IInv, SendFail, NoLeakedId, Responsible
<1> QED
  BY <1>3, <1>4, <1>5, <1>6, <1>7, <1>8, <1>9, <1>10, Zenon DEF IInv

\* Removing the callbacks after a failed send keeps the invariant.
LEMMA SendFailClearStep ==
    ASSUME NEW t \in Callers
    PROVE  KeptBy(SendFailClear(t))
<1> SUFFICES ASSUME IInv, TypeOK', Locals', SendFailClear(t)
             PROVE  IInv'
  BY Zenon DEF KeptBy
<1> USE CurOwn, ConstantsAssumption
<1> USE DEF At, Goto, tableVars, tryVars, locals, callerVars, pollVars, netVars
<1> TypeOK /\ Locals
  BY Zenon DEF IInv
<1> Cur(t) \in Tries
  BY CurTry, Zenon DEF Locals, SendFailClear
<1>1. \A s \in Callers : Cur(s)' = Cur(s)
  BY Zenon DEF Cur, SendFailClear, ClearCallbacks, LockFree
<1>2. /\ replyCb \in [Idx -> Tries \union {None}]
      /\ errorCb \in [Idx -> Tries \union {None}]
      /\ pc \in [Callers -> Pcs]
      /\ handling \in [Callers -> Tries \union {None}]
  BY Zenon DEF TypeOK
<1>3. \A s \in Callers : pc[s] # "idle" => Cur(s) \in Tries
  BY CurTry, Zenon DEF Locals
<1>4. /\ slot[Cur(t)] \in Idx
      /\ \A i \in Idx :
           /\ replyCb'[i] = IF i = slot[Cur(t)] THEN None ELSE replyCb[i]
           /\ errorCb'[i] = IF i = slot[Cur(t)] THEN None ELSE errorCb[i]
  BY <1>2, Zenon DEF IInv, Indices, SendFailClear, ClearCallbacks
<1>5. Ahead'
  BY <1>1, <1>2, <1>4, Zenon DEF IInv, SendFailClear, LockFree, Ahead
<1>6. Begun'
  BY <1>1, <1>2, <1>4, ZenonT(30) DEF IInv, SendFailClear, LockFree, Begun
<1>7. PrePending'
  BY <1>1, <1>2, <1>4, ZenonT(30)
  DEF IInv, SendFailClear, LockFree, PrePending, PrePcs
<1>8. Placement' /\ SetPending'
  <2>1. Placement'
    BY <1>1, <1>2, <1>4, Zenon
    DEF IInv, SendFailClear, LockFree, Placement, BusyPcs
  <2>2. SetPending'
    BY <1>1, <1>2, <1>4, Zenon DEF IInv, SendFailClear, LockFree, SetPending
  <2> QED
    BY <2>1, <2>2, Zenon
<1>9. Indices' /\ ResolvedAfterCallback' /\ CallbackRunsOnce'
  <2>1. Indices'
    BY <1>1, <1>2, <1>4, Zenon DEF IInv, SendFailClear, LockFree, Indices
  <2>2. ResolvedAfterCallback'
    BY <1>1, <1>2, <1>4, Zenon
    DEF IInv, SendFailClear, LockFree, ResolvedAfterCallback
  <2>3. CallbackRunsOnce'
    BY <1>1, <1>2, <1>4, Zenon
    DEF IInv, SendFailClear, LockFree, CallbackRunsOnce
  <2> QED
    BY <2>1, <2>2, <2>3, Zenon
<1>10. UnbornUnknown' /\ CallablePending'
  <2>1. UnbornUnknown'
    BY <1>1, <1>2, Zenon
    DEF IInv, SendFailClear, ClearCallbacks, LockFree, UnbornUnknown, Unborn,
      PrePcs, BusyPcs
  <2>2. CallablePending'
    BY <1>1, <1>2, Zenon
    DEF IInv, SendFailClear, ClearCallbacks, LockFree, CallablePending,
      Callable
  <2> QED
    BY <2>1, <2>2, Zenon
<1>11. CallableOnce'
  BY <1>1, <1>2, <1>4, ZenonT(30)
  DEF IInv, Locals, SendFailClear, LockFree, CallableOnce, BusyPcs
<1>12. NoLeakedId'
  BY <1>1, <1>2, <1>4, SMTT(30)
  DEF IInv, SendFailClear, LockFree, NoLeakedId, Responsible
<1>13. Settled'
  <2>1. \A b \in Tries : NotCallable(b) => NotCallable(b)'
    <3>1. pollPc' = pollPc /\ pollTry' = pollTry
      BY Zenon DEF SendFailClear
    <3> QED
      BY <1>4, <3>1, ClearedNotCallable, Zenon
  <2>2. \A b \in Tries : slot[b] = slot[Cur(t)] => NotCallable(b)'
    BY <1>2, <1>4, SMTT(30)
    DEF NotCallable, Placement, Indices, IInv, LockFree, BusyPcs, SendFailClear
  <2> QED
    BY <1>1, <1>3, <2>1, <2>2, <1>2, ZenonT(30)
    DEF IInv, Settled, Placement, Indices, SendFailClear
<1> QED
  BY <1>5, <1>6, <1>7, <1>8, <1>9, <1>10, <1>11, <1>12, <1>13, Zenon DEF IInv

\* The set_value after a failed send keeps the invariant.
LEMMA SendFailSetStep ==
    ASSUME NEW t \in Callers
    PROVE  KeptBy(SendFailSet(t))
<1> SUFFICES ASSUME IInv, TypeOK', Locals', SendFailSet(t)
             PROVE  IInv'
  BY Zenon DEF KeptBy
<1> USE CurOwn, ConstantsAssumption
<1> USE DEF At, Goto, tableVars, tryVars, locals, callerVars, pollVars, netVars
<1> TypeOK /\ Locals
  BY Zenon DEF IInv
<1> Cur(t) \in Tries
  BY CurTry, Zenon DEF Locals, SendFailSet
<1>1. \A s \in Callers : Cur(s)' = Cur(s)
  BY Zenon DEF Cur, SendFailSet, SetValue
<1>2. /\ promise \in [Tries -> Outcomes \union {"none", "pending"}]
      /\ pc \in [Callers -> Pcs]
  BY Zenon DEF TypeOK
<1>3. \A s \in Callers : pc[s] # "idle" => Cur(s) \in Tries
  BY CurTry, Zenon DEF Locals
<1>4. /\ \A b \in Tries : promise'[b] = "none" <=> promise[b] = "none"
      /\ \A b \in Tries : b # Cur(t) => promise'[b] = promise[b]
      /\ \A b \in Tries :
           promise'[b] = "pending" => promise[b] = "pending" /\ b # Cur(t)
  BY SetValueFacts, <1>2, Zenon DEF IInv, Outcomes, SendFailSet
<1>5. UnbornUnknown'
  BY <1>1, <1>2, <1>4, ZenonT(30)
  DEF IInv, SendFailSet, UnbornUnknown, Unborn, PrePcs, BusyPcs
<1>6. Placement'
  BY <1>1, <1>2, <1>4, Zenon DEF IInv, SendFailSet, Placement, BusyPcs
<1>7. CallableOnce' /\ CallbackRunsOnce'
  BY <1>1, <1>2, <1>4, Zenon
  DEF IInv, SendFailSet, CallableOnce, BusyPcs, CallbackRunsOnce
<1>8. Settled'
  BY <1>1, <1>2, ZenonT(30) DEF IInv, SendFailSet, SetValue, Settled, NotCallable
<1>9. ResolvedAfterCallback'
  BY <1>1, <1>2, Zenon DEF IInv, SendFailSet, SetValue, ResolvedAfterCallback
<1>10. SetPending'
  BY <1>1, <1>2, <1>4, Zenon
  DEF IInv, Locals, SendFailSet, SetPending, Settled, NotCallable, Indices,
    Placement, BusyPcs
<1>11. CallablePending'
  BY <1>1, <1>2, <1>4, SMTT(30)
  DEF IInv, SendFailSet, CallablePending, Callable, Settled, NotCallable,
    Indices, Placement, BusyPcs
<1>12. NoLeakedId'
  BY <1>1, <1>2, <1>4, SMTT(30) DEF IInv, SendFailSet, NoLeakedId, Responsible
<1>13. Ahead'
  <2> SUFFICES ASSUME NEW s \in Callers, NEW n \in 1 .. MaxOps,
                      NEW k \in 1 .. NumTries,
                      n > op[s] \/ (n = op[s] /\ k > try[s])
               PROVE  promise'[<<s, n, k>>] = "none"
    BY Zenon DEF Ahead, SendFailSet, SetValue
  <2>1. <<s, n, k>> \in Tries
    BY Zenon DEF Tries
  <2>2. promise[<<s, n, k>>] = "none"
    BY Zenon DEF IInv, Ahead
  <2> QED
    BY <1>4, <2>1, <2>2, Zenon
<1>14. Begun'
  BY <1>1, <1>3, <1>4, <1>2, Zenon DEF IInv, Begun, PrePcs, SendFailSet
<1>15. PrePending'
  BY <1>1, <1>3, <1>4, <1>2 DEF IInv, PrePending, PrePcs, SendFailSet
<1>16. Indices'
  BY <1>1, <1>3, <1>4, <1>2, SMTT(30) DEF IInv, Indices, PrePcs, SendFailSet
<1> QED
  BY <1>5, <1>6, <1>7, <1>8, <1>9, <1>10, <1>11, <1>12, <1>13, <1>14, <1>15,
    <1>16, Zenon
  DEF IInv

\* Releasing the ID after a failed send keeps the invariant.
LEMMA SendFailReleaseStep ==
    ASSUME NEW t \in Callers
    PROVE  KeptBy(SendFailRelease(t))
<1> SUFFICES ASSUME IInv, TypeOK', Locals', SendFailRelease(t)
             PROVE  IInv'
  BY Zenon DEF KeptBy
<1> USE CurOwn, ConstantsAssumption
<1> USE DEF At, Goto, tableVars, tryVars, locals, callerVars, pollVars, netVars
<1> TypeOK /\ Locals
  BY Zenon DEF IInv
<1> Cur(t) \in Tries
  BY CurTry, Zenon DEF Locals, SendFailRelease
<1>1. \A s \in Callers : Cur(s)' = Cur(s)
  BY Zenon DEF Cur, SendFailRelease, Release, AfterStart
<1>2. pc \in [Callers -> Pcs]
  BY Zenon DEF TypeOK
<1>3. Ahead'
  BY <1>1, <1>2, Zenon DEF IInv, SendFailRelease, Release, AfterStart, Ahead
<1>4. Begun'
  BY <1>1, <1>2, Zenon DEF IInv, SendFailRelease, Release, AfterStart, Begun
<1>5. PrePending' /\ UnbornUnknown' /\ Placement'
  <2>1. PrePending'
    BY <1>1, <1>2, Zenon
    DEF IInv, SendFailRelease, Release, AfterStart, PrePending, PrePcs
  <2>2. UnbornUnknown'
    BY <1>1, <1>2, Zenon
    DEF IInv, SendFailRelease, Release, AfterStart, UnbornUnknown, Unborn,
      PrePcs, BusyPcs
  <2>3. Placement'
    BY <1>1, <1>2, Zenon
    DEF IInv, SendFailRelease, Release, AfterStart, Placement, BusyPcs
  <2> QED
    BY <2>1, <2>2, <2>3, Zenon
<1>6. CallablePending' /\ CallableOnce'
  BY <1>1, <1>2, Zenon
  DEF IInv, SendFailRelease, Release, AfterStart, CallablePending, Callable,
    CallableOnce, BusyPcs
<1>7. SetPending'
  BY <1>1, <1>2, Zenon
  DEF IInv, SendFailRelease, Release, AfterStart, SetPending
<1>8. Settled' /\ Indices'
  <2>1. Settled'
    BY <1>1, <1>2, Zenon
    DEF IInv, SendFailRelease, Release, AfterStart, Settled, NotCallable
  <2>2. Indices'
    BY <1>1, <1>2, Zenon
    DEF IInv, SendFailRelease, Release, AfterStart, Indices
  <2> QED
    BY <2>1, <2>2, Zenon
<1>9. ResolvedAfterCallback' /\ CallbackRunsOnce'
  BY <1>1, <1>2, Zenon
  DEF IInv, SendFailRelease, Release, AfterStart, ResolvedAfterCallback,
    CallbackRunsOnce
<1>10. NoLeakedId'
  BY <1>1
  DEF IInv, SendFailRelease, Release, AfterStart, NoLeakedId, Responsible
<1> QED
  BY <1>3, <1>4, <1>5, <1>6, <1>7, <1>8, <1>9, <1>10, Zenon DEF IInv

\* Returning the value of a ready future keeps the invariant.
LEMMA WaitReadyStep ==
    ASSUME NEW t \in Callers
    PROVE  KeptBy(WaitReady(t))
<1> SUFFICES ASSUME IInv, TypeOK', Locals', WaitReady(t)
             PROVE  IInv'
  BY Zenon DEF KeptBy
<1> USE CurOwn, ConstantsAssumption
<1> USE DEF At, Goto, tableVars, tryVars, locals, callerVars, pollVars, netVars
<1> TypeOK /\ Locals
  BY Zenon DEF IInv
<1> Cur(t) \in Tries
  BY CurTry, Zenon DEF Locals, WaitReady
<1>1. \A s \in Callers : Cur(s)' = Cur(s)
  BY Zenon DEF Cur, WaitReady, Ready, Broken, Referenced
<1>2. pc \in [Callers -> Pcs]
  BY Zenon DEF TypeOK
<1>3. \A s \in Callers : pc[s] # "idle" => Cur(s) \in Tries
  BY CurTry, Zenon DEF Locals
<1>4. Ahead' /\ Begun' /\ PrePending' /\ Placement' /\ CallablePending'
  <2>1. Ahead'
    BY <1>1, <1>2, ZenonT(30) DEF IInv, WaitReady, Ready, Broken, Referenced, Ahead
  <2>2. Begun'
    BY <1>1, <1>2, Zenon DEF IInv, WaitReady, Ready, Broken, Referenced, Begun
  <2>3. PrePending'
    BY <1>1, <1>2, Zenon
    DEF IInv, WaitReady, Ready, Broken, Referenced, PrePending, PrePcs
  <2>4. Placement'
    BY <1>1, <1>2, Zenon
    DEF IInv, WaitReady, Ready, Broken, Referenced, Placement, BusyPcs
  <2>5. CallablePending'
    BY <1>1, <1>2, Zenon
    DEF IInv, WaitReady, Ready, Broken, Referenced, CallablePending, Callable,
      BusyPcs
  <2> QED
    BY <2>1, <2>2, <2>3, <2>4, <2>5, Zenon
<1>5. CallableOnce' /\ SetPending'
  BY <1>1, <1>2, Zenon
  DEF IInv, WaitReady, Ready, Broken, Referenced, CallableOnce, BusyPcs,
    SetPending
<1>6. Settled'
  BY <1>1, <1>2, Zenon
  DEF IInv, WaitReady, Ready, Broken, Referenced, Settled, NotCallable
<1>7. Indices' /\ ResolvedAfterCallback'
  BY <1>1, <1>2, Zenon
  DEF IInv, WaitReady, Ready, Broken, Referenced, Indices,
    ResolvedAfterCallback
<1>8. CallbackRunsOnce'
  BY <1>1, <1>2, Zenon
  DEF IInv, WaitReady, Ready, Broken, Referenced, CallbackRunsOnce
<1>9. NoLeakedId'
  BY <1>1, SMTT(30)
  DEF IInv, WaitReady, Ready, Broken, Referenced, NoLeakedId, Responsible
<1>10. UnbornUnknown'
  <2>1. Cur(t) \in Tries /\ promise[Cur(t)] # "none" /\ pc[t] \notin PrePcs
    BY <1>3, Zenon DEF IInv, Begun, PrePcs, WaitReady
  <2>2. \A b \in Tries : Unborn(b)' => Unborn(b) /\ b # Cur(t)
    BY <1>1, <2>1, <1>2, Zenon DEF Unborn, PrePcs, WaitReady
  <2> QED
    BY <1>1, <2>2, <1>2, Zenon DEF IInv, UnbornUnknown, BusyPcs, WaitReady
<1> QED
  BY <1>4, <1>5, <1>6, <1>7, <1>8, <1>9, <1>10, Zenon DEF IInv

\* Giving up on a future keeps the invariant.
LEMMA WaitTimeoutStep ==
    ASSUME NEW t \in Callers
    PROVE  KeptBy(WaitTimeout(t))
<1> SUFFICES ASSUME IInv, TypeOK', Locals', WaitTimeout(t)
             PROVE  IInv'
  BY Zenon DEF KeptBy
<1> USE CurOwn, ConstantsAssumption
<1> USE DEF At, Goto, tableVars, tryVars, locals, callerVars, pollVars, netVars
<1> TypeOK /\ Locals
  BY Zenon DEF IInv
<1> Cur(t) \in Tries
  BY CurTry, Zenon DEF Locals, WaitTimeout
<1>1. \A s \in Callers : Cur(s)' = Cur(s)
  BY Zenon DEF Cur, WaitTimeout, Ready, Broken
<1>2. pc \in [Callers -> Pcs]
  BY Zenon DEF TypeOK
<1>3. Ahead' /\ Begun'
  BY <1>1, <1>2, Zenon DEF IInv, WaitTimeout, Ready, Broken, Ahead, Begun
<1>4. PrePending' /\ UnbornUnknown' /\ Placement'
  <2>1. PrePending'
    BY <1>1, <1>2, Zenon
    DEF IInv, WaitTimeout, Ready, Broken, PrePending, PrePcs
  <2>2. UnbornUnknown'
    BY <1>1, <1>2, Zenon
    DEF IInv, WaitTimeout, Ready, Broken, UnbornUnknown, Unborn, PrePcs,
      BusyPcs
  <2>3. Placement'
    BY <1>1, <1>2, Zenon
    DEF IInv, WaitTimeout, Ready, Broken, Placement, BusyPcs
  <2> QED
    BY <2>1, <2>2, <2>3, Zenon
<1>5. CallablePending' /\ CallableOnce'
  BY <1>1, <1>2, Zenon
  DEF IInv, WaitTimeout, Ready, Broken, CallablePending, Callable,
    CallableOnce, BusyPcs
<1>6. SetPending'
  BY <1>1, <1>2, Zenon DEF IInv, WaitTimeout, Ready, Broken, SetPending
<1>7. Settled'
  BY <1>1, <1>2, Zenon
  DEF IInv, WaitTimeout, Ready, Broken, Settled, NotCallable
<1>8. Indices'
  BY <1>1, <1>2, Zenon DEF IInv, WaitTimeout, Ready, Broken, Indices
<1>9. ResolvedAfterCallback' /\ CallbackRunsOnce'
  BY <1>1, <1>2, Zenon
  DEF IInv, WaitTimeout, Ready, Broken, ResolvedAfterCallback, CallbackRunsOnce
<1>10. NoLeakedId'
  BY <1>1, SMTT(30) DEF IInv, WaitTimeout, Ready, Broken, NoLeakedId, Responsible
<1> QED
  BY <1>3, <1>4, <1>5, <1>6, <1>7, <1>8, <1>9, <1>10, Zenon DEF IInv

\* A Python read that times out keeps the invariant.
LEMMA PythonTimeoutStep ==
    ASSUME NEW t \in Callers
    PROVE  KeptBy(PythonTimeout(t))
<1> SUFFICES ASSUME IInv, TypeOK', Locals', PythonTimeout(t)
             PROVE  IInv'
  BY Zenon DEF KeptBy
<1> USE CurOwn, ConstantsAssumption
<1> USE DEF At, Goto, tableVars, tryVars, locals, callerVars, pollVars, netVars
<1> TypeOK /\ Locals
  BY Zenon DEF IInv
<1> Cur(t) \in Tries
  BY CurTry, Zenon DEF Locals, PythonTimeout
<1>1. \A s \in Callers : Cur(s)' = Cur(s)
  BY Zenon DEF Cur, PythonTimeout
<1>2. pc \in [Callers -> Pcs]
  BY Zenon DEF TypeOK
<1>3. \A s \in Callers : pc[s] # "idle" => Cur(s) \in Tries
  BY CurTry, Zenon DEF Locals
<1>4. Ahead' /\ Begun' /\ PrePending' /\ Placement' /\ CallableOnce'
  BY <1>1, <1>2, Zenon
  DEF IInv, PythonTimeout, Ahead, Begun, PrePending, PrePcs, Placement,
    BusyPcs, CallableOnce
<1>5. SetPending' /\ Settled'
  BY <1>1, <1>2, Zenon
  DEF IInv, PythonTimeout, SetPending, Settled, NotCallable
<1>6. Indices' /\ ResolvedAfterCallback' /\ CallbackRunsOnce'
  BY <1>1, <1>2, Zenon
  DEF IInv, PythonTimeout, Indices, ResolvedAfterCallback, CallbackRunsOnce
<1>7. NoLeakedId'
  BY <1>1, SMTT(30) DEF IInv, PythonTimeout, NoLeakedId, Responsible
<1>8. UnbornUnknown'
  <2>1. Cur(t) \in Tries /\ promise[Cur(t)] # "none" /\ pc[t] \notin PrePcs
    BY <1>3, Zenon DEF IInv, Begun, PrePcs, PythonTimeout
  <2>2. \A b \in Tries : Unborn(b)' => Unborn(b) /\ b # Cur(t)
    BY <1>1, <2>1, <1>2, ZenonT(30) DEF Unborn, PrePcs, PythonTimeout
  <2> QED
    BY <1>1, <2>2, <1>2, Zenon DEF IInv, UnbornUnknown, BusyPcs, PythonTimeout
<1>9. CallablePending'
  BY <1>1, <1>2, Zenon DEF IInv, CallablePending, Callable, SyncKinds, PythonTimeout
<1> QED
  BY <1>4, <1>5, <1>6, <1>7, <1>8, <1>9, Zenon DEF IInv

\* Emptying the slot of a cancelled try keeps the invariant.
LEMMA CancelStep ==
    ASSUME NEW t \in Callers
    PROVE  KeptBy(Cancel(t))
<1> SUFFICES ASSUME IInv, TypeOK', Locals', Cancel(t)
             PROVE  IInv'
  BY Zenon DEF KeptBy
<1> USE CurOwn, ConstantsAssumption
<1> USE DEF At, Goto, tableVars, tryVars, locals, callerVars, pollVars, netVars
<1> TypeOK /\ Locals
  BY Zenon DEF IInv
<1> Cur(t) \in Tries
  BY CurTry, Zenon DEF Locals, Cancel
<1>1. \A s \in Callers : Cur(s)' = Cur(s)
  BY Zenon DEF Cur, Cancel, ClearCallbacks, LockFree
<1>2. /\ replyCb \in [Idx -> Tries \union {None}]
      /\ errorCb \in [Idx -> Tries \union {None}]
      /\ pc \in [Callers -> Pcs]
      /\ handling \in [Callers -> Tries \union {None}]
  BY Zenon DEF TypeOK
<1>3. \A s \in Callers : pc[s] # "idle" => Cur(s) \in Tries
  BY CurTry, Zenon DEF Locals
<1>4. /\ slot[Cur(t)] \in Idx
      /\ \A i \in Idx :
           /\ replyCb'[i] = IF i = slot[Cur(t)] THEN None ELSE replyCb[i]
           /\ errorCb'[i] = IF i = slot[Cur(t)] THEN None ELSE errorCb[i]
  BY <1>2, Zenon DEF IInv, Indices, Cancel, ClearCallbacks
<1>5. Ahead' /\ Begun'
  <2>1. Ahead'
    BY <1>1, <1>2, <1>4, Zenon DEF IInv, Cancel, LockFree, Ahead
  <2>2. Begun'
    BY <1>1, <1>2, <1>4, Zenon DEF IInv, Cancel, LockFree, Begun
  <2> QED
    BY <2>1, <2>2, Zenon
<1>6. PrePending'
  BY <1>1, <1>2, <1>4, ZenonT(30) DEF IInv, Cancel, LockFree, PrePending, PrePcs
<1>7. Placement' /\ SetPending'
  <2>1. Placement'
    BY <1>1, <1>2, <1>4, Zenon DEF IInv, Cancel, LockFree, Placement, BusyPcs
  <2>2. SetPending'
    BY <1>1, <1>2, <1>4, Zenon DEF IInv, Cancel, LockFree, SetPending
  <2> QED
    BY <2>1, <2>2, Zenon
<1>8. Indices' /\ ResolvedAfterCallback' /\ CallbackRunsOnce'
  <2>1. Indices'
    BY <1>1, <1>2, <1>4, ZenonT(30) DEF IInv, Cancel, LockFree, Indices
  <2>2. ResolvedAfterCallback'
    BY <1>1, <1>2, <1>4, Zenon
    DEF IInv, Cancel, LockFree, ResolvedAfterCallback
  <2>3. CallbackRunsOnce'
    BY <1>1, <1>2, <1>4, Zenon DEF IInv, Cancel, LockFree, CallbackRunsOnce
  <2> QED
    BY <2>1, <2>2, <2>3, Zenon
<1>9. CallableOnce'
  BY <1>1, <1>2, <1>4, ZenonT(30)
  DEF IInv, Locals, Cancel, LockFree, CallableOnce, BusyPcs
<1>10. CallablePending'
  BY <1>1, <1>2, <1>4, SMTT(30)
  DEF IInv, Cancel, LockFree, CallablePending, Callable, Placement, BusyPcs
<1>11. NoLeakedId'
  BY <1>1, <1>2, <1>4, SMTT(30) DEF IInv, Cancel, LockFree, NoLeakedId, Responsible
<1>12. UnbornUnknown'
  <2>1. Cur(t) \in Tries /\ promise[Cur(t)] # "none" /\ pc[t] \notin PrePcs
    BY <1>3, Zenon DEF IInv, Begun, PrePcs, Cancel
  <2>2. \A b \in Tries : Unborn(b)' => Unborn(b) /\ b # Cur(t)
    <3>1. promise' = promise /\ pc'[t] \notin PrePcs
      BY <1>2, Zenon DEF PrePcs, Cancel
    <3>2. \A s \in Callers : s # t => pc'[s] = pc[s]
      BY <1>2, Zenon DEF Cancel
    <3>3. ~Unborn(Cur(t))
      BY <2>1, Zenon DEF Unborn
    <3> QED
      BY <1>1, <3>1, <3>2, <3>3, Zenon DEF Unborn
  <2> QED
    BY <1>1, <2>2, <1>2, <1>4, SMTT(30) DEF IInv, UnbornUnknown, BusyPcs, Cancel
<1>13. Settled'
  <2>1. \A b \in Tries : NotCallable(b) => NotCallable(b)'
    <3>1. pollPc' = pollPc /\ pollTry' = pollTry
      BY Zenon DEF Cancel
    <3> QED
      BY <1>4, <3>1, ClearedNotCallable, Zenon
  <2> QED
    BY <1>1, <1>3, <2>1, <1>2, Zenon DEF IInv, Settled, Cancel
<1> QED
  BY <1>5, <1>6, <1>7, <1>8, <1>9, <1>10, <1>11, <1>12, <1>13, Zenon DEF IInv

\* The end of a cancellation after the last try keeps the invariant.
LEMMA GiveUpStep ==
    ASSUME NEW t \in Callers
    PROVE  KeptBy(CancelRelease(t) /\ try[t] = NumTries)
<1> SUFFICES ASSUME IInv, TypeOK', Locals', CancelRelease(t), try[t] = NumTries
             PROVE  IInv'
  BY Zenon DEF KeptBy
<1> USE CurOwn, ConstantsAssumption
<1> USE DEF At, Goto, tableVars, tryVars, locals, callerVars, pollVars, netVars
<1> TypeOK /\ Locals
  BY Zenon DEF IInv
<1> Cur(t) \in Tries
  BY CurTry, Zenon DEF Locals, CancelRelease
<1>1. pc \in [Callers -> Pcs]
  BY Zenon DEF TypeOK
<1>2. /\ pc[t] = "cancelRelease" /\ Goto(t, "idle")
      /\ Release(slot[Cur(t)])
      /\ UNCHANGED <<replyCb, errorCb, tryVars, locals, pollVars, netVars>>
  <2>1. ~(try[t] < NumTries)
    BY NumTriesPositive
  <2> QED
    BY <2>1, Zenon DEF CancelRelease
<1>3. \A s \in Callers : Cur(s)' = Cur(s)
  BY <1>2, Zenon DEF Cur
<1>4. Ahead' /\ Begun'
  <2>1. Ahead'
    BY <1>3, <1>1, <1>2, Zenon DEF IInv, Release, Ahead
  <2>2. Begun'
    BY <1>3, <1>1, <1>2, Zenon DEF IInv, Release, Begun
  <2> QED
    BY <2>1, <2>2, Zenon
<1>5. PrePending' /\ UnbornUnknown' /\ Placement'
  <2>1. PrePending'
    BY <1>3, <1>1, <1>2, Zenon DEF IInv, Release, PrePending, PrePcs
  <2>2. UnbornUnknown'
    BY <1>3, <1>1, <1>2, Zenon
    DEF IInv, Release, UnbornUnknown, Unborn, PrePcs, BusyPcs
  <2>3. Placement'
    BY <1>3, <1>1, <1>2, Zenon DEF IInv, Release, Placement, BusyPcs
  <2> QED
    BY <2>1, <2>2, <2>3, Zenon
<1>6. CallablePending' /\ CallableOnce'
  BY <1>3, <1>1, <1>2, Zenon
  DEF IInv, Release, CallablePending, Callable, CallableOnce, BusyPcs
<1>7. SetPending'
  BY <1>3, <1>1, <1>2, Zenon DEF IInv, Release, SetPending
<1>8. Settled'
  BY <1>3, <1>1, <1>2, Zenon DEF IInv, Release, Settled, NotCallable
<1>9. Indices'
  BY <1>3, <1>1, <1>2, Zenon DEF IInv, Release, Indices
<1>10. ResolvedAfterCallback' /\ CallbackRunsOnce'
  BY <1>3, <1>1, <1>2, Zenon
  DEF IInv, Release, ResolvedAfterCallback, CallbackRunsOnce
<1>11. NoLeakedId'
  <2>1. \A i \in Idx : Responsible(i) => Responsible(i)' \/ i = slot[Cur(t)]
    BY <1>1, <1>2, <1>3, Zenon DEF Responsible
  <2>2. available' = available \union {slot[Cur(t)]}
    BY <1>2, Zenon DEF Release
  <2> QED
    BY <2>1, <2>2, Zenon DEF IInv, NoLeakedId
<1> QED
  BY <1>4, <1>5, <1>6, <1>7, <1>8, <1>9, <1>10, <1>11, Zenon DEF IInv

=============================================================================
