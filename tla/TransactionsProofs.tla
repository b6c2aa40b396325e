------------------------- MODULE TransactionsProofs -------------------------
(***************************************************************************)
(* The theorems about Transactions: the properties that hold whatever the  *)
(* number of application threads, transaction IDs, operations and retries, *)
(* and that the node implements AsyncResult. The steps of the loop, of time *)
(* and of the network keep the inductive invariant, one lemma per action;  *)
(* with the lemmas of TransactionsInvariant every step does. The last part *)
(* is about an application that uses the node from one thread.             *)
(***************************************************************************)
EXTENDS TransactionsInvariant

\* Receiving a reply keeps the invariant.
LEMMA PollReceiveStep == KeptBy(PollReceive)
<1> SUFFICES ASSUME IInv, TypeOK', Locals', PollReceive
             PROVE  IInv'
  BY Zenon DEF KeptBy
<1> USE CurOwn, ConstantsAssumption
<1> USE DEF At, Goto, tableVars, tryVars, locals, callerVars, pollVars, netVars
<1> TypeOK /\ Locals
  BY Zenon DEF IInv
<1>1. \A s \in Callers : Cur(s)' = Cur(s)
  BY Zenon DEF Cur, PollReceive
<1>2. Ahead' /\ Begun' /\ PrePending' /\ UnbornUnknown' /\ CallablePending'
  <2>1. Ahead'
    BY <1>1, Zenon DEF IInv, PollReceive, Ahead
  <2>2. Begun'
    BY <1>1, Zenon DEF IInv, PollReceive, Begun
  <2>3. PrePending'
    BY <1>1, Zenon DEF IInv, PollReceive, PrePending, PrePcs
  <2>4. UnbornUnknown'
    BY <1>1, Zenon
    DEF IInv, PollReceive, UnbornUnknown, Unborn, PrePcs, BusyPcs
  <2>5. CallablePending'
    BY <1>1, Zenon DEF IInv, PollReceive, CallablePending, Callable
  <2> QED
    BY <2>1, <2>2, <2>3, <2>4, <2>5, Zenon
<1>3. CallableOnce' /\ SetPending'
  BY <1>1, Zenon DEF IInv, PollReceive, CallableOnce, BusyPcs, SetPending
<1>4. Settled'
  BY <1>1, Zenon DEF IInv, PollReceive, Settled, NotCallable
<1>5. Indices' /\ ResolvedAfterCallback'
  BY <1>1, Zenon DEF IInv, PollReceive, Indices, ResolvedAfterCallback
<1>6. CallbackRunsOnce'
  BY <1>1, Zenon DEF IInv, PollReceive, CallbackRunsOnce
<1>7. Placement'
  BY <1>1 DEF IInv, PollReceive, Placement, BusyPcs
<1>8. NoLeakedId'
  BY <1>1 DEF IInv, PollReceive, NoLeakedId, Responsible
<1> QED
  BY <1>2, <1>3, <1>4, <1>5, <1>6, <1>7, <1>8, Zenon DEF IInv

\* The end of the loop keeps the invariant.
LEMMA LoopStopsStep == KeptBy(LoopStops)
<1> SUFFICES ASSUME IInv, TypeOK', Locals', LoopStops
             PROVE  IInv'
  BY Zenon DEF KeptBy
<1> USE CurOwn, ConstantsAssumption
<1> USE DEF At, Goto, tableVars, tryVars, locals, callerVars, pollVars, netVars
<1> TypeOK /\ Locals
  BY Zenon DEF IInv
<1>1. \A s \in Callers : Cur(s)' = Cur(s)
  BY Zenon DEF Cur, LoopStops
<1>2. Ahead' /\ Begun'
  BY <1>1, Zenon DEF IInv, LoopStops, Ahead, Begun
<1>3. PrePending'
  BY <1>1, Zenon DEF IInv, LoopStops, PrePending, PrePcs
<1>4. UnbornUnknown' /\ Placement'
  BY <1>1, Zenon
  DEF IInv, LoopStops, UnbornUnknown, Unborn, PrePcs, BusyPcs, Placement
<1>5. CallablePending' /\ CallableOnce'
  BY <1>1, Zenon
  DEF IInv, LoopStops, CallablePending, Callable, CallableOnce, BusyPcs
<1>6. SetPending'
  BY <1>1, Zenon DEF IInv, LoopStops, SetPending
<1>7. Settled' /\ Indices'
  BY <1>1, Zenon DEF IInv, LoopStops, Settled, NotCallable, Indices
<1>8. ResolvedAfterCallback' /\ CallbackRunsOnce'
  BY <1>1, Zenon DEF IInv, LoopStops, ResolvedAfterCallback, CallbackRunsOnce
<1>9. NoLeakedId'
  BY <1>1 DEF IInv, LoopStops, NoLeakedId, Responsible
<1> QED
  BY <1>2, <1>3, <1>4, <1>5, <1>6, <1>7, <1>8, <1>9, Zenon DEF IInv

\* Moving a callback out of the table keeps the invariant.
LEMMA PollDispatchStep == KeptBy(PollDispatch)
<1> SUFFICES ASSUME IInv, TypeOK', Locals', PollDispatch
             PROVE  IInv'
  BY Zenon DEF KeptBy
<1> USE CurOwn, ConstantsAssumption
<1> USE DEF At, Goto, tableVars, tryVars, locals, callerVars, pollVars, netVars
<1> TypeOK /\ Locals
  BY Zenon DEF IInv
<1>1. \A s \in Callers : Cur(s)' = Cur(s)
  BY Zenon DEF Cur, PollDispatch, ClearCallbacks
<1>2. /\ replyCb \in [Idx -> Tries \union {None}]
      /\ errorCb \in [Idx -> Tries \union {None}]
  BY Zenon DEF TypeOK
<1>3. \A s \in Callers : pc[s] # "idle" => Cur(s) \in Tries
  BY CurTry, Zenon DEF Locals
<1>4. Ahead' /\ Begun'
  BY <1>1, <1>2, Zenon DEF IInv, PollDispatch, ClearCallbacks, Ahead, Begun
<1>5. PrePending' /\ Placement' /\ CallablePending'
  <2>1. PrePending'
    BY <1>1, <1>2, Zenon
    DEF IInv, PollDispatch, ClearCallbacks, PrePending, PrePcs
  <2>2. Placement'
    BY <1>1, <1>2, Zenon
    DEF IInv, PollDispatch, ClearCallbacks, Placement, BusyPcs
  <2>3. CallablePending'
    BY <1>1, <1>2, Zenon
    DEF IInv, PollDispatch, ClearCallbacks, CallablePending, Callable,
      Placement, BusyPcs
  <2> QED
    BY <2>1, <2>2, <2>3, Zenon
<1>6. SetPending' /\ Indices' /\ ResolvedAfterCallback' /\ CallbackRunsOnce'
  BY <1>1, <1>2, Zenon
  DEF IInv, PollDispatch, ClearCallbacks, SetPending, Indices,
    ResolvedAfterCallback, CallbackRunsOnce
<1>7. UnbornUnknown'
  BY <1>1, <1>2
  DEF IInv, PollDispatch, ClearCallbacks, UnbornUnknown, Unborn, PrePcs,
    BusyPcs, Placement
<1>8. CallableOnce'
  BY <1>1, <1>2
  DEF IInv, PollDispatch, ClearCallbacks, CallableOnce, BusyPcs, Placement
<1>9. NoLeakedId'
  BY <1>1, <1>2 DEF IInv, PollDispatch, ClearCallbacks, NoLeakedId, Responsible
<1>10. Settled'
  <2>1. \A b \in Tries : NotCallable(b) => NotCallable(b)'
    BY <1>2, Zenon DEF NotCallable, Placement, IInv, PollDispatch, ClearCallbacks
  <2>2. handling \in [Callers -> Tries \union {None}]
    BY Zenon DEF TypeOK
  <2> QED
    BY <1>1, <1>3, <2>1, <2>2, Zenon DEF IInv, Settled, PollDispatch
<1> QED
  BY <1>4, <1>5, <1>6, <1>7, <1>8, <1>9, <1>10, Zenon DEF IInv

\* Running a callback keeps the invariant.
LEMMA OnCompleteStep == KeptBy(OnComplete)
<1> SUFFICES ASSUME IInv, TypeOK', Locals', OnComplete
             PROVE  IInv'
  BY Zenon DEF KeptBy
<1> USE CurOwn, ConstantsAssumption
<1> USE DEF At, Goto, tableVars, tryVars, locals, callerVars, pollVars, netVars
<1> TypeOK /\ Locals
  BY Zenon DEF IInv
<1>1. \A s \in Callers : Cur(s)' = Cur(s)
  BY Zenon DEF Cur, OnComplete
<1>2. runs \in [Tries -> Nat]
  BY Zenon DEF TypeOK
<1>3. pollTry \in Tries /\ promise[pollTry] = "pending" /\ runs[pollTry] = 0
  BY Zenon DEF IInv, Locals, BusyPcs, CallablePending, Callable, OnComplete
<1>4. /\ runs' \in [Tries -> Nat] /\ runs'[pollTry] = 1 /\ promise' = promise
      /\ \A b \in Tries : b # pollTry => runs'[b] = runs[b]
  BY <1>3 DEF TypeOK, OnComplete
<1>5. Ahead' /\ Begun'
  BY <1>1, <1>2, <1>3, Zenon DEF IInv, OnComplete, Ahead, Begun
<1>6. PrePending' /\ UnbornUnknown' /\ Placement'
  <2>1. PrePending'
    BY <1>1, <1>2, <1>3, Zenon DEF IInv, OnComplete, PrePending, PrePcs
  <2>2. UnbornUnknown'
    BY <1>1, <1>2, <1>3, Zenon
    DEF IInv, OnComplete, UnbornUnknown, Unborn, PrePcs, BusyPcs
  <2>3. Placement'
    BY <1>1, <1>2, <1>3, Zenon DEF IInv, OnComplete, Placement, BusyPcs
  <2> QED
    BY <2>1, <2>2, <2>3, Zenon
<1>7. CallableOnce'
  BY <1>1, <1>2, <1>3, Zenon DEF IInv, OnComplete, CallableOnce, BusyPcs
<1>8. Settled'
  BY <1>1, <1>2, <1>3, Zenon DEF IInv, OnComplete, Settled, NotCallable
<1>9. Indices'
  BY <1>1, <1>2, <1>3, Zenon DEF IInv, OnComplete, Indices
<1>10. NoLeakedId'
  BY <1>1, <1>2, <1>3 DEF IInv, OnComplete, NoLeakedId, Responsible
<1>11. CallablePending'
  BY <1>3, <1>4, <1>2, Zenon
  DEF IInv, CallablePending, Callable, CallableOnce, BusyPcs, OnComplete
<1>12. SetPending'
  BY <1>3, <1>4, Zenon DEF SetPending, OnComplete
<1>13. ResolvedAfterCallback'
  BY <1>3, <1>4, Zenon DEF IInv, ResolvedAfterCallback
<1>14. CallbackRunsOnce'
  BY <1>4, <1>2 DEF IInv, CallbackRunsOnce
<1> QED
  BY <1>5, <1>6, <1>7, <1>8, <1>9, <1>10, <1>11, <1>12, <1>13, <1>14, Zenon
  DEF IInv

\* The loop's set_value keeps the invariant.
LEMMA PollSetStep == KeptBy(PollSet)
<1> SUFFICES ASSUME IInv, TypeOK', Locals', PollSet
             PROVE  IInv'
  BY Zenon DEF KeptBy
<1> USE CurOwn, ConstantsAssumption
<1> USE DEF At, Goto, tableVars, tryVars, locals, callerVars, pollVars, netVars
<1> TypeOK /\ Locals
  BY Zenon DEF IInv
<1>1. \A s \in Callers : Cur(s)' = Cur(s)
  BY Zenon DEF Cur, PollSet, SetValue
<1>2. promise \in [Tries -> Outcomes \union {"none", "pending"}]
  BY Zenon DEF TypeOK
<1>3. \A s \in Callers : pc[s] # "idle" => Cur(s) \in Tries
  BY CurTry, Zenon DEF Locals
<1>4. /\ \A b \in Tries : promise'[b] = "none" <=> promise[b] = "none"
      /\ \A b \in Tries : b # pollTry => promise'[b] = promise[b]
      /\ \A b \in Tries :
           promise'[b] = "pending" => promise[b] = "pending" /\ b # pollTry
  <2>1. pollTry \in Tries /\ SetValue(pollTry, pollRes)
    BY Zenon DEF Locals, BusyPcs, PollSet
  <2>2. pollRes \in Outcomes
    BY Zenon DEF TypeOK, Locals, Outcomes, PollSet
  <2> QED
    BY <2>1, <2>2, SetValueFacts, Zenon
<1>5. UnbornUnknown' /\ Placement'
  <2>1. UnbornUnknown'
    BY <1>1, <1>2, <1>4, ZenonT(30)
    DEF IInv, PollSet, UnbornUnknown, Unborn, PrePcs, BusyPcs
  <2>2. Placement'
    BY <1>1, <1>2, <1>4, Zenon DEF IInv, PollSet, Placement, BusyPcs
  <2> QED
    BY <2>1, <2>2, Zenon
<1>6. CallablePending' /\ CallableOnce' /\ SetPending'
  BY <1>1, <1>2, <1>4, Zenon
  DEF IInv, PollSet, CallablePending, Callable, CallableOnce, BusyPcs,
    SetPending
<1>7. ResolvedAfterCallback' /\ CallbackRunsOnce'
  BY <1>1, <1>2, <1>4, Zenon
  DEF IInv, PollSet, ResolvedAfterCallback, CallbackRunsOnce, CallablePending,
    Callable, CallableOnce, SetPending, BusyPcs
<1>8. Settled'
  BY <1>1, <1>2, Zenon DEF IInv, PollSet, SetValue, Settled, NotCallable
<1>9. NoLeakedId'
  BY <1>1, <1>2, <1>4 DEF IInv, PollSet, NoLeakedId, Responsible
<1>10. Ahead'
  <2> SUFFICES ASSUME NEW s \in Callers, NEW n \in 1 .. MaxOps,
                      NEW k \in 1 .. NumTries,
                      n > op[s] \/ (n = op[s] /\ k > try[s])
               PROVE  promise'[<<s, n, k>>] = "none"
    BY Zenon DEF Ahead, PollSet, SetValue
  <2>1. <<s, n, k>> \in Tries
    BY Zenon DEF Tries
  <2>2. promise[<<s, n, k>>] = "none"
    BY Zenon DEF IInv, Ahead
  <2> QED
    BY <1>4, <2>1, <2>2, Zenon
<1>11. Begun'
  BY <1>1, <1>3, <1>4, <1>2
  DEF IInv, Begun, PrePcs, UnbornUnknown, Unborn, BusyPcs, PollSet
<1>12. PrePending'
  BY <1>1, <1>3, <1>4, <1>2
  DEF IInv, PrePending, PrePcs, UnbornUnknown, Unborn, BusyPcs, PollSet
<1>13. Indices'
  BY <1>1, <1>3, <1>4, <1>2
  DEF IInv, Indices, PrePcs, UnbornUnknown, Unborn, BusyPcs, PollSet
<1> QED
  BY <1>5, <1>6, <1>7, <1>8, <1>9, <1>10, <1>11, <1>12, <1>13, Zenon DEF IInv

\* The loop's release of the ID keeps the invariant.
LEMMA PollReleaseStep == KeptBy(PollRelease)
<1> SUFFICES ASSUME IInv, TypeOK', Locals', PollRelease
             PROVE  IInv'
  BY Zenon DEF KeptBy
<1> USE CurOwn, ConstantsAssumption
<1> USE DEF At, Goto, tableVars, tryVars, locals, callerVars, pollVars, netVars
<1> TypeOK /\ Locals
  BY Zenon DEF IInv
<1>1. \A s \in Callers : Cur(s)' = Cur(s)
  BY Zenon DEF Cur, PollRelease, Release
<1>2. Ahead' /\ Begun'
  BY <1>1, Zenon DEF IInv, PollRelease, Release, Ahead, Begun
<1>3. PrePending'
  BY <1>1, Zenon DEF IInv, PollRelease, Release, PrePending, PrePcs
<1>4. UnbornUnknown' /\ Placement'
  BY <1>1, Zenon
  DEF IInv, PollRelease, Release, UnbornUnknown, Unborn, PrePcs, BusyPcs,
    Placement
<1>5. CallablePending' /\ CallableOnce'
  BY <1>1, Zenon
  DEF IInv, PollRelease, Release, CallablePending, Callable, CallableOnce,
    BusyPcs
<1>6. SetPending'
  BY <1>1, Zenon DEF IInv, PollRelease, Release, SetPending
<1>7. Settled' /\ Indices'
  BY <1>1, Zenon DEF IInv, PollRelease, Release, Settled, NotCallable, Indices
<1>8. ResolvedAfterCallback' /\ CallbackRunsOnce'
  BY <1>1, Zenon
  DEF IInv, PollRelease, Release, ResolvedAfterCallback, CallbackRunsOnce
<1>9. NoLeakedId'
  BY <1>1
  DEF IInv, PollRelease, Release, NoLeakedId, Responsible, Placement, BusyPcs
<1> QED
  BY <1>2, <1>3, <1>4, <1>5, <1>6, <1>7, <1>8, <1>9, Zenon DEF IInv

\* Unlocking the slot keeps the invariant.
LEMMA PollUnlockStep == KeptBy(PollUnlock)
<1> SUFFICES ASSUME IInv, TypeOK', Locals', PollUnlock
             PROVE  IInv'
  BY Zenon DEF KeptBy
<1> USE CurOwn, ConstantsAssumption
<1> USE DEF At, Goto, tableVars, tryVars, locals, callerVars, pollVars, netVars
<1> TypeOK /\ Locals
  BY Zenon DEF IInv
<1>1. \A s \in Callers : Cur(s)' = Cur(s)
  BY Zenon DEF Cur, PollUnlock
<1>2. errorCb \in [Idx -> Tries \union {None}]
  BY Zenon DEF TypeOK
<1>3. Ahead' /\ Begun'
  BY <1>1, <1>2, Zenon DEF IInv, PollUnlock, Ahead, Begun
<1>4. PrePending'
  BY <1>1, <1>2, Zenon DEF IInv, PollUnlock, PrePending, PrePcs
<1>5. UnbornUnknown' /\ Placement'
  BY <1>1, <1>2, Zenon
  DEF IInv, PollUnlock, UnbornUnknown, Unborn, PrePcs, BusyPcs, Placement
<1>6. CallablePending' /\ CallableOnce'
  BY <1>1, <1>2, Zenon
  DEF IInv, PollUnlock, CallablePending, Callable, CallableOnce, BusyPcs
<1>7. SetPending'
  BY <1>1, <1>2, Zenon DEF IInv, PollUnlock, SetPending
<1>8. Settled' /\ Indices'
  BY <1>1, <1>2, Zenon DEF IInv, PollUnlock, Settled, NotCallable, Indices
<1>9. ResolvedAfterCallback' /\ CallbackRunsOnce'
  BY <1>1, <1>2, Zenon
  DEF IInv, PollUnlock, ResolvedAfterCallback, CallbackRunsOnce
<1>10. NoLeakedId'
  BY <1>1 DEF IInv, PollUnlock, NoLeakedId, Responsible
<1> QED
  BY <1>3, <1>4, <1>5, <1>6, <1>7, <1>8, <1>9, <1>10, Zenon DEF IInv

\* The ageing of an ID keeps the invariant.
LEMMA ExpireStep ==
    ASSUME NEW i \in Idx
    PROVE  KeptBy(Expire(i))
<1> SUFFICES ASSUME IInv, TypeOK', Locals', Expire(i)
             PROVE  IInv'
  BY Zenon DEF KeptBy
<1> USE CurOwn, ConstantsAssumption
<1> USE DEF At, Goto, tableVars, tryVars, locals, callerVars, pollVars, netVars
<1> TypeOK /\ Locals
  BY Zenon DEF IInv
<1>1. \A s \in Callers : Cur(s)' = Cur(s)
  BY Zenon DEF Cur, Expire
<1>2. Ahead' /\ Begun'
  BY <1>1, Zenon DEF IInv, Expire, Ahead, Begun
<1>3. PrePending'
  BY <1>1, Zenon DEF IInv, Expire, PrePending, PrePcs
<1>4. UnbornUnknown' /\ Placement'
  BY <1>1, Zenon
  DEF IInv, Expire, UnbornUnknown, Unborn, PrePcs, BusyPcs, Placement
<1>5. CallablePending' /\ CallableOnce'
  BY <1>1, Zenon
  DEF IInv, Expire, CallablePending, Callable, CallableOnce, BusyPcs
<1>6. SetPending'
  BY <1>1, Zenon DEF IInv, Expire, SetPending
<1>7. Settled' /\ Indices'
  BY <1>1, Zenon DEF IInv, Expire, Settled, NotCallable, Indices
<1>8. ResolvedAfterCallback' /\ CallbackRunsOnce'
  BY <1>1, Zenon DEF IInv, Expire, ResolvedAfterCallback, CallbackRunsOnce
<1>9. NoLeakedId'
  BY <1>1 DEF IInv, Expire, NoLeakedId, Responsible
<1> QED
  BY <1>2, <1>3, <1>4, <1>5, <1>6, <1>7, <1>8, <1>9, Zenon DEF IInv

\* A reply of a target keeps the invariant.
LEMMA TargetRepliesStep ==
    ASSUME NEW a \in Tries
    PROVE  KeptBy(TargetReplies(a))
<1> SUFFICES ASSUME IInv, TypeOK', Locals', TargetReplies(a)
             PROVE  IInv'
  BY Zenon DEF KeptBy
<1> USE CurOwn, ConstantsAssumption
<1> USE DEF At, Goto, tableVars, tryVars, locals, callerVars, pollVars, netVars
<1> TypeOK /\ Locals
  BY Zenon DEF IInv
<1>1. \A s \in Callers : Cur(s)' = Cur(s)
  BY Zenon DEF Cur, TargetReplies
<1>2. Ahead' /\ Begun'
  BY <1>1, Zenon DEF IInv, TargetReplies, Ahead, Begun
<1>3. PrePending'
  BY <1>1, Zenon DEF IInv, TargetReplies, PrePending, PrePcs
<1>4. UnbornUnknown' /\ Placement'
  BY <1>1, Zenon
  DEF IInv, TargetReplies, UnbornUnknown, Unborn, PrePcs, BusyPcs, Placement
<1>5. CallablePending' /\ CallableOnce'
  BY <1>1, Zenon
  DEF IInv, TargetReplies, CallablePending, Callable, CallableOnce, BusyPcs
<1>6. SetPending'
  BY <1>1, Zenon DEF IInv, TargetReplies, SetPending
<1>7. Settled' /\ Indices'
  BY <1>1, Zenon DEF IInv, TargetReplies, Settled, NotCallable, Indices
<1>8. ResolvedAfterCallback' /\ CallbackRunsOnce'
  BY <1>1, Zenon
  DEF IInv, TargetReplies, ResolvedAfterCallback, CallbackRunsOnce
<1>9. NoLeakedId'
  BY <1>1 DEF IInv, TargetReplies, NoLeakedId, Responsible
<1> QED
  BY <1>2, <1>3, <1>4, <1>5, <1>6, <1>7, <1>8, <1>9, Zenon DEF IInv

-----------------------------------------------------------------------------
(* The theorems.                                                           *)

\* The initial state satisfies the inductive invariant.
LEMMA InitIInv == Init => IInv
<1> SUFFICES ASSUME Init
             PROVE  IInv
  BY Zenon
<1> USE ConstantsAssumption DEF Init
<1>1. TypeOK /\ Locals
  BY InitTyping, Zenon
<1>2. Begun /\ PrePending /\ Settled /\ Indices
  BY Zenon DEF Begun, PrePending, PrePcs, Settled, Indices
<1>3. Ahead
  BY Zenon DEF Ahead, Tries
<1>4. UnbornUnknown /\ Placement /\ CallableOnce /\ SetPending
  BY Zenon DEF UnbornUnknown, Placement, CallableOnce, SetPending, BusyPcs
<1>5. CallablePending /\ ResolvedAfterCallback /\ CallbackRunsOnce
      /\ NoLeakedId
  BY DEF CallablePending, Callable, ResolvedAfterCallback, CallbackRunsOnce,
         NoLeakedId
<1> QED
  BY <1>1, <1>2, <1>3, <1>4, <1>5, Zenon DEF IInv

\* Every step preserves the inductive invariant.
LEMMA StepIInv == IInv /\ [Next]_vars => IInv'
<1> SUFFICES ASSUME IInv, [Next]_vars
             PROVE  IInv'
  BY Zenon
<1> TypeOK' /\ Locals'
  BY TypingStep, Zenon DEF IInv
<1>1. ASSUME NEW t \in Callers, NEW k \in Kinds, StartOp(t, k)
      PROVE  IInv'
  BY <1>1, StartOpStep, Zenon
<1>2. ASSUME NEW t \in Callers, StartStep(t)
      PROVE  IInv'
  BY <1>2, AcquireIdStep, FindExpiredStep, NoIdStep, ForceReleaseStep,
       HandlerSetStep, HandlerReleaseStep, HandlerClearStep, ReleaseVictimStep,
       InstallStep, SendOkStep, SendFailStep, SendFailClearStep,
       SendFailSetStep, SendFailReleaseStep, Zenon
     DEF StartStep, KeptBy
<1>3. ASSUME NEW t \in Callers, WaitStep(t)
      PROVE  IInv'
  <2>1. CASE CancelRelease(t)
    <3>1. try[t] < NumTries \/ try[t] = NumTries
      BY <2>1, Zenon DEF CancelRelease
    <3> QED
      BY <2>1, <3>1, RetryStep, GiveUpStep, Zenon DEF KeptBy
  <2> QED
    BY <1>3, <2>1, WaitReadyStep, WaitTimeoutStep, PythonTimeoutStep,
       CancelStep, Zenon DEF WaitStep, KeptBy
<1>4. CASE DispatchStep
  BY <1>4, PollDispatchStep, OnCompleteStep, PollSetStep, PollReleaseStep,
     PollUnlockStep, Zenon DEF DispatchStep, KeptBy
<1>5. CASE PollReceive \/ LoopStops
  BY <1>5, PollReceiveStep, LoopStopsStep, Zenon DEF KeptBy
<1>6. ASSUME NEW i \in Idx, Expire(i)
      PROVE  IInv'
  BY <1>6, ExpireStep, Zenon DEF KeptBy
<1>7. ASSUME NEW a \in Tries, TargetReplies(a)
      PROVE  IInv'
  BY <1>7, TargetRepliesStep, Zenon DEF KeptBy
<1>8. CASE UNCHANGED vars
  <2> USE <1>8 DEF vars, tableVars, tryVars, locals, callerVars, pollVars,
                   netVars
  <2>1. \A t \in Callers : Cur(t)' = Cur(t)
    BY Zenon DEF Cur
  <2>2. Ahead' /\ Begun' /\ PrePending'
    BY <2>1, Zenon DEF IInv, Ahead, Begun, PrePending
  <2>3. UnbornUnknown' /\ Placement'
    BY <2>1, Zenon DEF IInv, UnbornUnknown, Unborn, Placement
  <2>4. CallablePending' /\ CallableOnce' /\ SetPending'
    BY Zenon DEF IInv, CallablePending, Callable, CallableOnce, SetPending
  <2>5. Settled' /\ Indices'
    BY <2>1, Zenon DEF IInv, Settled, NotCallable, Indices
  <2>6. ResolvedAfterCallback' /\ CallbackRunsOnce' /\ NoLeakedId'
    BY <2>1 DEF IInv, ResolvedAfterCallback, CallbackRunsOnce, NoLeakedId,
                Responsible
  <2> QED
    BY <2>2, <2>3, <2>4, <2>5, <2>6, Zenon DEF IInv
<1> QED
  BY <1>1, <1>2, <1>3, <1>4, <1>5, <1>6, <1>7, <1>8, Zenon
  DEF Next, CallerStep, Finished

\* The inductive invariant holds in every reachable state.
THEOREM TransactionsInductive == Spec => []IInv
<1>1. Init => IInv
  BY InitIInv, Zenon
<1>2. IInv /\ [Next]_vars => IInv'
  BY StepIInv, Zenon
<1> QED
  BY <1>1, <1>2, PTL DEF Spec

\* The tables, promises and threads of the node stay well typed.
THEOREM TransactionsTypeCorrect == Spec => []TypeOK
<1>1. IInv => TypeOK
  BY Zenon DEF IInv
<1> QED
  BY <1>1, TransactionsInductive, PTL

\* The callback of write and read never runs once the caller has stopped
\* waiting for the try, so it never stores into a buffer the caller may have
\* freed, whatever the number of threads and IDs and however late a reply is.
THEOREM CallbackStaysWithinCall == Spec => []CallbackWithinCall
<1>1. IInv => CallbackWithinCall
  BY Zenon DEF IInv, Locals, CallbackWithinCall, CallablePending, Callable, BusyPcs
<1> QED
  BY <1>1, TransactionsInductive, PTL

\* on_complete is called at most once per try.
THEOREM CallbackRunsAtMostOnce == Spec => []CallbackRunsOnce
<1>1. IInv => CallbackRunsOnce
  BY Zenon DEF IInv
<1> QED
  BY <1>1, TransactionsInductive, PTL

\* A future reports a reply only after its callback has run.
THEOREM FutureAfterCallback == Spec => []ResolvedAfterCallback
<1>1. IInv => ResolvedAfterCallback
  BY Zenon DEF IInv
<1> QED
  BY <1>1, TransactionsInductive, PTL

\* The thread inside runLoop never calls set_value on a satisfied promise.
THEOREM LoopNeverSetsTwice == Spec => []LoopSetsPendingPromise
<1>1. IInv => LoopSetsPendingPromise
  BY Zenon DEF IInv, Locals, LoopSetsPendingPromise, CallablePending, Callable,
         SetPending, BusyPcs
<1> QED
  BY <1>1, TransactionsInductive, PTL

\* An ID that is not available is registered with a callback or in the hands
\* of a thread whose next steps give it back.
THEOREM IdsNeverLeak == Spec => []NoLeakedId
<1>1. IInv => NoLeakedId
  BY Zenon DEF IInv
<1> QED
  BY <1>1, TransactionsInductive, PTL

-----------------------------------------------------------------------------
(* The node implements AsyncResult: every step is one of its steps or leaves *)
(* futures and callbacks alone. That takes one fact more: RanPending.      *)

\* The callback of a pending try has not been called, unless the loop is just
\* about to set the promise.
RanPending ==
    \A a \in Tries :
        promise[a] = "pending" /\ runs[a] # 0 => pollPc = "set" /\ pollTry = a

\* What a step must do.
Refines == RanPending' /\ [Async!Next]_(Async!vars)

\* A step that touches neither promises nor callbacks is a stutter.
LEMMA QuietStep ==
    ASSUME RanPending, UNCHANGED <<promise, runs, pollPc, pollTry>>
    PROVE  Refines
BY Zenon DEF RanPending, Refines, Async!vars

\* A step of the loop outside its set_value that leaves promises and callbacks
\* alone is a stutter.
LEMMA QuietLoopStep ==
    ASSUME RanPending, UNCHANGED <<promise, runs>>, pollPc # "set"
    PROVE  Refines
BY Zenon DEF RanPending, Refines, Async!vars

\* A try with no history begins.
LEMMA BeginStep ==
    ASSUME TypeOK, UnbornUnknown, RanPending, NEW a \in Tries,
           promise[a] = "none",
           promise' = [promise EXCEPT ![a] = "pending"],
           UNCHANGED <<runs, pollPc, pollTry>>
    PROVE  Refines
<1>1. runs[a] = 0
  BY Zenon DEF UnbornUnknown, Unborn
<1>2. \A b \in Tries : b # a => promise'[b] = promise[b]
  BY Zenon DEF TypeOK
<1>3. RanPending'
  BY <1>1, <1>2, Zenon DEF RanPending
<1>4. Async!Begin(a)
  BY Zenon DEF Async!Begin
<1> QED
  BY <1>3, <1>4, Zenon DEF Refines, Async!Next

\* A failure is reported for a try whose callback was not called; a promise
\* that already has a value keeps it.
LEMMA FailStep ==
    ASSUME TypeOK, RanPending, NEW a \in Tries,
           NEW v \in {"timed_out", "send_error", "no_id"},
           SetValue(a, v), promise[a] = "pending" => runs[a] = 0,
           UNCHANGED <<runs, pollPc, pollTry>>
    PROVE  Refines
<1>1. v \in Outcomes
  BY Zenon DEF Outcomes
<1>2. \A b \in Tries : promise'[b] = "pending" => promise[b] = "pending"
  BY <1>1, SetValueFacts, Zenon
<1>3. RanPending'
  BY <1>2, Zenon DEF RanPending
<1>4. CASE promise[a] = "pending"
  <2>1. Async!Fail(a, v)
    BY <1>4, Zenon DEF SetValue, Async!Fail
  <2> QED
    BY <1>3, <2>1, Zenon DEF Refines, Async!Next, Async!Failures
<1>5. CASE promise[a] # "pending"
  BY <1>3, <1>5, Zenon DEF Refines, SetValue, Async!vars
<1> QED
  BY <1>4, <1>5, Zenon

\* Every step of the node is a step of AsyncResult, or a stutter.
LEMMA StepRefines ==
    ASSUME IInv, RanPending, [Next]_vars
    PROVE  Refines
<1> USE DEF At, Goto, tableVars, tryVars, locals, callerVars, pollVars, netVars
<1> TypeOK /\ Locals /\ UnbornUnknown
  BY Zenon DEF IInv
<1>1. ASSUME NEW t \in Callers, NEW k \in Kinds, StartOp(t, k)
      PROVE  Refines
  <2> DEFINE a == <<t, op[t] + 1, 1>>
  <2>1. a \in Tries
    BY <1>1, ConstantsAssumption, NumTriesPositive DEF Tries, TypeOK, StartOp
  <2>2. promise[a] = "none"
    <3>1. op[t] + 1 \in 1 .. MaxOps /\ op[t] + 1 > op[t] /\ 1 \in 1 .. NumTries
      BY <1>1, ConstantsAssumption, NumTriesPositive DEF TypeOK, StartOp
    <3> QED
      BY <3>1, Zenon DEF IInv, Ahead
  <2>3. /\ promise' = [promise EXCEPT ![a] = "pending"]
        /\ UNCHANGED <<runs, pollPc, pollTry>>
    BY <1>1, Zenon DEF StartOp, NewTry
  <2> HIDE DEF a
  <2> QED
    BY <2>1, <2>2, <2>3, BeginStep, Zenon
<1>2. ASSUME NEW t \in Callers, StartStep(t)
      PROVE  Refines
  <2>1. CASE NoId(t)
    <3>1. Cur(t) \in Tries
      BY <2>1, CurTry, Zenon DEF NoId, Locals
    <3>2. runs[Cur(t)] = 0
      BY <2>1, <3>1, Zenon DEF NoId, UnbornUnknown, Unborn, PrePcs
    <3> QED
      BY <2>1, <3>1, <3>2, FailStep, Zenon DEF NoId
  <2>2. CASE HandlerSet(t)
    <3>1. handling[t] \in Tries
      BY <2>2, Zenon DEF HandlerSet, IInv, Indices
    <3>2. handling[t] # None
      BY <3>1, ConstantsAssumption, Zenon
    <3>3. NotCallable(handling[t])
      BY <3>2, Zenon DEF IInv, Settled
    <3>4. promise[handling[t]] = "pending" => runs[handling[t]] = 0
      BY <3>1, <3>3, Zenon DEF RanPending, NotCallable
    <3> QED
      BY <2>2, <3>1, <3>4, FailStep, Zenon DEF HandlerSet
  <2>3. CASE SendFailSet(t)
    <3>1. Cur(t) \in Tries
      BY <2>3, CurTry, Zenon DEF SendFailSet, Locals
    <3>2. NotCallable(Cur(t))
      BY <2>3, Zenon DEF SendFailSet, IInv, Settled
    <3>3. promise[Cur(t)] = "pending" => runs[Cur(t)] = 0
      BY <3>1, <3>2, Zenon DEF RanPending, NotCallable
    <3> QED
      BY <2>3, <3>1, <3>3, FailStep, Zenon DEF SendFailSet
  <2>4. CASE AcquireId(t) \/ FindExpired(t) \/ ForceRelease(t)
             \/ HandlerRelease(t) \/ HandlerClear(t) \/ ReleaseVictim(t)
    BY <2>4, QuietStep, Zenon
    DEF AcquireId, FindExpired, ForceRelease, HandlerRelease, HandlerClear,
        ReleaseVictim
  <2>5. CASE Install(t) \/ SendOk(t) \/ SendFail(t) \/ SendFailClear(t)
             \/ SendFailRelease(t)
    BY <2>5, QuietStep, Zenon
    DEF Install, SendOk, SendFail, SendFailClear, SendFailRelease
  <2> QED
    BY <1>2, <2>1, <2>2, <2>3, <2>4, <2>5, Zenon DEF StartStep
<1>3. ASSUME NEW t \in Callers, WaitStep(t)
      PROVE  Refines
  <2>1. CASE CancelRelease(t) /\ try[t] < NumTries
    <3> DEFINE a == <<t, op[t], try[t] + 1>>
    <3>1. op[t] # 0
      BY <2>1, Zenon DEF CancelRelease, Locals
    <3>2. op[t] \in 1 .. MaxOps /\ try[t] + 1 \in 1 .. NumTries
          /\ try[t] + 1 > try[t]
      BY <2>1, <3>1, ConstantsAssumption, NumTriesPositive DEF TypeOK
    <3>3. a \in Tries
      BY <3>2, Zenon DEF Tries
    <3>4. promise[a] = "none"
      BY <3>2, Zenon DEF IInv, Ahead
    <3>5. /\ promise' = [promise EXCEPT ![a] = "pending"]
          /\ UNCHANGED <<runs, pollPc, pollTry>>
      <4>1. try[t] # NumTries
        BY <2>1, NumTriesPositive DEF TypeOK
      <4> QED
        BY <2>1, <4>1, Zenon DEF CancelRelease, NewTry
    <3> HIDE DEF a
    <3> QED
      BY <3>3, <3>4, <3>5, BeginStep, Zenon
  <2>2. CASE CancelRelease(t) /\ ~(try[t] < NumTries)
    BY <2>2, QuietStep, Zenon DEF CancelRelease
  <2>3. CASE WaitReady(t) \/ WaitTimeout(t) \/ PythonTimeout(t) \/ Cancel(t)
    BY <2>3, QuietStep, Zenon DEF WaitReady, WaitTimeout, PythonTimeout, Cancel
  <2> QED
    BY <1>3, <2>1, <2>2, <2>3, Zenon DEF WaitStep
<1>4. CASE OnComplete
  <2>1. /\ pollTry \in Tries
        /\ promise[pollTry] = "pending" /\ runs[pollTry] = 0
    BY <1>4, Zenon
    DEF OnComplete, IInv, Locals, BusyPcs, CallablePending, Callable
  <2>2. runs' = [runs EXCEPT ![pollTry] = 1]
    BY <1>4, <2>1 DEF OnComplete
  <2>3. \A b \in Tries : b # pollTry => runs'[b] = runs[b]
    BY <2>2, Zenon DEF TypeOK
  <2>4. RanPending'
    BY <1>4, <2>3, Zenon DEF RanPending, OnComplete
  <2>5. Async!Call(pollTry)
    BY <1>4, <2>1, <2>2, Zenon DEF OnComplete, Async!Call
  <2> QED
    BY <2>1, <2>4, <2>5, Zenon DEF Refines, Async!Next
<1>5. CASE PollSet
  <2>1. /\ pollTry \in Tries /\ pollRes \in {"ok", "operation_canceled"}
        /\ promise[pollTry] = "pending" /\ runs[pollTry] = 1
    BY <1>5, Zenon DEF PollSet, IInv, Locals, BusyPcs, SetPending, TypeOK
  <2>2. /\ promise' = [promise EXCEPT ![pollTry] = pollRes]
        /\ UNCHANGED runs
    BY <1>5, <2>1, Zenon DEF PollSet, SetValue
  <2>3. \A b \in Tries : promise'[b] = "pending" =>
          promise[b] = "pending" /\ b # pollTry
    BY <2>1, <2>2, Zenon DEF TypeOK
  <2>4. RanPending'
    BY <2>2, <2>3, Zenon DEF RanPending
  <2>5. Async!Answer(pollTry, pollRes)
    BY <2>1, <2>2, Zenon DEF Async!Answer
  <2> QED
    BY <2>1, <2>4, <2>5, Zenon DEF Refines, Async!Next, Async!Answers
<1>6. CASE PollReceive \/ LoopStops \/ PollDispatch \/ PollRelease
           \/ PollUnlock
  BY <1>6, QuietLoopStep, Zenon
  DEF PollReceive, LoopStops, PollDispatch, PollRelease, PollUnlock
<1>7. ASSUME NEW i \in Idx, Expire(i)
      PROVE  Refines
  BY <1>7, QuietStep, Zenon DEF Expire
<1>8. ASSUME NEW a \in Tries, TargetReplies(a)
      PROVE  Refines
  BY <1>8, QuietStep, Zenon DEF TargetReplies
<1>9. CASE UNCHANGED vars
  BY <1>9, QuietStep, Zenon DEF vars
<1> QED
  BY <1>1, <1>2, <1>3, <1>4, <1>5, <1>6, <1>7, <1>8, <1>9, Zenon
  DEF Next, CallerStep, DispatchStep, Finished

\* The node implements the abstract specification of its futures: each try is
\* completed through its callback, called once, or fails without it, and keeps
\* its value.
THEOREM NodeImplementsAsyncResult == Spec => ImplementsAsyncResult
<1>1. Init => Async!Init /\ RanPending
  BY Zenon DEF Init, Async!Init, RanPending
<1>2. IInv /\ RanPending /\ [Next]_vars
        => RanPending' /\ [Async!Next]_(Async!vars)
  BY StepRefines, Zenon DEF Refines
<1> QED
  BY <1>1, <1>2, TransactionsInductive, PTL
  DEF Spec, ImplementsAsyncResult, Async!Spec

-----------------------------------------------------------------------------
(* One application thread: an ID with a registered callback stays taken,   *)
(* promises are kept, and a cancellation removes the caller's own callback *)
(* only. With two threads each of these fails; what it takes with one is   *)
(* the invariant SInv, which rests on IInv.                                *)

\* Only one application thread uses the node.
OneCaller == \E c \in Callers : Callers = {c}

\* Both callbacks of a slot are there or neither is.
Twins == \A i \in Idx : errorCb[i] = replyCb[i]

\* Nothing is registered for slot i, and the loop does not hold it.
Cleared(i) == replyCb[i] = None /\ LockFree(i)

\* While the loop holds a slot nothing is registered there, and until it
\* releases the ID nobody can be given it.
LoopHolds ==
    /\ pollPc \in BusyPcs => replyCb[pollIdx] = None
    /\ pollPc \in {"callback", "set", "release"} => pollIdx \notin available
    /\ pollPc \in {"release", "unlock"} => promise[pollTry] # "pending"

\* The ID a thread has just been given is its own.
InstallOwns ==
    \A t \in Callers : pc[t] = "install" =>
        /\ slot[Cur(t)] \notin available /\ replyCb[slot[Cur(t)]] = None
        /\ pollPc \in {"callback", "set", "release"} => pollIdx # slot[Cur(t)]

\* Until it is cleared the slot of a thread holds nobody else's callbacks.
OwnSlot ==
    \A t \in Callers :
        pc[t] \in {"send", "sendFailed", "cancel"}
        \/ (pc[t] = "wait" /\ promise[Cur(t)] = "pending") =>
            replyCb[slot[Cur(t)]] \in {Cur(t), None}

\* A slot that was cleared to be released stays cleared.
StaysCleared ==
    \A t \in Callers :
        /\ pc[t] \in {"sendFailedSet", "sendFailedRelease", "cancelRelease"}
             => Cleared(slot[Cur(t)])
        /\ pc[t] \in {"forceRelease", "handlerSet", "handlerRelease", "handlerClear"}
             => Cleared(victim[t])

\* An error handler finds the promise pending and leaves it set.
HandlerPromise ==
    \A t \in Callers :
        /\ pc[t] \notin {"handlerSet", "handlerRelease", "handlerClear"}
             => handling[t] = None
        /\ pc[t] = "handlerSet" => promise[handling[t]] = "pending"
        /\ pc[t] \in {"handlerRelease", "handlerClear"}
             => promise[handling[t]] # "pending"

\* A pending try whose command is being sent is registered or being completed;
\* one whose sending failed is not pending.
SendPromise ==
    \A t \in Callers :
        /\ pc[t] = "send" /\ promise[Cur(t)] = "pending" =>
             \/ replyCb[slot[Cur(t)]] = Cur(t)
             \/ pollPc \in BusyPcs /\ pollTry = Cur(t)
        /\ pc[t] = "sendFailedRelease" => promise[Cur(t)] # "pending"

\* A caller has not left the try it is working on.
NotLeft ==
    \A t \in Callers : pc[t] \notin {"idle", "cancelRelease"} => Cur(t) \notin left

\* The inductive invariant for one application thread
SInv ==
    /\ Twins /\ LoopHolds /\ InstallOwns /\ OwnSlot /\ StaysCleared
    /\ HandlerPromise /\ SendPromise /\ NotLeft
    /\ RegisteredIdsTaken /\ PromisesKept /\ TerminatesOnlyOnFailedSend

\* What a thread that is alone can rely on.
OnlyThread(t) ==
    /\ \A s \in Callers : s = t
    /\ pc[t] # "idle" => Cur(t) \in Tries
    /\ pollPc \in BusyPcs => pollTry \in Tries
    /\ pollRes \in {"ok", "operation_canceled", "none"}
    /\ pollPc = "set" => pollRes # "none"
    /\ available \subseteq Idx
    /\ replyCb \in [Idx -> Tries \union {None}]
    /\ errorCb \in [Idx -> Tries \union {None}]
    /\ promise \in [Tries -> Outcomes \union {"none", "pending"}]
    /\ slot \in [Tries -> Idx \union {None}]
    /\ pc \in [Callers -> Pcs]
    /\ victim \in [Callers -> Idx \union {None}]
    /\ handling \in [Callers -> Tries \union {None}]

\* It follows from the invariant of any number of threads.
LEMMA Alone ==
    ASSUME NEW t \in Callers, OneCaller, IInv
    PROVE  OnlyThread(t)
<1>1. TypeOK /\ Locals
  BY Zenon DEF IInv
<1>2. pc[t] # "idle" => Cur(t) \in Tries
  BY <1>1, CurTry, Zenon DEF Locals
<1> QED
  BY <1>1, <1>2, Zenon DEF OnlyThread, OneCaller, TypeOK, Locals

-----------------------------------------------------------------------------
(* The steps, one lemma per action.                                        *)

\* Taking a free ID keeps the invariant of one thread.
LEMMA AcquireIdSingle ==
    ASSUME NEW t \in Callers, OneCaller, IInv, SInv, TypeOK', AcquireId(t)
    PROVE  SInv'
<1> USE ConstantsAssumption
<1> USE DEF At, Goto, tableVars, tryVars, locals, callerVars, pollVars, netVars
<1> OnlyThread(t)
  BY Alone, Zenon
<1> Cur(t) \in Tries /\ pc[t] = "scan"
  BY Zenon DEF OnlyThread, AcquireId
<1> \A s \in Callers : Cur(s)' = Cur(s)
  BY Zenon DEF Cur, AcquireId
<1>1. Twins' /\ LoopHolds' /\ OwnSlot' /\ StaysCleared'
  BY Zenon DEF OnlyThread, SInv, Twins, LoopHolds, BusyPcs, OwnSlot, StaysCleared,
    Cleared, LockFree, AcquireId, FirstAvailable
<1>2. HandlerPromise' /\ SendPromise' /\ NotLeft' /\ RegisteredIdsTaken'
  BY DEF OnlyThread, SInv, HandlerPromise, SendPromise, BusyPcs, NotLeft,
    RegisteredIdsTaken, AcquireId, FirstAvailable
<1>3. PromisesKept' /\ TerminatesOnlyOnFailedSend'
  BY Zenon DEF OnlyThread, SInv, PromisesKept, Broken, Referenced, StartPcs,
    BusyPcs, TerminatesOnlyOnFailedSend, Running, AcquireId, FirstAvailable
<1>4. InstallOwns'
  BY DEF OnlyThread, SInv, InstallOwns, LoopHolds, RegisteredIdsTaken,
    AcquireId, FirstAvailable
<1> QED
  BY <1>1, <1>2, <1>3, <1>4, Zenon
  DEF SInv

\* Choosing an expired ID keeps the invariant of one thread.
LEMMA FindExpiredSingle ==
    ASSUME NEW t \in Callers, OneCaller, IInv, SInv, TypeOK', FindExpired(t)
    PROVE  SInv'
<1> USE ConstantsAssumption
<1> USE DEF At, Goto, tableVars, tryVars, locals, callerVars, pollVars, netVars
<1> OnlyThread(t)
  BY Alone, Zenon
<1> Cur(t) \in Tries /\ pc[t] = "scan"
  BY Zenon DEF OnlyThread, FindExpired
<1> \A s \in Callers : Cur(s)' = Cur(s)
  BY Zenon DEF Cur, FindExpired
<1>1. Twins' /\ LoopHolds' /\ InstallOwns' /\ OwnSlot'
  BY Zenon DEF OnlyThread, SInv, Twins, LoopHolds, BusyPcs, InstallOwns, OwnSlot,
    FindExpired
<1>2. StaysCleared' /\ HandlerPromise' /\ SendPromise' /\ NotLeft'
  BY ZenonT(30) DEF OnlyThread, SInv, StaysCleared, Cleared, LockFree, BusyPcs,
    HandlerPromise, SendPromise, NotLeft, FindExpired
<1>3. RegisteredIdsTaken' /\ PromisesKept' /\ TerminatesOnlyOnFailedSend'
  BY Zenon DEF OnlyThread, SInv, RegisteredIdsTaken, PromisesKept, Broken,
    Referenced, StartPcs, BusyPcs, TerminatesOnlyOnFailedSend, Running,
    FindExpired
<1> QED
  BY <1>1, <1>2, <1>3, Zenon
  DEF SInv

\* Failing for want of an ID keeps the invariant of one thread.
LEMMA NoIdSingle ==
    ASSUME NEW t \in Callers, OneCaller, IInv, SInv, TypeOK', NoId(t)
    PROVE  SInv'
<1> USE ConstantsAssumption
<1> USE DEF At, Goto, tableVars, tryVars, locals, callerVars, pollVars, netVars
<1> OnlyThread(t)
  BY Alone, Zenon
<1> Cur(t) \in Tries /\ pc[t] = "scan"
  BY Zenon DEF OnlyThread, NoId
<1> \A s \in Callers : Cur(s)' = Cur(s)
  BY Zenon DEF Cur, NoId, SetValue
<1>1. Twins' /\ InstallOwns' /\ StaysCleared' /\ HandlerPromise'
  BY Zenon DEF OnlyThread, SInv, Twins, InstallOwns, StaysCleared, Cleared,
    LockFree, BusyPcs, HandlerPromise, NoId, SetValue, AfterStart
<1>2. SendPromise' /\ NotLeft' /\ RegisteredIdsTaken'
  BY Zenon DEF OnlyThread, SInv, SendPromise, BusyPcs, NotLeft, RegisteredIdsTaken,
    NoId, SetValue, AfterStart
<1>3. LoopHolds'
  BY Zenon DEF OnlyThread, SInv, LoopHolds, BusyPcs, NoId, SetValue, AfterStart
<1>4. OwnSlot'
  BY Zenon DEF OnlyThread, SInv, OwnSlot, IInv, PrePending, PrePcs, NoId, SetValue,
    AfterStart
<1>5. PromisesKept'
  BY SMTT(30) DEF OnlyThread, SInv, PromisesKept, Broken, Referenced, StartPcs,
    BusyPcs, IInv, PrePending, PrePcs, NoId, SetValue, AfterStart
<1>6. TerminatesOnlyOnFailedSend'
  BY Zenon DEF OnlyThread, SInv, TerminatesOnlyOnFailedSend, Running, IInv,
    PrePending, PrePcs, NoId, SetValue, AfterStart
<1> QED
  BY <1>1, <1>2, <1>3, <1>4, <1>5, <1>6, Zenon
  DEF SInv

\* Clearing an expired slot keeps the invariant of one thread.
LEMMA ForceReleaseSingle ==
    ASSUME NEW t \in Callers, OneCaller, IInv, SInv, TypeOK', ForceRelease(t)
    PROVE  SInv'
<1> USE ConstantsAssumption
<1> USE DEF At, Goto, tableVars, tryVars, locals, callerVars, pollVars, netVars
<1> OnlyThread(t)
  BY Alone, Zenon
<1> Cur(t) \in Tries /\ pc[t] = "force"
  BY Zenon DEF OnlyThread, ForceRelease
<1> \A s \in Callers : Cur(s)' = Cur(s)
  BY Zenon DEF Cur, ForceRelease
<1> victim[t] \in Idx
  BY Zenon DEF IInv, Indices
<1>1. Twins' /\ LoopHolds' /\ InstallOwns' /\ OwnSlot'
  BY DEF OnlyThread, SInv, Twins, LoopHolds, BusyPcs, InstallOwns, OwnSlot,
    ForceRelease, ClearCallbacks, LockFree
<1>2. StaysCleared' /\ SendPromise' /\ NotLeft' /\ RegisteredIdsTaken'
  BY Zenon DEF OnlyThread, SInv, StaysCleared, Cleared, LockFree, BusyPcs,
    SendPromise, NotLeft, RegisteredIdsTaken, ForceRelease, ClearCallbacks
<1>3. TerminatesOnlyOnFailedSend'
  BY Zenon DEF OnlyThread, SInv, TerminatesOnlyOnFailedSend, Running, ForceRelease,
    ClearCallbacks, LockFree
<1>4. HandlerPromise'
  BY DEF OnlyThread, SInv, HandlerPromise, Twins, IInv, CallablePending,
    Callable, ForceRelease, ClearCallbacks, LockFree
<1>5. PromisesKept'
  BY DEF OnlyThread, SInv, PromisesKept, Broken, Referenced, StartPcs,
    BusyPcs, Twins, HandlerPromise, ForceRelease, ClearCallbacks, LockFree
<1> QED
  BY <1>1, <1>2, <1>3, <1>4, <1>5, Zenon
  DEF SInv

\* The error handler's set_value keeps the invariant of one thread.
LEMMA HandlerSetSingle ==
    ASSUME NEW t \in Callers, OneCaller, IInv, SInv, TypeOK', HandlerSet(t)
    PROVE  SInv'
<1> USE ConstantsAssumption
<1> USE DEF At, Goto, tableVars, tryVars, locals, callerVars, pollVars, netVars
<1> OnlyThread(t)
  BY Alone, Zenon
<1> Cur(t) \in Tries /\ pc[t] = "handlerSet"
  BY Zenon DEF OnlyThread, HandlerSet
<1> \A s \in Callers : Cur(s)' = Cur(s)
  BY Zenon DEF Cur, HandlerSet, SetValue
<1> victim[t] \in Idx
  BY Zenon DEF IInv, Indices
<1> handling[t] \in Tries /\ slot[handling[t]] = victim[t]
  BY Zenon DEF IInv, Indices
<1>1. Twins' /\ InstallOwns' /\ OwnSlot' /\ StaysCleared'
  BY Zenon DEF OnlyThread, SInv, Twins, InstallOwns, OwnSlot, StaysCleared, Cleared,
    LockFree, BusyPcs, HandlerSet, SetValue
<1>2. HandlerPromise' /\ SendPromise' /\ NotLeft' /\ RegisteredIdsTaken'
  BY SMTT(30) DEF OnlyThread, SInv, HandlerPromise, SendPromise, BusyPcs, NotLeft,
    RegisteredIdsTaken, HandlerSet, SetValue
<1>3. LoopHolds'
  BY Zenon DEF OnlyThread, SInv, LoopHolds, BusyPcs, HandlerSet, SetValue
<1>4. PromisesKept'
  BY Zenon DEF OnlyThread, SInv, PromisesKept, Broken, Referenced, StartPcs,
    BusyPcs, HandlerPromise, HandlerSet, SetValue
<1>5. TerminatesOnlyOnFailedSend'
  BY Zenon DEF OnlyThread, SInv, TerminatesOnlyOnFailedSend, Running,
    HandlerPromise, HandlerSet, SetValue
<1> QED
  BY <1>1, <1>2, <1>3, <1>4, <1>5, Zenon
  DEF SInv

\* The error handler's release of the ID keeps the invariant of one thread.
LEMMA HandlerReleaseSingle ==
    ASSUME NEW t \in Callers, OneCaller, IInv, SInv, TypeOK', HandlerRelease(t)
    PROVE  SInv'
<1> USE ConstantsAssumption
<1> USE DEF At, Goto, tableVars, tryVars, locals, callerVars, pollVars, netVars
<1> OnlyThread(t)
  BY Alone, Zenon
<1> Cur(t) \in Tries /\ pc[t] = "handlerRelease"
  BY Zenon DEF OnlyThread, HandlerRelease
<1> \A s \in Callers : Cur(s)' = Cur(s)
  BY Zenon DEF Cur, HandlerRelease
<1> victim[t] \in Idx
  BY Zenon DEF IInv, Indices
<1> handling[t] \in Tries /\ slot[handling[t]] = victim[t]
  BY Zenon DEF IInv, Indices
<1>1. Twins' /\ InstallOwns' /\ OwnSlot' /\ StaysCleared'
  BY Zenon DEF OnlyThread, SInv, Twins, InstallOwns, OwnSlot, StaysCleared, Cleared,
    LockFree, BusyPcs, HandlerRelease, Release
<1>2. HandlerPromise' /\ SendPromise' /\ NotLeft' /\ PromisesKept'
  BY DEF OnlyThread, SInv, HandlerPromise, SendPromise, BusyPcs, NotLeft,
    PromisesKept, Broken, Referenced, StartPcs, HandlerRelease, Release
<1>3. TerminatesOnlyOnFailedSend'
  BY Zenon DEF OnlyThread, SInv, TerminatesOnlyOnFailedSend, Running,
    HandlerRelease, Release
<1>4. LoopHolds'
  BY Zenon DEF OnlyThread, SInv, LoopHolds, BusyPcs, StaysCleared, Cleared,
    LockFree, IInv, Indices, HandlerRelease, Release
<1>5. RegisteredIdsTaken'
  BY Zenon DEF OnlyThread, SInv, RegisteredIdsTaken, StaysCleared, Cleared, IInv,
    Indices, HandlerRelease, Release
<1> QED
  BY <1>1, <1>2, <1>3, <1>4, <1>5, Zenon
  DEF SInv

\* The end of the error handler keeps the invariant of one thread.
LEMMA HandlerClearSingle ==
    ASSUME NEW t \in Callers, OneCaller, IInv, SInv, TypeOK', HandlerClear(t)
    PROVE  SInv'
<1> USE ConstantsAssumption
<1> USE DEF At, Goto, tableVars, tryVars, locals, callerVars, pollVars, netVars
<1> OnlyThread(t)
  BY Alone, Zenon
<1> Cur(t) \in Tries /\ pc[t] = "handlerClear"
  BY Zenon DEF OnlyThread, HandlerClear
<1> \A s \in Callers : Cur(s)' = Cur(s)
  BY Zenon DEF Cur, HandlerClear
<1> victim[t] \in Idx
  BY Zenon DEF IInv, Indices
<1> handling[t] \in Tries /\ slot[handling[t]] = victim[t]
  BY Zenon DEF IInv, Indices
<1>1. LoopHolds' /\ InstallOwns' /\ OwnSlot' /\ StaysCleared'
  BY Zenon DEF OnlyThread, SInv, LoopHolds, BusyPcs, InstallOwns, OwnSlot,
    StaysCleared, Cleared, LockFree, HandlerClear
<1>2. HandlerPromise' /\ SendPromise' /\ NotLeft' /\ RegisteredIdsTaken'
  BY ZenonT(30) DEF OnlyThread, SInv, HandlerPromise, SendPromise, BusyPcs, NotLeft,
    RegisteredIdsTaken, HandlerClear
<1>3. TerminatesOnlyOnFailedSend'
  BY Zenon DEF OnlyThread, SInv, TerminatesOnlyOnFailedSend, Running, HandlerClear
<1>4. Twins'
  BY SMTT(60) DEF OnlyThread, SInv, Twins, StaysCleared, Cleared, IInv, Indices,
    HandlerClear
<1>5. PromisesKept'
  BY SMTT(60) DEF OnlyThread, SInv, PromisesKept, Broken, Referenced, StartPcs,
    BusyPcs, HandlerPromise, Twins, StaysCleared, Cleared, IInv, Indices,
    HandlerClear
<1> QED
  BY <1>1, <1>2, <1>3, <1>4, <1>5, Zenon
  DEF SInv

\* Releasing an expired ID without handler keeps the invariant of one thread.
LEMMA ReleaseVictimSingle ==
    ASSUME NEW t \in Callers, OneCaller, IInv, SInv, TypeOK', ReleaseVictim(t)
    PROVE  SInv'
<1> USE ConstantsAssumption
<1> USE DEF At, Goto, tableVars, tryVars, locals, callerVars, pollVars, netVars
<1> OnlyThread(t)
  BY Alone, Zenon
<1> Cur(t) \in Tries /\ pc[t] = "forceRelease"
  BY Zenon DEF OnlyThread, ReleaseVictim
<1> \A s \in Callers : Cur(s)' = Cur(s)
  BY Zenon DEF Cur, ReleaseVictim
<1> victim[t] \in Idx
  BY Zenon DEF IInv, Indices
<1>1. Twins' /\ InstallOwns' /\ OwnSlot' /\ StaysCleared'
  BY Zenon DEF OnlyThread, SInv, Twins, InstallOwns, OwnSlot, StaysCleared, Cleared,
    LockFree, BusyPcs, ReleaseVictim, Release
<1>2. HandlerPromise' /\ SendPromise' /\ NotLeft' /\ PromisesKept'
  BY SMTT(30) DEF OnlyThread, SInv, HandlerPromise, SendPromise, BusyPcs, NotLeft,
    PromisesKept, Broken, Referenced, StartPcs, ReleaseVictim, Release
<1>3. TerminatesOnlyOnFailedSend'
  BY Zenon DEF OnlyThread, SInv, TerminatesOnlyOnFailedSend, Running, ReleaseVictim,
    Release
<1>4. LoopHolds'
  BY Zenon DEF OnlyThread, SInv, LoopHolds, BusyPcs, StaysCleared, Cleared,
    LockFree, ReleaseVictim, Release
<1>5. RegisteredIdsTaken'
  BY Zenon DEF OnlyThread, SInv, RegisteredIdsTaken, StaysCleared, Cleared,
    ReleaseVictim, Release
<1> QED
  BY <1>1, <1>2, <1>3, <1>4, <1>5, Zenon
  DEF SInv

\* Registering the callbacks keeps the invariant of one thread.
LEMMA InstallSingle ==
    ASSUME NEW t \in Callers, OneCaller, IInv, SInv, TypeOK', Install(t)
    PROVE  SInv'
<1> USE ConstantsAssumption
<1> USE DEF At, Goto, tableVars, tryVars, locals, callerVars, pollVars, netVars
<1> OnlyThread(t)
  BY Alone, Zenon
<1> Cur(t) \in Tries /\ pc[t] = "install"
  BY Zenon DEF OnlyThread, Install
<1> \A s \in Callers : Cur(s)' = Cur(s)
  BY Zenon DEF Cur, Install
<1> slot[Cur(t)] \in Idx
  BY Zenon DEF IInv, Indices
<1>1. Twins' /\ LoopHolds' /\ InstallOwns' /\ OwnSlot'
  BY DEF OnlyThread, SInv, Twins, LoopHolds, BusyPcs, InstallOwns, OwnSlot,
    Install, LockFree
<1>2. StaysCleared' /\ HandlerPromise' /\ SendPromise' /\ NotLeft'
  BY ZenonT(30) DEF OnlyThread, SInv, StaysCleared, Cleared, LockFree, BusyPcs,
    HandlerPromise, SendPromise, NotLeft, Install
<1>3. TerminatesOnlyOnFailedSend'
  BY Zenon DEF OnlyThread, SInv, TerminatesOnlyOnFailedSend, Running, Install,
    LockFree
<1>4. RegisteredIdsTaken'
  BY Zenon DEF OnlyThread, SInv, RegisteredIdsTaken, InstallOwns, Install, LockFree
<1>5. PromisesKept'
  BY DEF OnlyThread, SInv, PromisesKept, Broken, Referenced, StartPcs,
    BusyPcs, InstallOwns, Twins, Install, LockFree
<1> QED
  BY <1>1, <1>2, <1>3, <1>4, <1>5, Zenon
  DEF SInv

\* A command that was sent keeps the invariant of one thread.
LEMMA SendOkSingle ==
    ASSUME NEW t \in Callers, OneCaller, IInv, SInv, TypeOK', SendOk(t)
    PROVE  SInv'
<1> USE ConstantsAssumption
<1> USE DEF At, Goto, tableVars, tryVars, locals, callerVars, pollVars, netVars
<1> OnlyThread(t)
  BY Alone, Zenon
<1> Cur(t) \in Tries /\ pc[t] = "send"
  BY Zenon DEF OnlyThread, SendOk
<1> \A s \in Callers : Cur(s)' = Cur(s)
  BY Zenon DEF Cur, SendOk
<1> slot[Cur(t)] \in Idx
  BY Zenon DEF IInv, Indices
<1>1. Twins' /\ LoopHolds' /\ InstallOwns' /\ OwnSlot'
  BY Zenon DEF OnlyThread, SInv, Twins, LoopHolds, BusyPcs, InstallOwns, OwnSlot,
    SendOk, AfterStart
<1>2. StaysCleared' /\ HandlerPromise' /\ SendPromise' /\ NotLeft'
  BY Zenon DEF OnlyThread, SInv, StaysCleared, Cleared, LockFree, BusyPcs,
    HandlerPromise, SendPromise, NotLeft, SendOk, AfterStart
<1>3. RegisteredIdsTaken' /\ TerminatesOnlyOnFailedSend'
  BY Zenon DEF OnlyThread, SInv, RegisteredIdsTaken, TerminatesOnlyOnFailedSend,
    Running, SendOk, AfterStart
<1>4. PromisesKept'
  BY ZenonT(30) DEF OnlyThread, SInv, PromisesKept, Broken, Referenced, StartPcs,
    BusyPcs, SendPromise, SendOk, AfterStart
<1> QED
  BY <1>1, <1>2, <1>3, <1>4, Zenon
  DEF SInv

\* A command that could not be sent keeps the invariant of one thread.
LEMMA SendFailSingle ==
    ASSUME NEW t \in Callers, OneCaller, IInv, SInv, TypeOK', SendFail(t)
    PROVE  SInv'
<1> USE ConstantsAssumption
<1> USE DEF At, Goto, tableVars, tryVars, locals, callerVars, pollVars, netVars
<1> OnlyThread(t)
  BY Alone, Zenon
<1> Cur(t) \in Tries /\ pc[t] = "send"
  BY Zenon DEF OnlyThread, SendFail
<1> \A s \in Callers : Cur(s)' = Cur(s)
  BY Zenon DEF Cur, SendFail
<1> slot[Cur(t)] \in Idx
  BY Zenon DEF IInv, Indices
<1>1. Twins' /\ LoopHolds' /\ InstallOwns' /\ OwnSlot'
  BY Zenon DEF OnlyThread, SInv, Twins, LoopHolds, BusyPcs, InstallOwns, OwnSlot,
    SendFail
<1>2. StaysCleared' /\ HandlerPromise' /\ SendPromise' /\ NotLeft'
  BY Zenon DEF OnlyThread, SInv, StaysCleared, Cleared, LockFree, BusyPcs,
    HandlerPromise, SendPromise, NotLeft, SendFail
<1>3. RegisteredIdsTaken' /\ PromisesKept' /\ TerminatesOnlyOnFailedSend'
  BY Zenon DEF OnlyThread, SInv, RegisteredIdsTaken, PromisesKept, Broken,
    Referenced, StartPcs, BusyPcs, TerminatesOnlyOnFailedSend, Running,
    SendFail
<1> QED
  BY <1>1, <1>2, <1>3, Zenon
  DEF SInv

\* Unregistering after a failed send keeps the invariant of one thread.
LEMMA SendFailClearSingle ==
    ASSUME NEW t \in Callers, OneCaller, IInv, SInv, TypeOK', SendFailClear(t)
    PROVE  SInv'
<1> USE ConstantsAssumption
<1> USE DEF At, Goto, tableVars, tryVars, locals, callerVars, pollVars, netVars
<1> OnlyThread(t)
  BY Alone, Zenon
<1> Cur(t) \in Tries /\ pc[t] = "sendFailed"
  BY Zenon DEF OnlyThread, SendFailClear
<1> \A s \in Callers : Cur(s)' = Cur(s)
  BY Zenon DEF Cur, SendFailClear
<1> slot[Cur(t)] \in Idx
  BY Zenon DEF IInv, Indices
<1>1. Twins' /\ LoopHolds' /\ InstallOwns' /\ OwnSlot'
  BY DEF OnlyThread, SInv, Twins, LoopHolds, BusyPcs, InstallOwns, OwnSlot,
    SendFailClear, ClearCallbacks, LockFree
<1>2. StaysCleared' /\ HandlerPromise' /\ SendPromise' /\ NotLeft'
  BY ZenonT(30) DEF OnlyThread, SInv, StaysCleared, Cleared, LockFree, BusyPcs,
    HandlerPromise, SendPromise, NotLeft, SendFailClear, ClearCallbacks
<1>3. RegisteredIdsTaken' /\ TerminatesOnlyOnFailedSend'
  BY Zenon DEF OnlyThread, SInv, RegisteredIdsTaken, TerminatesOnlyOnFailedSend,
    Running, SendFailClear, ClearCallbacks, LockFree
<1>4. PromisesKept'
  BY DEF OnlyThread, SInv, PromisesKept, Broken, Referenced, StartPcs,
    BusyPcs, OwnSlot, Twins, SendFailClear, ClearCallbacks, LockFree
<1> QED
  BY <1>1, <1>2, <1>3, <1>4, Zenon
  DEF SInv

\* Setting the promise after a failed send keeps the invariant of one thread.
LEMMA SendFailSetSingle ==
    ASSUME NEW t \in Callers, OneCaller, IInv, SInv, TypeOK', SendFailSet(t)
    PROVE  SInv'
<1> USE ConstantsAssumption
<1> USE DEF At, Goto, tableVars, tryVars, locals, callerVars, pollVars, netVars
<1> OnlyThread(t)
  BY Alone, Zenon
<1> Cur(t) \in Tries /\ pc[t] = "sendFailedSet"
  BY Zenon DEF OnlyThread, SendFailSet
<1> \A s \in Callers : Cur(s)' = Cur(s)
  BY Zenon DEF Cur, SendFailSet, SetValue
<1> slot[Cur(t)] \in Idx
  BY Zenon DEF IInv, Indices
<1>1. Twins' /\ InstallOwns' /\ OwnSlot' /\ StaysCleared'
  BY Zenon DEF OnlyThread, SInv, Twins, InstallOwns, OwnSlot, StaysCleared, Cleared,
    LockFree, BusyPcs, SendFailSet, SetValue
<1>2. HandlerPromise' /\ SendPromise' /\ NotLeft' /\ RegisteredIdsTaken'
  BY Zenon DEF OnlyThread, SInv, HandlerPromise, SendPromise, BusyPcs, NotLeft,
    RegisteredIdsTaken, SendFailSet, SetValue
<1>3. PromisesKept' /\ TerminatesOnlyOnFailedSend'
  BY Zenon DEF OnlyThread, SInv, PromisesKept, Broken, Referenced, StartPcs,
    BusyPcs, TerminatesOnlyOnFailedSend, Running, SendFailSet, SetValue
<1>4. LoopHolds'
  BY Zenon DEF OnlyThread, SInv, LoopHolds, BusyPcs, SendFailSet, SetValue
<1> QED
  BY <1>1, <1>2, <1>3, <1>4, Zenon
  DEF SInv

\* Releasing the ID after a failed send keeps the invariant of one thread.
LEMMA SendFailReleaseSingle ==
    ASSUME NEW t \in Callers, OneCaller, IInv, SInv, TypeOK', SendFailRelease(t)
    PROVE  SInv'
<1> USE ConstantsAssumption
<1> USE DEF At, Goto, tableVars, tryVars, locals, callerVars, pollVars, netVars
<1> OnlyThread(t)
  BY Alone, Zenon
<1> Cur(t) \in Tries /\ pc[t] = "sendFailedRelease"
  BY Zenon DEF OnlyThread, SendFailRelease
<1> \A s \in Callers : Cur(s)' = Cur(s)
  BY Zenon DEF Cur, SendFailRelease
<1> slot[Cur(t)] \in Idx
  BY Zenon DEF IInv, Indices
<1>1. Twins' /\ InstallOwns' /\ StaysCleared' /\ HandlerPromise'
  BY Zenon DEF OnlyThread, SInv, Twins, InstallOwns, StaysCleared, Cleared,
    LockFree, BusyPcs, HandlerPromise, SendFailRelease, Release, AfterStart
<1>2. SendPromise' /\ NotLeft' /\ TerminatesOnlyOnFailedSend'
  BY Zenon DEF OnlyThread, SInv, SendPromise, BusyPcs, NotLeft,
    TerminatesOnlyOnFailedSend, Running, SendFailRelease, Release, AfterStart
<1>3. LoopHolds'
  BY Zenon DEF OnlyThread, SInv, LoopHolds, BusyPcs, StaysCleared, Cleared,
    LockFree, SendFailRelease, Release, AfterStart
<1>4. OwnSlot'
  BY Zenon DEF OnlyThread, SInv, OwnSlot, SendPromise, SendFailRelease, Release,
    AfterStart
<1>5. RegisteredIdsTaken'
  BY Zenon DEF OnlyThread, SInv, RegisteredIdsTaken, StaysCleared, Cleared,
    SendFailRelease, Release, AfterStart
<1>6. PromisesKept'
  BY DEF OnlyThread, SInv, PromisesKept, Broken, Referenced, StartPcs,
    BusyPcs, SendPromise, SendFailRelease, Release, AfterStart
<1> QED
  BY <1>1, <1>2, <1>3, <1>4, <1>5, <1>6, Zenon
  DEF SInv

\* A wait that finds the future ready keeps the invariant of one thread.
LEMMA WaitReadySingle ==
    ASSUME NEW t \in Callers, OneCaller, IInv, SInv, TypeOK', WaitReady(t)
    PROVE  SInv'
<1> USE ConstantsAssumption
<1> USE DEF At, Goto, tableVars, tryVars, locals, callerVars, pollVars, netVars
<1> OnlyThread(t)
  BY Alone, Zenon
<1> Cur(t) \in Tries /\ pc[t] = "wait"
  BY Zenon DEF OnlyThread, WaitReady
<1> \A s \in Callers : Cur(s)' = Cur(s)
  BY Zenon DEF Cur, WaitReady
<1>1. Twins' /\ LoopHolds' /\ InstallOwns' /\ OwnSlot'
  BY Zenon DEF OnlyThread, SInv, Twins, LoopHolds, BusyPcs, InstallOwns, OwnSlot,
    WaitReady, Ready
<1>2. StaysCleared' /\ HandlerPromise' /\ SendPromise' /\ NotLeft'
  BY Zenon DEF OnlyThread, SInv, StaysCleared, Cleared, LockFree, BusyPcs,
    HandlerPromise, SendPromise, NotLeft, WaitReady, Ready
<1>3. RegisteredIdsTaken' /\ PromisesKept'
  BY Zenon DEF OnlyThread, SInv, RegisteredIdsTaken, PromisesKept, Broken,
    Referenced, StartPcs, BusyPcs, WaitReady, Ready
<1>4. TerminatesOnlyOnFailedSend'
  BY Zenon DEF OnlyThread, SInv, TerminatesOnlyOnFailedSend, Running, PromisesKept,
    Broken, NotLeft, WaitReady, Ready
<1> QED
  BY <1>1, <1>2, <1>3, <1>4, Zenon
  DEF SInv

\* A wait that gives up keeps the invariant of one thread.
LEMMA WaitTimeoutSingle ==
    ASSUME NEW t \in Callers, OneCaller, IInv, SInv, TypeOK', WaitTimeout(t)
    PROVE  SInv'
<1> USE ConstantsAssumption
<1> USE DEF At, Goto, tableVars, tryVars, locals, callerVars, pollVars, netVars
<1> OnlyThread(t)
  BY Alone, Zenon
<1> Cur(t) \in Tries /\ pc[t] = "wait"
  BY Zenon DEF OnlyThread, WaitTimeout
<1> \A s \in Callers : Cur(s)' = Cur(s)
  BY Zenon DEF Cur, WaitTimeout
<1>1. Twins' /\ LoopHolds' /\ InstallOwns' /\ StaysCleared'
  BY Zenon DEF OnlyThread, SInv, Twins, LoopHolds, BusyPcs, InstallOwns,
    StaysCleared, Cleared, LockFree, WaitTimeout, Ready
<1>2. HandlerPromise' /\ SendPromise' /\ NotLeft' /\ RegisteredIdsTaken'
  BY Zenon DEF OnlyThread, SInv, HandlerPromise, SendPromise, BusyPcs, NotLeft,
    RegisteredIdsTaken, WaitTimeout, Ready
<1>3. PromisesKept' /\ TerminatesOnlyOnFailedSend'
  BY Zenon DEF OnlyThread, SInv, PromisesKept, Broken, Referenced, StartPcs,
    BusyPcs, TerminatesOnlyOnFailedSend, Running, WaitTimeout, Ready
<1>4. OwnSlot'
  BY Zenon DEF OnlyThread, SInv, OwnSlot, Broken, WaitTimeout, Ready
<1> QED
  BY <1>1, <1>2, <1>3, <1>4, Zenon
  DEF SInv

\* A Python read that gives up keeps the invariant of one thread.
LEMMA PythonTimeoutSingle ==
    ASSUME NEW t \in Callers, OneCaller, IInv, SInv, TypeOK', PythonTimeout(t)
    PROVE  SInv'
<1> USE ConstantsAssumption
<1> USE DEF At, Goto, tableVars, tryVars, locals, callerVars, pollVars, netVars
<1> OnlyThread(t)
  BY Alone, Zenon
<1> Cur(t) \in Tries /\ pc[t] = "wait"
  BY Zenon DEF OnlyThread, PythonTimeout
<1> \A s \in Callers : Cur(s)' = Cur(s)
  BY Zenon DEF Cur, PythonTimeout
<1>1. Twins' /\ LoopHolds' /\ InstallOwns' /\ OwnSlot'
  BY Zenon DEF OnlyThread, SInv, Twins, LoopHolds, BusyPcs, InstallOwns, OwnSlot,
    PythonTimeout, Ready
<1>2. StaysCleared' /\ HandlerPromise' /\ SendPromise' /\ NotLeft'
  BY Zenon DEF OnlyThread, SInv, StaysCleared, Cleared, LockFree, BusyPcs,
    HandlerPromise, SendPromise, NotLeft, PythonTimeout, Ready
<1>3. RegisteredIdsTaken' /\ PromisesKept' /\ TerminatesOnlyOnFailedSend'
  BY Zenon DEF OnlyThread, SInv, RegisteredIdsTaken, PromisesKept, Broken,
    Referenced, StartPcs, BusyPcs, TerminatesOnlyOnFailedSend, Running,
    PythonTimeout, Ready
<1> QED
  BY <1>1, <1>2, <1>3, Zenon
  DEF SInv

\* Unregistering a cancelled try keeps the invariant of one thread.
LEMMA CancelSingle ==
    ASSUME NEW t \in Callers, OneCaller, IInv, SInv, TypeOK', Cancel(t)
    PROVE  SInv'
<1> USE ConstantsAssumption
<1> USE DEF At, Goto, tableVars, tryVars, locals, callerVars, pollVars, netVars
<1> OnlyThread(t)
  BY Alone, Zenon
<1> Cur(t) \in Tries /\ pc[t] = "cancel"
  BY Zenon DEF OnlyThread, Cancel
<1> \A s \in Callers : Cur(s)' = Cur(s)
  BY Zenon DEF Cur, Cancel
<1> slot[Cur(t)] \in Idx
  BY Zenon DEF IInv, Indices
<1>1. Twins' /\ LoopHolds' /\ InstallOwns' /\ OwnSlot'
  BY SMTT(30) DEF OnlyThread, SInv, Twins, LoopHolds, BusyPcs, InstallOwns, OwnSlot,
    Cancel, ClearCallbacks, LockFree
<1>2. StaysCleared' /\ HandlerPromise' /\ SendPromise' /\ NotLeft'
  BY ZenonT(30) DEF OnlyThread, SInv, StaysCleared, Cleared, LockFree, BusyPcs,
    HandlerPromise, SendPromise, NotLeft, Cancel, ClearCallbacks
<1>3. RegisteredIdsTaken' /\ TerminatesOnlyOnFailedSend'
  BY Zenon DEF OnlyThread, SInv, RegisteredIdsTaken, TerminatesOnlyOnFailedSend,
    Running, Cancel, ClearCallbacks, LockFree
<1>4. PromisesKept'
  BY SMTT(30) DEF OnlyThread, SInv, PromisesKept, Broken, Referenced, StartPcs,
    BusyPcs, OwnSlot, Twins, Cancel, ClearCallbacks, LockFree
<1> QED
  BY <1>1, <1>2, <1>3, <1>4, Zenon
  DEF SInv

\* Receiving a reply keeps the invariant of one thread.
LEMMA PollReceiveSingle ==
    ASSUME NEW t \in Callers, OneCaller, IInv, SInv, TypeOK', PollReceive
    PROVE  SInv'
<1> USE ConstantsAssumption
<1> USE DEF At, Goto, tableVars, tryVars, locals, callerVars, pollVars, netVars
<1> OnlyThread(t)
  BY Alone, Zenon
<1> \A s \in Callers : Cur(s)' = Cur(s)
  BY Zenon DEF Cur, PollReceive
<1>1. Twins' /\ LoopHolds' /\ InstallOwns' /\ OwnSlot'
  BY Zenon DEF OnlyThread, SInv, Twins, LoopHolds, BusyPcs, InstallOwns, OwnSlot,
    PollReceive
<1>2. StaysCleared' /\ HandlerPromise' /\ SendPromise' /\ NotLeft'
  BY SMTT(30) DEF OnlyThread, SInv, StaysCleared, Cleared, LockFree, BusyPcs,
    HandlerPromise, SendPromise, NotLeft, PollReceive
<1>3. RegisteredIdsTaken' /\ PromisesKept' /\ TerminatesOnlyOnFailedSend'
  BY Zenon DEF OnlyThread, SInv, RegisteredIdsTaken, PromisesKept, Broken,
    Referenced, StartPcs, BusyPcs, TerminatesOnlyOnFailedSend, Running,
    PollReceive
<1> QED
  BY <1>1, <1>2, <1>3, Zenon
  DEF SInv

\* The end of the loop keeps the invariant of one thread.
LEMMA LoopStopsSingle ==
    ASSUME NEW t \in Callers, OneCaller, IInv, SInv, TypeOK', LoopStops
    PROVE  SInv'
<1> USE ConstantsAssumption
<1> USE DEF At, Goto, tableVars, tryVars, locals, callerVars, pollVars, netVars
<1> OnlyThread(t)
  BY Alone, Zenon
<1> \A s \in Callers : Cur(s)' = Cur(s)
  BY Zenon DEF Cur, LoopStops
<1>1. Twins' /\ LoopHolds' /\ InstallOwns' /\ OwnSlot'
  BY Zenon DEF OnlyThread, SInv, Twins, LoopHolds, BusyPcs, InstallOwns, OwnSlot,
    LoopStops
<1>2. StaysCleared' /\ HandlerPromise' /\ SendPromise' /\ NotLeft'
  BY SMTT(30) DEF OnlyThread, SInv, StaysCleared, Cleared, LockFree, BusyPcs,
    HandlerPromise, SendPromise, NotLeft, LoopStops
<1>3. RegisteredIdsTaken' /\ PromisesKept' /\ TerminatesOnlyOnFailedSend'
  BY Zenon DEF OnlyThread, SInv, RegisteredIdsTaken, PromisesKept, Broken,
    Referenced, StartPcs, BusyPcs, TerminatesOnlyOnFailedSend, Running,
    LoopStops
<1> QED
  BY <1>1, <1>2, <1>3, Zenon
  DEF SInv

\* Moving a callback out of the table keeps the invariant of one thread.
LEMMA PollDispatchSingle ==
    ASSUME NEW t \in Callers, OneCaller, IInv, SInv, TypeOK', PollDispatch
    PROVE  SInv'
<1> USE ConstantsAssumption
<1> USE DEF At, Goto, tableVars, tryVars, locals, callerVars, pollVars, netVars
<1> OnlyThread(t)
  BY Alone, Zenon
<1> \A s \in Callers : Cur(s)' = Cur(s)
  BY Zenon DEF Cur, PollDispatch
<1> pollIdx \in Idx
  BY Zenon DEF IInv, Placement, BusyPcs, PollDispatch
<1>1. Twins' /\ HandlerPromise' /\ NotLeft' /\ RegisteredIdsTaken'
  BY DEF OnlyThread, SInv, Twins, HandlerPromise, NotLeft, RegisteredIdsTaken,
    PollDispatch, ClearCallbacks
<1>2. TerminatesOnlyOnFailedSend'
  BY Zenon DEF OnlyThread, SInv, TerminatesOnlyOnFailedSend, Running, PollDispatch,
    ClearCallbacks
<1>3. LoopHolds'
  BY DEF OnlyThread, SInv, LoopHolds, BusyPcs, RegisteredIdsTaken,
    PollDispatch, ClearCallbacks
<1>4. InstallOwns'
  BY SMTT(60) DEF OnlyThread, SInv, InstallOwns, IInv, Indices, PollDispatch,
    ClearCallbacks
<1>5. OwnSlot'
  BY SMTT(60) DEF OnlyThread, SInv, OwnSlot, IInv, Indices, PollDispatch,
    ClearCallbacks
<1>6. StaysCleared'
  BY SMTT(60) DEF OnlyThread, SInv, StaysCleared, Cleared, LockFree, BusyPcs, IInv,
    Indices, PollDispatch, ClearCallbacks
<1>7. SendPromise'
  BY SMTT(60) DEF OnlyThread, SInv, SendPromise, BusyPcs, IInv, Indices, PollDispatch,
    ClearCallbacks
<1>8. PromisesKept'
  BY DEF OnlyThread, SInv, PromisesKept, Broken, Referenced, StartPcs,
    BusyPcs, Twins, PollDispatch, ClearCallbacks
<1> QED
  BY <1>1, <1>2, <1>3, <1>4, <1>5, <1>6, <1>7, <1>8, Zenon
  DEF SInv

\* Running on_complete keeps the invariant of one thread.
LEMMA OnCompleteSingle ==
    ASSUME NEW t \in Callers, OneCaller, IInv, SInv, TypeOK', OnComplete
    PROVE  SInv'
<1> USE ConstantsAssumption
<1> USE DEF At, Goto, tableVars, tryVars, locals, callerVars, pollVars, netVars
<1> OnlyThread(t)
  BY Alone, Zenon
<1> \A s \in Callers : Cur(s)' = Cur(s)
  BY Zenon DEF Cur, OnComplete
<1> pollTry \in Tries
  BY Zenon DEF OnlyThread, BusyPcs, OnComplete
<1>1. Twins' /\ LoopHolds' /\ InstallOwns' /\ OwnSlot'
  BY Zenon DEF OnlyThread, SInv, Twins, LoopHolds, BusyPcs, InstallOwns, OwnSlot,
    OnComplete
<1>2. StaysCleared' /\ HandlerPromise' /\ SendPromise' /\ NotLeft'
  BY SMTT(60) DEF OnlyThread, SInv, StaysCleared, Cleared, LockFree, BusyPcs,
    HandlerPromise, SendPromise, NotLeft, OnComplete
<1>3. RegisteredIdsTaken' /\ PromisesKept' /\ TerminatesOnlyOnFailedSend'
  BY Zenon DEF OnlyThread, SInv, RegisteredIdsTaken, PromisesKept, Broken,
    Referenced, StartPcs, BusyPcs, TerminatesOnlyOnFailedSend, Running,
    OnComplete
<1> QED
  BY <1>1, <1>2, <1>3, Zenon
  DEF SInv

\* Setting a promise from the loop keeps the invariant of one thread.
LEMMA PollSetSingle ==
    ASSUME NEW t \in Callers, OneCaller, IInv, SInv, TypeOK', PollSet
    PROVE  SInv'
<1> USE ConstantsAssumption
<1> USE DEF At, Goto, tableVars, tryVars, locals, callerVars, pollVars, netVars
<1> OnlyThread(t)
  BY Alone, Zenon
<1> \A s \in Callers : Cur(s)' = Cur(s)
  BY Zenon DEF Cur, PollSet, SetValue
<1> pollTry \in Tries
  BY Zenon DEF OnlyThread, BusyPcs, PollSet
<1>1. Twins' /\ InstallOwns'
  BY Zenon DEF OnlyThread, SInv, Twins, InstallOwns, PollSet, SetValue
<1>2. OwnSlot' /\ StaysCleared'
  BY SMTT(30) DEF OnlyThread, SInv, OwnSlot, StaysCleared, Cleared, LockFree, BusyPcs,
    PollSet, SetValue
<1>3. SendPromise' /\ NotLeft'
  BY DEF OnlyThread, SInv, SendPromise, BusyPcs, NotLeft, PollSet, SetValue
<1>4. RegisteredIdsTaken' /\ PromisesKept'
  BY Zenon DEF OnlyThread, SInv, RegisteredIdsTaken, PromisesKept, Broken,
    Referenced, StartPcs, BusyPcs, PollSet, SetValue
<1>5. LoopHolds'
  BY Zenon DEF OnlyThread, SInv, LoopHolds, BusyPcs, IInv, SetPending, PollSet,
    SetValue
<1>6. HandlerPromise'
  BY SMTT(60) DEF OnlyThread, SInv, HandlerPromise, IInv, Settled, NotCallable,
    Indices, BusyPcs, PollSet, SetValue
<1>7. TerminatesOnlyOnFailedSend'
  BY Zenon DEF OnlyThread, SInv, TerminatesOnlyOnFailedSend, Running, IInv,
    SetPending, PollSet, SetValue
<1> QED
  BY <1>1, <1>2, <1>3, <1>4, <1>5, <1>6, <1>7, Zenon
  DEF SInv

\* Releasing an ID from the loop keeps the invariant of one thread.
LEMMA PollReleaseSingle ==
    ASSUME NEW t \in Callers, OneCaller, IInv, SInv, TypeOK', PollRelease
    PROVE  SInv'
<1> USE ConstantsAssumption
<1> USE DEF At, Goto, tableVars, tryVars, locals, callerVars, pollVars, netVars
<1> OnlyThread(t)
  BY Alone, Zenon
<1> \A s \in Callers : Cur(s)' = Cur(s)
  BY Zenon DEF Cur, PollRelease
<1> pollIdx \in Idx
  BY Zenon DEF IInv, Placement, BusyPcs, PollRelease
<1> pollTry \in Tries
  BY Zenon DEF OnlyThread, BusyPcs, PollRelease
<1>1. Twins' /\ LoopHolds' /\ OwnSlot' /\ StaysCleared'
  BY SMTT(30) DEF OnlyThread, SInv, Twins, LoopHolds, BusyPcs, OwnSlot, StaysCleared,
    Cleared, LockFree, PollRelease, Release
<1>2. HandlerPromise' /\ SendPromise' /\ NotLeft' /\ PromisesKept'
  BY SMTT(30) DEF OnlyThread, SInv, HandlerPromise, SendPromise, BusyPcs, NotLeft,
    PromisesKept, Broken, Referenced, StartPcs, PollRelease, Release
<1>3. TerminatesOnlyOnFailedSend'
  BY Zenon DEF OnlyThread, SInv, TerminatesOnlyOnFailedSend, Running, PollRelease,
    Release
<1>4. InstallOwns'
  BY SMTT(60) DEF OnlyThread, SInv, InstallOwns, IInv, Placement, Indices, BusyPcs,
    PollRelease, Release
<1>5. RegisteredIdsTaken'
  BY Zenon DEF OnlyThread, SInv, RegisteredIdsTaken, LoopHolds, IInv, Placement,
    BusyPcs, PollRelease, Release
<1> QED
  BY <1>1, <1>2, <1>3, <1>4, <1>5, Zenon
  DEF SInv

\* The end of a dispatch keeps the invariant of one thread.
LEMMA PollUnlockSingle ==
    ASSUME NEW t \in Callers, OneCaller, IInv, SInv, TypeOK', PollUnlock
    PROVE  SInv'
<1> USE ConstantsAssumption
<1> USE DEF At, Goto, tableVars, tryVars, locals, callerVars, pollVars, netVars
<1> OnlyThread(t)
  BY Alone, Zenon
<1> \A s \in Callers : Cur(s)' = Cur(s)
  BY Zenon DEF Cur, PollUnlock
<1> pollIdx \in Idx
  BY Zenon DEF IInv, Placement, BusyPcs, PollUnlock
<1> pollTry \in Tries
  BY Zenon DEF OnlyThread, BusyPcs, PollUnlock
<1>1. LoopHolds' /\ InstallOwns' /\ OwnSlot' /\ StaysCleared'
  BY ZenonT(30) DEF OnlyThread, SInv, LoopHolds, BusyPcs, InstallOwns, OwnSlot,
    StaysCleared, Cleared, LockFree, PollUnlock
<1>2. HandlerPromise' /\ NotLeft'
      /\ RegisteredIdsTaken' /\ TerminatesOnlyOnFailedSend'
  BY Zenon DEF OnlyThread, SInv, HandlerPromise, NotLeft, RegisteredIdsTaken,
    TerminatesOnlyOnFailedSend, Running, PollUnlock
<1>3. Twins'
  BY Zenon DEF OnlyThread, SInv, Twins, LoopHolds, IInv, Placement, BusyPcs,
    PollUnlock
<1>4. SendPromise'
  BY Zenon DEF OnlyThread, SInv, SendPromise, BusyPcs, LoopHolds, PollUnlock
<1>5. PromisesKept'
  BY SMTT(60) DEF OnlyThread, SInv, PromisesKept, Broken, Referenced, StartPcs,
    BusyPcs, LoopHolds, Twins, IInv, Placement, PollUnlock
<1> QED
  BY <1>1, <1>2, <1>3, <1>4, <1>5, Zenon
  DEF SInv

\* Entering the start function for a try with no history keeps the invariant
\* of one thread, for a new call and for another try of a cancelled one.
LEMMA NewTrySingle ==
    ASSUME NEW t \in Callers, OneCaller, IInv, SInv,
           NEW a \in Tries, NEW k, promise[a] = "none", NewTry(a, k),
           Cur(t)' = a, pc'[t] = "scan",
           \/ pc[t] = "idle" /\ UNCHANGED <<available, expired>>
           \/ pc[t] = "cancelRelease" /\ Release(slot[Cur(t)]),
           UNCHANGED <<replyCb, errorCb, victim, handling, left, pollVars,
                       netVars, process>>
    PROVE  SInv'
<1> USE DEF pollVars, netVars
<1> OnlyThread(t)
  BY Alone, Zenon
<1>1. /\ promise'[a] = "pending" /\ slot' = slot
      /\ \A b \in Tries : b # a => promise'[b] = promise[b]
  BY Zenon DEF OnlyThread, NewTry
<1>2. a \notin left /\ (pollPc \in BusyPcs => pollTry # a)
  BY Zenon DEF IInv, UnbornUnknown, Unborn
<1>3. pc[t] = "cancelRelease" => slot[Cur(t)] \in Idx /\ Cleared(slot[Cur(t)])
  BY Zenon DEF IInv, Indices, SInv, StaysCleared
<1>4. Twins' /\ InstallOwns' /\ OwnSlot' /\ StaysCleared' /\ NotLeft'
  BY <1>1, <1>2, Zenon
  DEF OnlyThread, SInv, Twins, InstallOwns, OwnSlot, StaysCleared, NotLeft
<1>5. HandlerPromise' /\ SendPromise' /\ TerminatesOnlyOnFailedSend'
  BY <1>1, Zenon
  DEF OnlyThread, SInv, HandlerPromise, SendPromise,
    TerminatesOnlyOnFailedSend, Running
<1>6. LoopHolds'
  BY <1>1, <1>2, <1>3, Zenon
  DEF OnlyThread, SInv, LoopHolds, BusyPcs, Cleared, LockFree, Release
<1>7. RegisteredIdsTaken'
  BY <1>3, Zenon DEF SInv, RegisteredIdsTaken, Cleared, Release
<1>8. PromisesKept'
  BY <1>1, Zenon
  DEF OnlyThread, SInv, PromisesKept, Broken, Referenced, StartPcs, BusyPcs
<1> QED
  BY <1>4, <1>5, <1>6, <1>7, <1>8, Zenon DEF SInv

\* A call that begins keeps the invariant of one thread.
LEMMA StartOpSingle ==
    ASSUME NEW t \in Callers, OneCaller, IInv, SInv, NEW k \in Kinds,
           StartOp(t, k)
    PROVE  SInv'
<1> USE DEF IInv
<1> DEFINE a == <<t, op[t] + 1, 1>>
<1>1. a \in Tries
  BY ConstantsAssumption, NumTriesPositive, SMTT(30) DEF Tries, TypeOK, StartOp
<1>2. promise[a] = "none"
  BY ConstantsAssumption, NumTriesPositive, SMTT(60) DEF Ahead, TypeOK, StartOp
<1>3. Cur(t)' = a
  BY Zenon DEF Cur, StartOp, TypeOK
<1>4. /\ pc[t] = "idle" /\ pc'[t] = "scan" /\ NewTry(a, k)
      /\ UNCHANGED <<tableVars, victim, handling, left, pollVars, netVars,
                     process>>
  BY Zenon DEF StartOp, At, Goto, TypeOK
<1> HIDE DEF a
<1> QED
  BY <1>1, <1>2, <1>3, <1>4, NewTrySingle, Zenon DEF tableVars

\* The end of a cancellation keeps the invariant of one thread, whether the
\* call tries again or gives up.
LEMMA CancelReleaseSingle ==
    ASSUME NEW t \in Callers, OneCaller, IInv, SInv, CancelRelease(t)
    PROVE  SInv'
<1> USE DEF At, Goto, tableVars, tryVars, locals, callerVars, pollVars, netVars
<1>1. CASE try[t] < NumTries
  <2> USE DEF IInv
  <2> DEFINE a == <<t, op[t], try[t] + 1>>
  <2>1. op[t] \in 1 .. MaxOps /\ try[t] + 1 \in 1 .. NumTries
    BY <1>1, ConstantsAssumption, NumTriesPositive, SMTT(30)
    DEF TypeOK, Locals, CancelRelease
  <2>2. a \in Tries
    BY <2>1, Zenon DEF Tries
  <2>3. promise[a] = "none"
    BY <2>1 DEF Ahead, TypeOK
  <2>4. Cur(t)' = a
    BY <1>1 DEF Cur, CancelRelease, TypeOK
  <2>5. /\ pc[t] = "cancelRelease" /\ pc'[t] = "scan"
        /\ NewTry(a, kind[Cur(t)]) /\ Release(slot[Cur(t)])
        /\ UNCHANGED <<replyCb, errorCb, victim, handling, left, pollVars,
                       netVars, process>>
    BY <1>1 DEF CancelRelease, TypeOK
  <2> HIDE DEF a
  <2> QED
    BY <2>2, <2>3, <2>4, <2>5, NewTrySingle, Zenon
<1>2. CASE ~(try[t] < NumTries)
  <2> OnlyThread(t)
    BY Alone, Zenon
  <2>1. /\ pc[t] = "cancelRelease" /\ Goto(t, "idle")
        /\ Release(slot[Cur(t)])
        /\ UNCHANGED <<replyCb, errorCb, tryVars, locals, pollVars, netVars,
                       process>>
    BY <1>2, Zenon DEF CancelRelease
  <2>2. \A s \in Callers : Cur(s)' = Cur(s)
    BY <2>1, Zenon DEF Cur
  <2>3. slot[Cur(t)] \in Idx /\ Cleared(slot[Cur(t)])
    BY <2>1, Zenon DEF IInv, Indices, SInv, StaysCleared
  <2>4. pc'[t] = "idle"
    BY <2>1, Zenon DEF OnlyThread
  <2>5. Twins' /\ InstallOwns' /\ OwnSlot' /\ StaysCleared' /\ NotLeft'
    BY <2>1, <2>4, Zenon
    DEF OnlyThread, SInv, Twins, InstallOwns, OwnSlot, StaysCleared, NotLeft
  <2>6. HandlerPromise' /\ SendPromise' /\ TerminatesOnlyOnFailedSend'
    BY <2>1, <2>4, Zenon
    DEF OnlyThread, SInv, HandlerPromise, SendPromise,
      TerminatesOnlyOnFailedSend, Running
  <2>7. LoopHolds' /\ RegisteredIdsTaken'
    BY <2>1, <2>3, Zenon
    DEF SInv, LoopHolds, BusyPcs, Cleared, LockFree, Release,
      RegisteredIdsTaken
  <2>8. PromisesKept'
    BY <2>1, <2>2, <2>4, Zenon
    DEF OnlyThread, SInv, PromisesKept, Broken, Referenced, StartPcs
  <2> QED
    BY <2>5, <2>6, <2>7, <2>8, Zenon DEF SInv
<1> QED
  BY <1>1, <1>2, Zenon

\* Nothing of the invariant of one thread depends on the clock, on what is in
\* flight or on the number of callbacks run.
LEMMA QuietSingle ==
    ASSUME SInv,
           UNCHANGED <<available, replyCb, errorCb, tryVars, callerVars,
                       pollPc, pollIdx, pollTry, process>>
    PROVE  SInv'
<1> USE DEF tryVars, callerVars, locals
<1>1. \A s \in Callers : Cur(s)' = Cur(s)
  BY Zenon DEF Cur
<1>2. Twins' /\ LoopHolds' /\ RegisteredIdsTaken'
      /\ TerminatesOnlyOnFailedSend'
  BY Zenon DEF SInv, Twins, LoopHolds, RegisteredIdsTaken,
    TerminatesOnlyOnFailedSend, Running
<1>3. InstallOwns' /\ OwnSlot' /\ StaysCleared'
  BY <1>1, Zenon
  DEF SInv, InstallOwns, OwnSlot, StaysCleared, Cleared, LockFree
<1>4. HandlerPromise' /\ SendPromise' /\ NotLeft'
  BY <1>1, Zenon DEF SInv, HandlerPromise, SendPromise, NotLeft
<1>5. PromisesKept'
  BY <1>1, Zenon DEF SInv, PromisesKept, Broken, Referenced
<1> QED
  BY <1>2, <1>3, <1>4, <1>5, Zenon DEF SInv

\* The initial state satisfies it.
LEMMA InitSInv == Init => SInv
<1> SUFFICES ASSUME Init
             PROVE  SInv
  BY Zenon
<1> USE DEF Init
<1>1. Twins /\ LoopHolds /\ RegisteredIdsTaken /\ TerminatesOnlyOnFailedSend
  BY Zenon DEF Twins, LoopHolds, BusyPcs, RegisteredIdsTaken,
    TerminatesOnlyOnFailedSend, Running
<1>2. InstallOwns /\ OwnSlot /\ StaysCleared
  BY Zenon DEF InstallOwns, OwnSlot, StaysCleared
<1>3. HandlerPromise /\ SendPromise /\ NotLeft /\ PromisesKept
  BY Zenon DEF HandlerPromise, SendPromise, NotLeft, PromisesKept, Broken
<1> QED
  BY <1>1, <1>2, <1>3, Zenon DEF SInv

\* Every step keeps the invariant of one thread.
LEMMA StepSInv ==
    ASSUME OneCaller, IInv, SInv, IInv', [Next]_vars
    PROVE  SInv'
<1> TypeOK'
  BY Zenon DEF IInv
<1>1. ASSUME NEW t \in Callers, NEW k \in Kinds, StartOp(t, k)
      PROVE  SInv'
  BY <1>1, StartOpSingle, Zenon
<1>2. ASSUME NEW t \in Callers, StartStep(t)
      PROVE  SInv'
  BY <1>2, AcquireIdSingle, FindExpiredSingle, NoIdSingle, ForceReleaseSingle,
     HandlerSetSingle, HandlerReleaseSingle, HandlerClearSingle,
     ReleaseVictimSingle, InstallSingle, SendOkSingle, SendFailSingle,
     SendFailClearSingle, SendFailSetSingle, SendFailReleaseSingle, Zenon
  DEF StartStep
<1>3. ASSUME NEW t \in Callers, WaitStep(t)
      PROVE  SInv'
  BY <1>3, WaitReadySingle, WaitTimeoutSingle, PythonTimeoutSingle,
     CancelSingle, CancelReleaseSingle, Zenon
  DEF WaitStep
<1>4. CASE DispatchStep \/ PollReceive \/ LoopStops
  <2> PICK t \in Callers : TRUE
    BY Zenon DEF OneCaller
  <2>1. CASE PollDispatch \/ PollSet \/ PollRelease \/ PollUnlock
    BY <2>1, PollDispatchSingle, PollSetSingle, PollReleaseSingle,
       PollUnlockSingle, Zenon
  <2>2. CASE PollReceive \/ LoopStops \/ OnComplete
    BY <2>2, PollReceiveSingle, LoopStopsSingle, OnCompleteSingle, Zenon
  <2> QED
    BY <1>4, <2>1, <2>2, Zenon DEF DispatchStep
<1>5. ASSUME NEW i \in Idx, Expire(i)
      PROVE  SInv'
  BY <1>5, QuietSingle, Zenon DEF Expire, pollVars
<1>6. ASSUME NEW a \in Tries, TargetReplies(a)
      PROVE  SInv'
  BY <1>6, QuietSingle, Zenon DEF TargetReplies, tableVars, pollVars
<1>7. CASE UNCHANGED vars
  BY <1>7, QuietSingle, Zenon DEF vars, tableVars, pollVars
<1> QED
  BY <1>1, <1>2, <1>3, <1>4, <1>5, <1>6, <1>7, Zenon
  DEF Next, CallerStep, Finished

-----------------------------------------------------------------------------
(* The theorems.                                                           *)

\* With one thread its invariant holds in every reachable state.
THEOREM SingleInductive ==
    ASSUME OneCaller
    PROVE  Spec => []SInv
<1>1. Init => SInv
  BY InitSInv, Zenon
<1>2. IInv /\ SInv /\ IInv' /\ [Next]_vars => SInv'
  BY StepSInv, Zenon
<1> QED
  BY <1>1, <1>2, TransactionsInductive, PTL DEF Spec

\* With one application thread an ID with a registered callback is never handed
\* out again, so no callback is overwritten.
THEOREM RegisteredIdsStayTaken ==
    ASSUME OneCaller
    PROVE  Spec => []RegisteredIdsTaken
<1>1. SInv => RegisteredIdsTaken
  BY Zenon DEF SInv
<1> QED
  BY <1>1, SingleInductive, PTL

\* With one application thread no promise is dropped unfulfilled while its
\* caller still waits for it: future.get() never throws broken_promise.
THEOREM PromisesAreKept ==
    ASSUME OneCaller
    PROVE  Spec => []PromisesKept
<1>1. SInv => PromisesKept
  BY Zenon DEF SInv
<1> QED
  BY <1>1, SingleInductive, PTL

\* With one application thread the process is taken down by nothing but the
\* failure path of a send whose try a late reply has completed.
THEOREM OnlyFailedSendTerminates ==
    ASSUME OneCaller
    PROVE  Spec => []TerminatesOnlyOnFailedSend
<1>1. SInv => TerminatesOnlyOnFailedSend
  BY Zenon DEF SInv
<1> QED
  BY <1>1, SingleInductive, PTL

\* With one application thread cancelTransaction_ removes nothing but the
\* caller's own callback.
THEOREM CancelsOwnWhenAlone ==
    ASSUME OneCaller
    PROVE  Spec => CancelsOwnTransaction
<1>1. SInv => \A t \in Callers :
                pc[t] = "cancel" => replyCb[slot[Cur(t)]] \in {Cur(t), None}
  BY Zenon DEF SInv, OwnSlot
<1>2. SInv /\ [Next]_vars =>
        [\A t \in Callers : pc[t] = "cancel" /\ pc'[t] = "cancelRelease"
           => replyCb[slot[Cur(t)]] \in {Cur(t), None}]_vars
  BY <1>1, Zenon
<1> QED
  BY <1>2, SingleInductive, PTL DEF Spec, CancelsOwnTransaction

=============================================================================
