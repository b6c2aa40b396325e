--------------------------- MODULE SendPathProofs ---------------------------
(***************************************************************************)
(* Proofs, for any number of threads, any sizes of addresses, data and     *)
(* buffer and either policy, about SendPath: the use of send_buf_, what is *)
(* refused, and what reaches the connection.                               *)
(***************************************************************************)
EXTENDS SendPath, SequenceTheorems, TLAPS

\* A thread on its way through a send knows what it sends, and holds the
\* mutex while its packet is in the buffer.
Holding ==
    \A s \in Threads :
        /\ pc[s] \in {"lock", "send"} => cfg[s] \in Configs
        /\ pc[s] = "lock" => cfg[s].op # "timecode"
        /\ pc[s] = "send" /\ cfg[s].op # "timecode" => owner = s

\* The inductive invariant.
IInv == TypeOK /\ Holding /\ SendsOwnFrame

\* The parts of what is sent have the sizes of the code.
LEMMA ConfigFields ==
    ASSUME NEW c \in Configs
    PROVE  /\ c.op \in Ops
           /\ c.op \in Commands \union Replies \union {"timecode"}
           /\ c.path \in Nat /\ c.reply \in Nat /\ c.data \in Nat
<1> DEFINE Sent(op, paths, replies, datas) ==
             [op : Ops \intersect {op}, path : paths, reply : replies,
              data : datas]
<1>1. \/ c \in Sent("read", PathLens, ReplyLens, {0})
      \/ c \in Sent("write", PathLens, ReplyLens, DataLens)
      \/ c \in Sent("readReply", {0}, ReplyLens, DataLens)
      \/ c \in Sent("writeReply", {0}, ReplyLens, {0})
      \/ c \in Sent("timecode", {0}, {0}, {0})
  BY Zenon DEF Configs
<1>2. c.op \in Ops
  BY <1>1
<1>3. c.path \in PathLens \union {0}
  BY <1>1
<1>4. c.reply \in ReplyLens \union {0}
  BY <1>1
<1>5. c.data \in DataLens \union {0}
  BY <1>1
<1> HIDE DEF Sent
<1>6. c.op \in Commands \union Replies \union {"timecode"}
  BY <1>2, SendAssumption, Zenon
<1>7. c.path \in Nat /\ c.reply \in Nat /\ c.data \in Nat
  <2>1. \A n \in PathLens \union ReplyLens \union DataLens : n \in Nat
    BY SendAssumption, Zenon
  <2>2. 0 \in Nat
    OBVIOUS
  <2> QED
    BY <1>3, <1>4, <1>5, <2>1, <2>2, Zenon
<1> QED
  BY <1>2, <1>6, <1>7, Zenon

\* A padded reply address has a size.
LEMMA PaddedNat ==
    ASSUME NEW n \in Nat
    PROVE  Padded(n) \in Nat
BY DEF Padded

\* So have a packet and the demand made for it.
LEMMA SizesNat ==
    ASSUME NEW c \in Configs, c.op # "timecode"
    PROVE  TotalSize(c) \in Nat /\ Demand(c) \in Nat
<1>1. c.path \in Nat /\ c.data \in Nat /\ c.reply \in Nat
      /\ Padded(c.reply) \in Nat
  BY ConfigFields, PaddedNat
<1>2. c.op \in {"read", "write", "readReply", "writeReply"}
  BY ConfigFields DEF Commands, Replies
<1> QED
  BY <1>1, <1>2 DEF TotalSize, Demand, FrameHeader

\* The frame of a thread that has something to send.
LEMMA FrameTyped ==
    ASSUME TypeOK, NEW s \in Threads, cfg[s] \in Configs
    PROVE  Frame(s) \in FrameSet
BY ConfigFields DEF TypeOK, Frame, FrameSet

\* It holds of a node that has sent nothing.
LEMMA InitIInv == Init => IInv
<1> SUFFICES ASSUME Init PROVE IInv
  OBVIOUS
<1>1. TypeOK
  BY SendAssumption DEF Init, TypeOK
<1>2. Holding /\ SendsOwnFrame
  BY DEF Init, Holding, SendsOwnFrame
<1> QED
  BY <1>1, <1>2 DEF IInv

\* A finished send leaves a result and a place to go on from.
LEMMA FinishTyped ==
    ASSUME TypeOK, NEW s \in Threads, Finish(s, "sent") \/
           Finish(s, "no_buffer_space") \/ Finish(s, "send_error") \/
           Finish(s, "operation_canceled")
    PROVE  /\ pc' \in [Threads -> {"idle", "lock", "send", "stopped"}]
           /\ result' \in [Threads -> {"none", "sent", "no_buffer_space",
                                       "send_error", "operation_canceled"}]
           /\ pc'[s] \in {"idle", "stopped"}
           /\ \A q \in Threads : q # s => pc'[q] = pc[q]
BY DEF TypeOK, Finish

\* Every step of a sender keeps it.
LEMMA StepIInv == IInv /\ [Next]_vars => IInv'
<1> SUFFICES ASSUME IInv, [Next]_vars PROVE IInv'
  OBVIOUS
<1> TypeOK /\ Holding /\ SendsOwnFrame
  BY DEF IInv
<1> Loop \in Threads
  BY DEF Threads
<1>1. ASSUME NEW s \in Threads, NEW c \in Configs, Begin(s, c) PROVE IInv'
  <2>1. /\ pc[s] = "idle"
        /\ pc' = [pc EXCEPT ![s] = IF c.op = "timecode" THEN "send"
                                                      ELSE "lock"]
        /\ cfg' = [cfg EXCEPT ![s] = c]
        /\ count' = [count EXCEPT ![s] = @ + 1]
        /\ pos' = [pos EXCEPT ![s] = 0]
        /\ result' = [result EXCEPT ![s] = "none"]
        /\ UNCHANGED <<policy, size, content, owner, stream>>
    BY <1>1 DEF Begin
  <2>2. TypeOK'
    BY <2>1, SendAssumption DEF TypeOK
  <2>3. Holding'
    BY <2>1 DEF TypeOK, Holding
  <2>4. SendsOwnFrame'
    BY <2>1 DEF TypeOK, SendsOwnFrame, Frame, TotalSize
  <2> QED
    BY <2>2, <2>3, <2>4 DEF IInv
<1>2. CASE CallbackThrows
  <2>1. TypeOK'
    BY <1>2, FinishTyped DEF CallbackThrows, TypeOK
  <2>2. Holding' /\ SendsOwnFrame'
    BY <1>2, FinishTyped
    DEF CallbackThrows, Holding, SendsOwnFrame, Frame, TotalSize
  <2> QED
    BY <2>1, <2>2 DEF IInv
<1>3. ASSUME NEW s \in Threads, Build(s) PROVE IInv'
  <2>1. /\ cfg[s] \in Configs /\ cfg[s].op # "timecode"
        /\ TotalSize(cfg[s]) \in Nat /\ Demand(cfg[s]) \in Nat
    BY <1>3, SizesNat DEF Build, Holding
  <2>2. /\ size' \in Nat /\ owner = None
        /\ UNCHANGED <<policy, cfg, count, pos, stream>>
    BY <1>3, <2>1 DEF Build, Grown, LockFree, TypeOK
  <2>3. \A q \in Threads : pc[q] = "send" => cfg[q].op = "timecode"
    BY <2>2, SendAssumption DEF Holding
  <2>4. CASE /\ Builds(cfg[s], size') /\ owner' = s /\ content' = Frame(s)
             /\ pc' = [pc EXCEPT ![s] = "send"] /\ UNCHANGED result
    <3>1. TypeOK'
      BY <2>1, <2>2, <2>4, FrameTyped DEF TypeOK
    <3>2. Holding'
      BY <2>1, <2>2, <2>3, <2>4 DEF TypeOK, Holding
    <3>3. TotalSize(cfg[s]) + FrameHeader <= size'
      BY <2>1, <2>2, <2>4 DEF Builds, FrameHeader
    <3>4. SendsOwnFrame'
      BY <2>1, <2>2, <2>3, <2>4, <3>3
      DEF TypeOK, SendsOwnFrame, Frame, TotalSize
    <3> QED
      BY <3>1, <3>2, <3>4 DEF IInv
  <2>5. CASE Finish(s, "no_buffer_space") /\ UNCHANGED <<owner, content>>
    <3>1. TypeOK'
      BY <2>2, <2>5, FinishTyped DEF TypeOK
    <3>2. Holding' /\ SendsOwnFrame'
      BY <2>2, <2>3, <2>5, FinishTyped
      DEF Holding, SendsOwnFrame, Frame, TotalSize
    <3> QED
      BY <3>1, <3>2 DEF IInv
  <2> QED
    BY <1>3, <2>4, <2>5 DEF Build
<1>4. ASSUME NEW s \in Threads, NEW n \in 1 .. NumChunks, Send(s, n)
      PROVE  IInv'
  <2>1. cfg[s] \in Configs /\ pc[s] = "send" /\ n \in Nat /\ pos[s] \in Nat
        /\ pos[s] + n <= NumChunks /\ NumChunks \in Nat
        /\ UNCHANGED <<policy, size, content, cfg, count>>
    BY <1>4, SendAssumption DEF Send, Holding, TypeOK
  <2>2. Source(s) \in FrameSet
    BY <2>1, FrameTyped DEF Source, SendsOwnFrame
  <2>3. stream' \in Seq(FrameSet \X (1 .. NumChunks))
    <3> DEFINE C == FrameSet \X (1 .. NumChunks)
               new == [i \in 1 .. n |-> <<Source(s), pos[s] + i>>]
    <3>1. \A i \in 1 .. n : <<Source(s), pos[s] + i>> \in C
      BY <2>1, <2>2
    <3>2. new \in Seq(C)
      <4> HIDE DEF C
      <4> QED BY <2>1, <3>1
    <3>3. stream \in Seq(C) /\ stream' = stream \o new
      BY <1>4 DEF Send, TypeOK
    <3> HIDE DEF C, new
    <3>4. stream' \in Seq(C)
      BY <3>2, <3>3
    <3> QED
      BY <3>4 DEF C
  <2>4. pos' \in [Threads -> 0 .. NumChunks]
    BY <1>4, <2>1 DEF Send, TypeOK
  <2>5. CASE UNCHANGED <<pc, owner, result>>
    <3>1. TypeOK'
      BY <2>1, <2>3, <2>4, <2>5 DEF TypeOK
    <3>2. Holding' /\ SendsOwnFrame'
      BY <2>1, <2>5 DEF Holding, SendsOwnFrame, Frame, TotalSize
    <3> QED
      BY <3>1, <3>2 DEF IInv
  <2>6. CASE owner' = Unlocked(s) /\ Finish(s, "sent")
    <3>1. TypeOK'
      BY <2>1, <2>3, <2>4, <2>6, FinishTyped DEF TypeOK, Unlocked
    <3>2. Holding' /\ SendsOwnFrame'
      BY <2>1, <2>6, FinishTyped, SendAssumption
      DEF Holding, SendsOwnFrame, Frame, TotalSize, Unlocked
    <3> QED
      BY <3>1, <3>2 DEF IInv
  <2> QED
    BY <1>4, <2>5, <2>6 DEF Send
<1>5. ASSUME NEW s \in Threads, SendError(s) PROVE IInv'
  <2>1. TypeOK'
    BY <1>5, FinishTyped DEF SendError, TypeOK, Unlocked
  <2>2. Holding' /\ SendsOwnFrame'
    BY <1>5, FinishTyped, SendAssumption
    DEF SendError, Holding, SendsOwnFrame, Frame, TotalSize, Unlocked
  <2> QED
    BY <2>1, <2>2 DEF IInv
<1>6. CASE UNCHANGED vars
  BY <1>6 DEF vars, IInv, TypeOK, Holding, SendsOwnFrame, Frame, TotalSize
<1> QED
  BY <1>1, <1>2, <1>3, <1>4, <1>5, <1>6 DEF Next, Done

\* While a thread passes its frame to the socket, send_buf_ holds that frame
\* and is large enough for it, for every mix of senders, sizes and policies.
THEOREM SendBufferSafe == Spec => []SendsOwnFrame
<1>1. IInv => SendsOwnFrame
  BY DEF IInv
<1> QED
  BY <1>1, InitIInv, StepIInv, PTL DEF Spec

\* The bookkeeping of the senders is well typed.
THEOREM SendTypeCorrect == Spec => []TypeOK
<1>1. IInv => TypeOK
  BY DEF IInv
<1> QED
  BY <1>1, InitIInv, StepIInv, PTL DEF Spec
\* Only a read demands less than build() needs, and nothing demands more: a
\* buffer too small for the demand is too small for the frame.
LEMMA DemandOfFrame ==
    ASSUME NEW c \in Configs, c.op # "timecode"
    PROVE  /\ Demand(c) <= TotalSize(c) + FrameHeader
           /\ c.op # "read" => Demand(c) = TotalSize(c) + FrameHeader
<1>1. c.path \in Nat /\ c.data \in Nat /\ c.reply \in Nat
      /\ Padded(c.reply) \in Nat
  BY ConfigFields, PaddedNat
<1>2. c.op \in {"read", "write", "readReply", "writeReply"}
  BY ConfigFields DEF Commands, Replies
<1> QED
  BY <1>1, <1>2 DEF TotalSize, Demand, FrameHeader

\* no_buffer_space is only reported of a frame that does not fit send_buf_,
\* and under AutoResize only of a read, for all sizes and senders.
THEOREM RefusalsAreJustified == Spec => RefusalsJustified
<1> DEFINE Refused(s) ==
             result[s] # "no_buffer_space" /\ result'[s] = "no_buffer_space"
           Justified ==
             \A s \in Threads :
               Refused(s) =>
                 /\ TotalSize(cfg[s]) + FrameHeader > size'
                 /\ policy = "AutoResize" => cfg[s].op = "read"
<1>1. IInv /\ [Next]_vars => [Justified]_vars
  <2> SUFFICES ASSUME IInv, Next, NEW s \in Threads, Refused(s)
               PROVE  /\ TotalSize(cfg[s]) + FrameHeader > size'
                      /\ policy = "AutoResize" => cfg[s].op = "read"
    BY Zenon
  <2> USE DEF IInv, TypeOK
  <2>1. ASSUME NEW q \in Threads, NEW c \in Configs, Begin(q, c) PROVE FALSE
    BY <2>1 DEF Begin
  <2>2. CASE CallbackThrows
    BY <2>2 DEF CallbackThrows, Finish, Threads
  <2>3. ASSUME NEW q \in Threads, NEW n \in 1 .. NumChunks, Send(q, n)
        PROVE  FALSE
    BY <2>3 DEF Send, Finish
  <2>4. ASSUME NEW q \in Threads, SendError(q) PROVE FALSE
    BY <2>4 DEF SendError, Finish
  <2>5. ASSUME NEW q \in Threads, Build(q)
        PROVE  /\ TotalSize(cfg[s]) + FrameHeader > size'
               /\ policy = "AutoResize" => cfg[s].op = "read"
    <3>1. q = s /\ ~(Demand(cfg[s]) <= size' /\ Builds(cfg[s], size'))
      BY <2>5 DEF Build, Finish
    <3>2. /\ cfg[s] \in Configs /\ cfg[s].op # "timecode"
          /\ size' = Grown(cfg[s])
      BY <2>5, <3>1 DEF Build, Holding
    <3>3. /\ TotalSize(cfg[s]) \in Nat /\ Demand(cfg[s]) \in Nat
          /\ Demand(cfg[s]) <= TotalSize(cfg[s]) + FrameHeader
          /\ cfg[s].op # "read" =>
               Demand(cfg[s]) = TotalSize(cfg[s]) + FrameHeader
      BY <3>2, SizesNat, DemandOfFrame
    <3>4. size' \in Nat /\ (policy = "AutoResize" => Demand(cfg[s]) <= size')
      BY <3>2, <3>3 DEF Grown
    <3>5. TotalSize(cfg[s]) + FrameHeader > size'
      BY <3>1, <3>3, <3>4 DEF Builds, FrameHeader
    <3>6. policy = "AutoResize" => cfg[s].op = "read"
      BY <3>3, <3>4, <3>5 DEF FrameHeader
    <3> QED
      BY <3>5, <3>6
  <2>6. CASE Done
    BY <2>6 DEF Done, vars
  <2> QED
    BY <2>1, <2>2, <2>3, <2>4, <2>5, <2>6 DEF Next
<1> QED
  BY <1>1, InitIInv, StepIInv, PTL DEF Spec, RefusalsJustified
-----------------------------------------------------------------------------
(* What is in the connection.                                              *)

Placed == 1 .. Len(stream)

\* The n-th command the loop took on has been answered to the last chunk.
Answered(n) ==
    \E i \in Placed :
        /\ stream[i][1][1] = Loop /\ stream[i][1][2] = n
        /\ stream[i][2] = NumChunks

\* The commands before the one in hand have been answered.
Answering ==
    /\ CommandsAnswered
    /\ pc[Loop] \in {"lock", "send"} =>
         \A n \in 1 .. count[Loop] - 1 : Answered(n)

\* No frame is in the connection before its sender has begun it.
Known ==
    \A i \in Placed : stream[i][1][2] <= count[stream[i][1][1]]

\* Of the frame a thread is sending, the connection holds chunks it has sent.
Ahead ==
    \A s \in Threads : pc[s] \in {"lock", "send"} =>
        /\ pc[s] = "lock" => pos[s] = 0
        /\ \A i \in Placed : stream[i][1] = Frame(s) => stream[i][2] <= pos[s]

\* Since an RMAP frame that is being sent began, only it and time codes have
\* entered the connection.
Alone ==
    \A s \in Threads : pc[s] = "send" /\ cfg[s].op # "timecode" =>
        \A i \in Placed : stream[i][1] = Frame(s) =>
            \A k \in i .. Len(stream) :
                stream[k][1] = Frame(s) \/ stream[k][1][3] = "timecode"

\* The inductive invariant of the connection.
CInv == Answering /\ Known /\ Ahead /\ Alone /\ FramesNotMixed

\* A chunk in the connection has a sender, a number and a place in its frame.
LEMMA ChunkTyped ==
    ASSUME TypeOK, NEW i \in Placed
    PROVE  /\ stream[i][1] \in FrameSet /\ stream[i][2] \in 1 .. NumChunks
           /\ stream[i][1][1] \in Threads /\ stream[i][1][2] \in Nat
<1>1. stream[i] \in FrameSet \X (1 .. NumChunks)
  BY DEF TypeOK, Placed
<1> QED
  BY <1>1 DEF FrameSet

\* A send puts the next chunks of the thread's own frame behind the others.
LEMMA SendAppends ==
    ASSUME IInv, NEW s \in Threads, NEW n \in 1 .. NumChunks, Send(s, n)
    PROVE  /\ Len(stream) \in Nat /\ Len(stream') = Len(stream) + n
           /\ \A i \in Placed : stream'[i] = stream[i]
           /\ \A i \in Len(stream) + 1 .. Len(stream) + n :
                stream'[i] = <<Frame(s), pos[s] + (i - Len(stream))>>
<1> DEFINE new == [i \in 1 .. n |-> <<Frame(s), pos[s] + i>>]
<1>1. Source(s) = Frame(s)
  BY DEF IInv, SendsOwnFrame, Send, Source
<1>2. stream' = stream \o new
  BY <1>1 DEF Send
<1>3. stream \in Seq(FrameSet \X (1 .. NumChunks)) /\ NumChunks \in Nat
  BY SendAssumption DEF IInv, TypeOK
<1>4. n \in Nat
  BY <1>3
<1> DEFINE C == FrameSet \X Int
<1>5. new \in Seq(C) /\ Len(new) = n
  <2>1. Frame(s) \in FrameSet
    BY FrameTyped DEF IInv, Holding, Send
  <2>2. \A i \in 1 .. n : <<Frame(s), pos[s] + i>> \in C
    BY <1>3, <1>4, <2>1 DEF IInv, TypeOK
  <2> HIDE DEF C
  <2> QED
    BY <1>4, <2>2
<1>6. \A i \in 1 .. n : new[i] = <<Frame(s), pos[s] + i>>
  OBVIOUS
<1>7. stream \in Seq(C)
  <2>1. FrameSet \X (1 .. NumChunks) \subseteq C
    OBVIOUS
  <2> HIDE DEF C
  <2> QED
    BY <1>3, <2>1
<1> HIDE DEF new, C
<1>8. Len(stream) \in Nat /\ Len(stream') = Len(stream) + n
  BY <1>2, <1>5, <1>7, LenProperties, ConcatProperties
<1>9. \A i \in Placed : stream'[i] = stream[i]
  BY <1>2, <1>4, <1>5, <1>8, <1>7, ConcatProperties DEF Placed
<1>10. ASSUME NEW i \in Len(stream) + 1 .. Len(stream) + n
      PROVE  stream'[i] = <<Frame(s), pos[s] + (i - Len(stream))>>
  <2>1. i - Len(stream) \in 1 .. n
    BY <1>4, <1>8
  <2>2. stream'[i] = new[i - Len(stream)]
    BY <1>2, <1>4, <1>5, <1>8, <1>7, ConcatProperties
  <2> QED
    BY <1>6, <2>1, <2>2
<1> QED
  BY <1>8, <1>9, <1>10
\* Nothing is in the connection at first.
LEMMA InitCInv == Init => CInv
<1> SUFFICES ASSUME Init PROVE CInv
  OBVIOUS
<1>1. Len(stream) = 0 /\ Placed = {}
  BY DEF Init, Placed
<1>2. Loop \in Threads
  BY DEF Threads
<1>3. Answering
  BY <1>1, <1>2 DEF Init, Answering, CommandsAnswered
<1>4. Known /\ Ahead /\ Alone
  BY <1>1 DEF Init, Known, Ahead, Alone
<1>5. FramesNotMixed
  BY <1>1 DEF FramesNotMixed
<1> QED
  BY <1>3, <1>4, <1>5 DEF CInv

\* A step that puts nothing into the connection keeps what was answered.
LEMMA AnsweredKept ==
    ASSUME UNCHANGED stream, NEW n
    PROVE  Answered(n)' = Answered(n)
BY DEF Answered, Placed

\* CommandsAnswered in terms of Answered.
LEMMA AnsweredWhenIdle ==
    CommandsAnswered <=>
        (pc[Loop] = "idle" => \A n \in 1 .. count[Loop] : Answered(n))
BY DEF CommandsAnswered, Answered, Placed

\* A step of s that ends its send without putting anything into the connection
\* keeps the invariant: the loop is then stopped.
LEMMA GiveUpCInv ==
    ASSUME TypeOK, CInv, NEW s \in Threads, NEW r, r # "sent", Finish(s, r),
           UNCHANGED <<cfg, count, pos, stream>>
    PROVE  CInv'
<1>1. /\ \A q \in Threads : q # s => pc'[q] = pc[q]
      /\ pc'[s] = IF s = Loop THEN "stopped" ELSE "idle"
  BY DEF TypeOK, Finish
<1>2. Loop \in Threads
  BY DEF Threads
<1>3. Answering'
  BY <1>1, <1>2 DEF CInv, Answering, CommandsAnswered, Answered, Placed
<1>4. Known'
  BY DEF CInv, Known, Placed
<1>5. Ahead' /\ Alone'
  BY <1>1 DEF CInv, Ahead, Alone, Frame, Placed
<1>6. FramesNotMixed'
  BY DEF CInv, FramesNotMixed
<1> QED
  BY <1>3, <1>4, <1>5, <1>6 DEF CInv

\* A thread begins a send with a number that is not in the connection.
LEMMA BeginCInv ==
    ASSUME IInv, CInv, NEW s \in Threads, NEW c \in Configs, Begin(s, c)
    PROVE  CInv'
<1> USE DEF IInv
<1>1. /\ pc[s] = "idle" /\ pc'[s] \in {"lock", "send"}
      /\ \A q \in Threads : q # s =>
           pc'[q] = pc[q] /\ cfg'[q] = cfg[q] /\ count'[q] = count[q]
             /\ pos'[q] = pos[q]
      /\ cfg'[s] = c /\ count'[s] = count[s] + 1 /\ pos'[s] = 0
      /\ UNCHANGED stream
      /\ c.op # "timecode" => pc'[s] = "lock"
  BY DEF Begin, TypeOK
<1>2. Loop \in Threads /\ \A q \in Threads : count[q] \in Nat
  BY DEF Threads, TypeOK
<1>3. Answering'
  <2>1. CASE s = Loop
    <3>1. \A n \in 1 .. count[Loop] : Answered(n)
      BY <1>1, <2>1, AnsweredWhenIdle DEF CInv, Answering
    <3>2. 1 .. count'[Loop] - 1 = 1 .. count[Loop]
      BY <1>1, <1>2, <2>1
    <3>3. \A n \in 1 .. count'[Loop] - 1 : Answered(n)'
      BY <1>1, <3>1, <3>2, AnsweredKept
    <3> QED
      BY <1>1, <2>1, <3>3 DEF Answering, CommandsAnswered
  <2>2. CASE s # Loop
    BY <1>1, <1>2, <2>2
    DEF CInv, Answering, CommandsAnswered, Answered, Placed
  <2> QED
    BY <2>1, <2>2
<1>4. Known'
  BY <1>1, <1>2, ChunkTyped DEF CInv, Known, Placed
<1>5. \A i \in Placed : stream[i][1] # Frame(s)'
  <2> SUFFICES ASSUME NEW i \in Placed, stream[i][1] = Frame(s)'
               PROVE  FALSE
    OBVIOUS
  <2>1. stream[i][1][1] = s /\ stream[i][1][2] = count[s] + 1
    BY <1>1 DEF Frame
  <2> QED
    BY <1>2, <2>1 DEF CInv, Known
<1>6. \A q \in Threads : q # s => Frame(q)' = Frame(q)
  BY <1>1 DEF Frame
<1>7. Ahead'
  BY <1>1, <1>5, <1>6 DEF CInv, Ahead, Placed
<1>8. Alone'
  BY <1>1, <1>5, <1>6 DEF CInv, Alone, Placed
<1>9. FramesNotMixed'
  BY <1>1 DEF CInv, FramesNotMixed
<1> QED
  BY <1>3, <1>4, <1>7, <1>8, <1>9 DEF CInv

\* A frame is built before any of it is in the connection.
LEMMA BuildCInv ==
    ASSUME IInv, CInv, NEW s \in Threads, Build(s)
    PROVE  CInv'
<1> USE DEF IInv
<1>1. UNCHANGED <<cfg, count, pos, stream>> /\ pc[s] = "lock"
  BY DEF Build
<1>2. CASE Finish(s, "no_buffer_space")
  BY <1>1, <1>2, GiveUpCInv
<1>3. CASE pc' = [pc EXCEPT ![s] = "send"]
  <2>1. pc'[s] = "send" /\ \A q \in Threads : q # s => pc'[q] = pc[q]
    BY <1>3 DEF TypeOK
  <2>2. Loop \in Threads
    BY DEF Threads
  <2>3. Answering'
    BY <1>1, <2>1, <2>2
    DEF CInv, Answering, CommandsAnswered, Answered, Placed
  <2>4. \A i \in Placed : stream[i][1] # Frame(s)
    BY <1>1, ChunkTyped, SendAssumption DEF CInv, Ahead
  <2>5. Known'
    BY <1>1 DEF CInv, Known, Placed
  <2>6. \A q \in Threads : Frame(q)' = Frame(q)
    BY <1>1 DEF Frame
  <2>7. Ahead'
    BY <1>1, <2>1, <2>6 DEF CInv, Ahead, Placed
  <2>8. Alone'
    BY <1>1, <2>1, <2>4, <2>6 DEF CInv, Alone, Placed
  <2>9. FramesNotMixed'
    BY <1>1 DEF CInv, FramesNotMixed
  <2> QED
    BY <2>3, <2>5, <2>7, <2>8, <2>9 DEF CInv
<1> QED
  BY <1>2, <1>3 DEF Build
\* Sending chunks keeps frames apart: an RMAP frame has the mutex, so that the
\* others can only be sending time codes.
LEMMA SendCInv ==
    ASSUME IInv, CInv, NEW s \in Threads, NEW n \in 1 .. NumChunks, Send(s, n)
    PROVE  CInv'
<1> USE DEF IInv
<1> DEFINE L    == Len(stream)
           More == L + 1 .. L + n
<1>1. /\ L \in Nat /\ Len(stream') = L + n /\ n \in Nat /\ n > 0
      /\ \A i \in Placed : stream'[i] = stream[i]
      /\ \A i \in More : stream'[i] = <<Frame(s), pos[s] + (i - L)>>
  BY SendAppends, SendAssumption
<1>2. /\ pc[s] = "send" /\ UNCHANGED <<cfg, count>>
      /\ pos'[s] = pos[s] + n /\ pos[s] \in Nat
      /\ \A q \in Threads : q # s => pos'[q] = pos[q] /\ pc'[q] = pc[q]
      /\ \/ pc'[s] = "send"
         \/ pos[s] + n = NumChunks /\ pc'[s] = "idle"
  BY <1>1, SendAssumption DEF Send, Finish, TypeOK
<1>3. Placed' = Placed \union More /\ \A i \in Placed : i \in Nat /\ i <= L
  BY <1>1 DEF Placed
<1>4. \A q \in Threads : Frame(q)' = Frame(q)
  BY <1>2 DEF Frame
<1>5. /\ Frame(s)[1] = s /\ Frame(s)[2] = count[s] /\ Frame(s)[3] = cfg[s].op
      /\ \A q \in Threads : q # s => Frame(q) # Frame(s)
  BY DEF Frame
<1>6. \A i \in More : /\ stream'[i][1] = Frame(s)
                      /\ stream'[i][2] = pos[s] + (i - L)
  BY <1>1
<1>7. Loop \in Threads /\ \A q \in Threads : count[q] \in Nat
  BY DEF Threads, TypeOK
<1> HIDE DEF More, L
<1>8. Answering'
  <2>1. \A m : Answered(m) => Answered(m)'
    BY <1>1, <1>3 DEF Answered
  <2>2. CommandsAnswered' <=>
          (pc'[Loop] = "idle" => \A m \in 1 .. count[Loop] : Answered(m)')
    BY <1>2 DEF CommandsAnswered, Answered, Placed
  <2>3. CASE s # Loop
    BY <1>2, <1>7, <2>1, <2>3, <2>2, AnsweredWhenIdle DEF CInv, Answering
  <2>4. CASE s = Loop
    <3>1. \A m \in 1 .. count[Loop] - 1 : Answered(m)'
      BY <1>2, <2>1, <2>4 DEF CInv, Answering
    <3>2. ASSUME pc'[s] = "idle" PROVE Answered(count[Loop])'
      <4>1. L + n \in More
        BY <1>1 DEF More
      <4>2. stream'[L + n][2] = NumChunks
        BY <1>1, <1>2, <1>6, <3>2, <4>1
      <4> QED
        BY <1>2, <1>3, <1>5, <1>6, <2>4, <4>1, <4>2 DEF Answered
    <3>3. \A m \in 1 .. count[Loop] :
            m \in 1 .. count[Loop] - 1 \/ m = count[Loop]
      BY <1>7
    <3> QED
      BY <1>2, <2>4, <2>2, <3>1, <3>2, <3>3 DEF Answering
  <2> QED
    BY <2>3, <2>4
<1>9. Known'
  BY <1>1, <1>2, <1>3, <1>5, <1>6, <1>7, SMTT(30) DEF CInv, Known
<1>10. Ahead'
  <2> SUFFICES ASSUME NEW q \in Threads, pc'[q] \in {"lock", "send"}
               PROVE  /\ pc'[q] = "lock" => pos'[q] = 0
                      /\ \A i \in Placed' : stream'[i][1] = Frame(q)
                                              => stream'[i][2] <= pos'[q]
    BY <1>4 DEF Ahead
  <2>1. CASE q # s
    BY <1>1, <1>2, <1>3, <1>5, <1>6, <2>1 DEF CInv, Ahead
  <2>2. CASE q = s
    <3>1. \A i \in Placed : stream[i][1] = Frame(s) => stream[i][2] <= pos[s]
      BY <1>2 DEF CInv, Ahead
    <3>2. \A i \in Placed : stream'[i][1] = Frame(s)
                              => stream'[i][2] <= pos[s] + n
      BY <1>1, <1>2, <3>1, ChunkTyped
    <3>3. \A i \in More : pos[s] + (i - L) <= pos[s] + n
      BY <1>1, <1>2 DEF More
    <3> QED
      BY <1>2, <1>3, <1>6, <2>2, <3>2, <3>3
  <2> QED
    BY <2>1, <2>2
<1>11. Alone'
  <2> SUFFICES ASSUME NEW q \in Threads, pc'[q] = "send",
                      cfg[q].op # "timecode",
                      NEW i \in Placed', stream'[i][1] = Frame(q),
                      NEW k \in i .. Len(stream')
               PROVE  stream'[k][1] = Frame(q) \/ stream'[k][1][3] = "timecode"
    BY <1>2, <1>4 DEF Alone
  <2>1. pc[q] = "send"
    BY <1>2
  <2>2. q # s => cfg[s].op = "timecode"
    BY <1>2, <2>1 DEF Holding
  <2>3. CASE k \in More
    BY <1>5, <1>6, <2>2, <2>3
  <2>4. CASE k \notin More
    <3>1. i \in Placed /\ k \in Placed /\ k \in i .. L
      BY <1>1, <1>3, <2>4 DEF Placed, More, L
    <3>2. stream[i][1] = Frame(q)
      BY <1>1, <3>1
    <3> QED
      BY <1>1, <2>1, <3>1, <3>2 DEF CInv, Alone, L
  <2> QED
    BY <2>3, <2>4
<1>12. FramesNotMixed'
  <2> SUFFICES ASSUME NEW i \in Placed', NEW j \in Placed', i < j,
                      stream'[i][1] = stream'[j][1]
               PROVE  /\ stream'[i][2] < stream'[j][2]
                      /\ stream'[i][1][3] # "timecode" =>
                           \A k \in i .. j :
                             stream'[k][1] = stream'[i][1]
                               \/ stream'[k][1][3] = "timecode"
    BY DEF FramesNotMixed, Placed
  <2>1. CASE j \in Placed
    <3>1. i \in Placed /\ \A k \in i .. j : k \in Placed
      BY <1>1, <1>3, <2>1 DEF Placed, More, L
    <3> QED
      BY <1>1, <2>1, <3>1 DEF CInv, FramesNotMixed, Placed
  <2>2. CASE j \in More /\ i \in Placed
    <3>1. stream[i][1] = Frame(s)
      BY <1>1, <1>6, <2>2
    <3>2. stream[i][2] <= pos[s] /\ stream[i][2] \in Int
      BY <1>2, <2>2, <3>1, ChunkTyped, SendAssumption DEF CInv, Ahead
    <3>3. stream'[i][2] < stream'[j][2]
      BY <1>1, <1>2, <1>6, <2>2, <3>2 DEF More
    <3>4. ASSUME cfg[s].op # "timecode", NEW k \in i .. j
          PROVE  stream'[k][1] = Frame(s) \/ stream'[k][1][3] = "timecode"
      <4>1. CASE k \in More
        BY <1>6, <4>1
      <4>2. CASE k \notin More
        <5>1. k \in Placed /\ k \in i .. L
          BY <1>1, <1>3, <2>2, <4>2 DEF Placed, More, L
        <5> QED
          BY <1>1, <1>2, <2>2, <3>1, <3>4, <5>1 DEF CInv, Alone, L
      <4> QED
        BY <4>1, <4>2
    <3> QED
      BY <1>1, <1>5, <2>2, <3>1, <3>3, <3>4
  <2>3. CASE j \in More /\ i \in More
    <3>1. \A k \in i .. j : k \in More
      BY <1>1, <2>3 DEF More
    <3>2. stream'[i][2] < stream'[j][2]
      BY <1>1, <1>2, <1>6, <2>3 DEF More
    <3> QED
      BY <1>6, <2>3, <3>1, <3>2
  <2> QED
    BY <1>1, <1>3, <2>1, <2>2, <2>3 DEF More
<1> QED
  BY <1>8, <1>9, <1>10, <1>11, <1>12 DEF CInv

\* Every step keeps the invariant of the connection.
LEMMA StepCInv == IInv /\ CInv /\ [Next]_vars => CInv'
<1> SUFFICES ASSUME IInv, CInv, [Next]_vars PROVE CInv'
  OBVIOUS
<1>1. CASE CallbackThrows
  BY <1>1, GiveUpCInv DEF CallbackThrows, IInv, Threads
<1>2. ASSUME NEW s \in Threads, SendError(s) PROVE CInv'
  BY <1>2, GiveUpCInv DEF SendError, IInv
<1>3. CASE UNCHANGED vars
  <2>1. UNCHANGED <<pc, cfg, count, pos, stream>>
    BY <1>3 DEF vars
  <2>2. Answering' /\ Known' /\ FramesNotMixed'
    BY <2>1 DEF CInv, Answering, CommandsAnswered, Answered, Known, Placed,
                FramesNotMixed
  <2>3. Ahead' /\ Alone'
    BY <2>1 DEF CInv, Ahead, Alone, Frame, Placed
  <2> QED
    BY <2>2, <2>3 DEF CInv
<1> QED
  BY <1>1, <1>2, <1>3, BeginCInv, BuildCInv, SendCInv DEF Next, Done

\* Sender and connection together.
LEMMA ConnectionAlways == Spec => []CInv
BY InitIInv, StepIInv, InitCInv, StepCInv, PTL DEF Spec

\* RMAP frames of any number of threads never mix in the connection, however
\* ::send splits them and wherever it fails.
THEOREM FramesStayApart == Spec => []FramesNotMixed
<1>1. CInv => FramesNotMixed
  BY DEF CInv
<1> QED
  BY <1>1, ConnectionAlways, PTL

\* A loop that is ready for another command has answered all before it.
THEOREM LoopAnswersAll == Spec => []CommandsAnswered
<1>1. CInv => CommandsAnswered
  BY DEF CInv, Answering
<1> QED
  BY <1>1, ConnectionAlways, PTL
=============================================================================
