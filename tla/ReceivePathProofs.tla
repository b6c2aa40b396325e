-------------------------- MODULE ReceivePathProofs --------------------------
(***************************************************************************)
(* Proofs, for frames of any length, any buffer size and either backend    *)
(* and policy, that ReceivePath never leaves its receive buffer.           *)
(***************************************************************************)
EXTENDS ReceivePath, TLAPS

\* The inductive invariant: the bounds are inductive once the state is typed.
IInv == TypeOK /\ StoresInBounds

\* The frames already there keep their place when the peer sends another.
LEMMA AppendKeeps ==
    ASSUME NEW s \in Seq(Frames), NEW f \in Frames
    PROVE  /\ Append(s, f) \in Seq(Frames)
           /\ Len(Append(s, f)) = Len(s) + 1
           /\ \A i \in 1 .. Len(s) : Append(s, f)[i] = s[i]
OBVIOUS

\* A frame's length is a natural number.
LEMMA FrameLen ==
    ASSUME NEW f \in Frames
    PROVE  f.len \in Nat /\ f.got \in Nat \union {-1} /\ f.type \in Types
BY ReceiveAssumption DEF Frames

\* The frame whose body is being read is one of those sent.
LEMMA CurFrame ==
    ASSUME TypeOK, rd > 0
    PROVE  Cur \in Frames
BY DEF TypeOK, Cur

\* Storing a payload leaves a buffer of bytes of the same size.
LEMMA StoreTyped ==
    ASSUME TypeOK, rd > 0, NEW n \in Int, Store(n)
    PROVE  buf' \in [1 .. size -> Byte]
<1>1. ASSUME NEW k \in 1 .. size
      PROVE  (IF k \in off + 1 .. off + n THEN <<rd, k - off>> ELSE buf[k])
                 \in Byte
  BY DEF TypeOK, Byte
<1> QED
  BY <1>1 DEF Store

\* It holds before anything is received.
LEMMA InitIInv == Init => IInv
BY ReceiveAssumption DEF Init, IInv, TypeOK, StoresInBounds, Byte

\* Every step of the peer and of the loop keeps it.
LEMMA StepIInv == IInv /\ [Next]_vars => IInv'
<1> SUFFICES ASSUME IInv, [Next]_vars
             PROVE  IInv'
  OBVIOUS
<1> USE ReceiveAssumption
<1> TypeOK /\ StoresInBounds
  BY DEF IInv
<1>1. ASSUME NEW f \in Frames, PeerSends(f)
      PROVE  IInv'
  BY <1>1, AppendKeeps DEF PeerSends, config, IInv, TypeOK, StoresInBounds, Cur
<1>2. CASE PeerCloses
  <2>1. CASE UNCHANGED sent
    BY <1>2, <2>1 DEF PeerCloses, config, IInv, TypeOK, StoresInBounds, Cur
  <2>2. ASSUME NEW f \in Frames, sent' = Append(sent, f)
        PROVE  IInv'
    BY <1>2, <2>2, AppendKeeps DEF PeerCloses, config, IInv, TypeOK, StoresInBounds, Cur
  <2> QED
    BY <1>2, <2>1, <2>2 DEF PeerCloses
<1>3. CASE HeaderEnd \/ ReceiveError \/ BodyFails
  BY <1>3 DEF HeaderEnd, ReceiveError, BodyFails, Stop, netVars, config, IInv, TypeOK,
     StoresInBounds
<1>4. CASE ReadHeader
  <2> DEFINE f == sent[rd + 1]
  <2>1. f \in Frames /\ rd + 1 \in 1 .. Len(sent)
    BY <1>4 DEF ReadHeader, HeaderArrived, TypeOK
  <2>2. f.len \in Nat
    BY <2>1, FrameLen
  <2>3. Cur' = f
    BY <1>4 DEF ReadHeader, Cur, netVars
  <2>4. CASE pc' = "stopped" /\ UNCHANGED <<total, off, size, buf, parsed>>
    BY <1>4, <2>1, <2>4 DEF ReadHeader, netVars, config, IInv, TypeOK, StoresInBounds
  <2>5. CASE /\ Fits(f.len) /\ pc' = "body"
             /\ UNCHANGED <<total, off, size, buf, parsed>>
    BY <1>4, <2>1, <2>2, <2>3, <2>5
    DEF ReadHeader, Fits, netVars, config, IInv, TypeOK, StoresInBounds
  <2>6. CASE /\ size' = total + f.len
             /\ buf' = [k \in 1 .. size' |-> IF k <= size THEN buf[k] ELSE <<>>]
             /\ off' = total /\ pc' = "body" /\ UNCHANGED <<total, parsed>>
    <3>1. size' \in Nat
      BY <2>2, <2>6 DEF TypeOK
    <3>2. buf' \in [1 .. size' -> Byte]
      BY <2>6, <3>1 DEF TypeOK, Byte
    <3> QED
      BY <1>4, <2>1, <2>2, <2>3, <2>6, <3>1, <3>2, SMTT(30)
      DEF ReadHeader, netVars, config, IInv, TypeOK, StoresInBounds
  <2> QED
    BY <1>4, <2>4, <2>5, <2>6 DEF ReadHeader, Stop
<1>5. CASE ReadEop
  <2>1. Cur \in Frames /\ Cur.len \in Nat /\ Cur.got \in Int /\ rd > 0
    BY <1>5, CurFrame, FrameLen DEF ReadEop, TypeOK
  <2>2. buf' \in [1 .. size -> Byte]
    BY <1>5, <2>1, StoreTyped DEF ReadEop
  <2>3. buf' \in Seq(Byte) /\ Len(buf') = size
    BY <2>2 DEF TypeOK
  <2>4. total + ReceivedLen \in 0 .. size
    BY <1>5, <2>1 DEF ReadEop, ReceivedLen, TypeOK, StoresInBounds
  <2>5. SubSeq(buf', 1, total + ReceivedLen) \in Seq(Byte)
    BY <2>3, <2>4
  <2> HIDE DEF Byte
  <2>6. parsed' \in Seq(Seq(Byte))
    BY <1>5, <2>5 DEF ReadEop, TypeOK
  <2> QED
    BY <1>5, <2>2, <2>6 DEF ReadEop, netVars, config, IInv, TypeOK, StoresInBounds
<1>6. CASE ReadPart
  <2>1. Cur \in Frames /\ Cur.len \in Nat /\ Cur.got \in Int /\ rd > 0
    BY <1>6, CurFrame, FrameLen DEF ReadPart, TypeOK
  <2>2. buf' \in [1 .. size -> Byte]
    BY <1>6, <2>1, StoreTyped DEF ReadPart
  <2> QED
    BY <1>6, <2>1, <2>2, SMTT(30)
    DEF ReadPart, ReceivedLen, netVars, config, IInv, TypeOK, StoresInBounds
<1>7. CASE IgnoreEep
  BY <1>7 DEF IgnoreEep, netVars, config, IInv, TypeOK, StoresInBounds
<1>8. CASE ReadTimeCode
  BY <1>8 DEF ReadTimeCode, netVars, config, IInv, TypeOK, StoresInBounds
<1>9. CASE UNCHANGED vars
  BY <1>9 DEF vars, config, IInv, TypeOK, StoresInBounds, Cur
<1> QED
  BY <1>1, <1>2, <1>3, <1>4, <1>5, <1>6, <1>7, <1>8, <1>9
  DEF Next, LoopStep, Stopped

\* Whatever the peer sends and wherever it stops, the buffer bookkeeping of
\* recvAndParseOnePacket_ is well typed.
THEOREM ReceiveTypeCorrect == Spec => []TypeOK
<1>1. IInv => TypeOK
  BY DEF IInv
<1> QED
  BY <1>1, InitIInv, StepIInv, PTL DEF Spec

\* Whatever lengths the frame headers announce, in whatever order of parts,
\* error ends and time codes, no payload is stored outside recv_buf_ and no
\* packet handed to the parser extends beyond it.
THEOREM ReceiveInBounds == Spec => []StoresInBounds
<1>1. IInv => StoresInBounds
  BY DEF IInv
<1> QED
  BY <1>1, InitIInv, StepIInv, PTL DEF Spec

-----------------------------------------------------------------------------
(* The packets. What is proved of the frames does not depend on the state. *)

\* The bytes of the payloads of the frames F
Payloads(s, F) == UNION {{i} \X (1 .. s[i].len) : i \in F}

\* They are the bytes <<i, k>>, the k-th of a frame i.
LEMMA PayloadByte ==
    ASSUME NEW s, NEW F
    PROVE  \A i \in F : \A k \in 1 .. s[i].len : <<i, k>> \in Payloads(s, F)
BY DEF Payloads

\* A frame that ends no packet and is no part changes neither the ends nor
\* the open parts; a part that has arrived joins the open ones; an end, error
\* or not, leaves no part open.
LEMMA FrameStep ==
    ASSUME NEW s \in Seq(Frames), NEW n \in 1 .. Len(s)
    PROVE  /\ Parts(s, n - 1) \subseteq 1 .. n - 1
           /\ s[n].type \in {"eop", "eep"} => Parts(s, n) = {}
           /\ s[n].type = "part" /\ Arrived(s[n]) =>
                Parts(s, n) = Parts(s, n - 1) \union {n}
           /\ s[n].type \notin {"eop", "eep"}
              /\ ~(s[n].type = "part" /\ Arrived(s[n])) =>
                Parts(s, n) = Parts(s, n - 1)
           /\ s[n].type = "eop" /\ Arrived(s[n]) =>
                Ends(s, n) = Ends(s, n - 1) \union {n}
           /\ ~(s[n].type = "eop" /\ Arrived(s[n])) => Ends(s, n) = Ends(s, n - 1)
<1> DEFINE C(i) == s[i].type = "part" /\ Arrived(s[i])
           E(j) == s[j].type \in {"eop", "eep"}
<1>1. Parts(s, n - 1) = {i \in 1 .. n - 1 : C(i) /\ \A j \in i + 1 .. n - 1 : ~E(j)}
  BY DEF Parts
<1>2. Parts(s, n) = {i \in 1 .. n : C(i) /\ \A j \in i + 1 .. n : ~E(j)}
  BY DEF Parts
<1>3. C(n) => ~E(n)
  OBVIOUS
<1>4. Ends(s, n) = {e \in 1 .. n : s[e].type = "eop" /\ Arrived(s[e])}
  BY DEF Ends
<1>5. Ends(s, n - 1) = {e \in 1 .. n - 1 : s[e].type = "eop" /\ Arrived(s[e])}
  BY DEF Ends
<1>6. n \in Nat /\ n >= 1
  OBVIOUS
<1>a. 1 .. n = (1 .. n - 1) \union {n}
  BY <1>6
<1>b. \A i \in 1 .. n - 1 : i + 1 .. n = (i + 1 .. n - 1) \union {n}
  BY <1>6
<1>c. n + 1 .. n = {}
  BY <1>6
<1>d. n \notin 1 .. n - 1
  BY <1>6
<1>e. Arrived(s[n]) => (C(n) <=> s[n].type = "part")
  OBVIOUS
<1> HIDE DEF C, E
<1>7. Parts(s, n) = {i \in 1 .. n - 1 : C(i) /\ ~E(n) /\ \A j \in i + 1 .. n - 1 : ~E(j)}
                     \union {i \in {n} : C(n)}
  BY <1>2, <1>a, <1>b, <1>c
<1>8. E(n) => Parts(s, n) = {}
  BY <1>7, <1>3
<1>9. ~E(n) /\ C(n) => Parts(s, n) = Parts(s, n - 1) \union {n}
  BY <1>1, <1>7
<1>10. ~E(n) /\ ~C(n) => Parts(s, n) = Parts(s, n - 1)
  BY <1>1, <1>7
<1> QED
  BY <1>1, <1>3, <1>4, <1>5, <1>8, <1>9, <1>10, <1>a, <1>d DEF C, E

\* What the first n frames make of the stream does not depend on later ones.
LEMMA SameFrames ==
    ASSUME NEW s \in Seq(Frames), NEW t \in Seq(Frames), NEW n \in Int,
           \A i \in 1 .. n : s[i] = t[i]
    PROVE  /\ Ends(s, n) = Ends(t, n)
           /\ Parts(s, n) = Parts(t, n)
           /\ \A e \in 1 .. n : Parts(s, e - 1) = Parts(t, e - 1)
           /\ \A p, F : F \subseteq 1 .. n => (Joins(p, s, F) <=> Joins(p, t, F))
<1>1. ASSUME NEW m \in Int, m <= n
      PROVE  Parts(s, m) = Parts(t, m)
  <2>1. \A i \in 1 .. m : s[i] = t[i] /\ \A j \in i + 1 .. m : s[j] = t[j]
    BY <1>1
  <2> QED
    BY <2>1 DEF Parts
<1>2. ASSUME NEW F, F \subseteq 1 .. n
      PROVE  Payloads(s, F) = Payloads(t, F)
  <2>1. ASSUME NEW x
        PROVE  x \in Payloads(s, F) <=> x \in Payloads(t, F)
    <3>1. x \in Payloads(s, F) <=> \E i \in F : \E k \in 1 .. s[i].len : x = <<i, k>>
      BY DEF Payloads
    <3>2. x \in Payloads(t, F) <=> \E i \in F : \E k \in 1 .. t[i].len : x = <<i, k>>
      BY DEF Payloads
    <3>3. \A i \in F : s[i] = t[i]
      BY <1>2
    <3> QED
      BY <3>1, <3>2, <3>3, Zenon
  <2> QED
    BY <2>1
<1>3. Ends(s, n) = Ends(t, n)
  BY DEF Ends
<1>4. ASSUME NEW p, NEW F, F \subseteq 1 .. n
      PROVE  Joins(p, s, F) <=> Joins(p, t, F)
  BY <1>2, <1>4 DEF Joins, Payloads
<1> QED
  BY <1>1, <1>3, <1>4

\* So the packets of a prefix stay the packets of it.
LEMMA DeliveredPrefix ==
    ASSUME NEW s \in Seq(Frames), NEW t \in Seq(Frames), NEW n \in Int,
           \A i \in 1 .. n : s[i] = t[i],
           NEW ps \in Seq(Seq(Byte)), Delivered(ps, s, n)
    PROVE  Delivered(ps, t, n)
<1>1. Ends(s, n) = Ends(t, n)
  BY SameFrames
<1>2. ASSUME NEW k \in 1 .. Len(ps)
      PROVE  Joins(ps[k], t, Parts(t, EndOf(ps[k]) - 1) \union {EndOf(ps[k])})
  <2> DEFINE e == EndOf(ps[k])
  <2>1. e \in 1 .. n
    BY DEF Delivered, Ends
  <2>2. Joins(ps[k], s, Parts(s, e - 1) \union {e})
    BY DEF Delivered
  <2> HIDE DEF e
  <2>3. Parts(s, e - 1) = Parts(t, e - 1)
    BY <2>1, SameFrames
  <2>4. Parts(s, e - 1) \union {e} \subseteq 1 .. n
    BY <2>1 DEF Parts
  <2>5. Joins(ps[k], t, Parts(t, e - 1) \union {e})
    BY <2>2, <2>3, <2>4, SameFrames
  <2> QED
    BY <2>5 DEF e
<1> QED
  BY <1>1, <1>2 DEF Delivered

\* A frame that is no whole end of packet adds no packet.
LEMMA DeliveredSkip ==
    ASSUME NEW s \in Seq(Frames), NEW n \in 1 .. Len(s),
           ~(s[n].type = "eop" /\ Arrived(s[n])),
           NEW ps, Delivered(ps, s, n - 1)
    PROVE  Delivered(ps, s, n)
<1>1. Ends(s, n) = Ends(s, n - 1)
  BY FrameStep
<1> QED
  BY <1>1 DEF Delivered

\* A whole end of packet adds the one it ends.
LEMMA DeliveredAppend ==
    ASSUME NEW s \in Seq(Frames), NEW n \in 1 .. Len(s),
           s[n].type = "eop", Arrived(s[n]),
           NEW ps \in Seq(Seq(Byte)), Delivered(ps, s, n - 1),
           NEW q \in Seq(Byte), q # <<>>, EndOf(q) = n,
           Joins(q, s, Parts(s, n - 1) \union {n})
    PROVE  Delivered(Append(ps, q), s, n)
<1> DEFINE qs == Append(ps, q)
<1>1. Ends(s, n) = Ends(s, n - 1) \union {n}
  BY FrameStep
<1> HIDE DEF Byte
<1>a. Len(qs) = Len(ps) + 1 /\ Len(ps) \in Nat
  OBVIOUS
<1>2. /\ Len(qs) = Len(ps) + 1 /\ Len(ps) \in Nat
      /\ \A k \in 1 .. Len(ps) : qs[k] = ps[k]
      /\ qs[Len(ps) + 1] = q
  OBVIOUS
<1> HIDE DEF qs
<1>3. \A k \in 1 .. Len(qs) : k \in 1 .. Len(ps) \/ k = Len(ps) + 1
  BY <1>a
<1>4. ASSUME NEW k \in 1 .. Len(qs)
      PROVE  /\ qs[k] # <<>> /\ EndOf(qs[k]) \in Ends(s, n)
             /\ Joins(qs[k], s, Parts(s, EndOf(qs[k]) - 1) \union {EndOf(qs[k])})
  <2>1. CASE k \in 1 .. Len(ps)
    BY <1>1, <1>2, <2>1 DEF Delivered
  <2>2. CASE k = Len(ps) + 1
    BY <1>1, <1>2, <2>2
  <2> QED
    BY <1>3, <2>1, <2>2
<1>5. \A k \in 1 .. Len(ps) : EndOf(ps[k]) < n
  <2>1. \A k \in 1 .. Len(ps) : EndOf(ps[k]) \in Ends(s, n - 1)
    BY DEF Delivered
  <2>2. \A e \in Ends(s, n - 1) : e < n
    BY DEF Ends
  <2> QED
    BY <2>1, <2>2
<1>6. ASSUME NEW j \in 1 .. Len(qs), NEW k \in 1 .. Len(qs), j < k
      PROVE  EndOf(qs[j]) < EndOf(qs[k])
  <2>1. j \in 1 .. Len(ps)
    BY <1>2, <1>6
  <2>2. CASE k \in 1 .. Len(ps)
    BY <1>2, <1>6, <2>1, <2>2 DEF Delivered
  <2>3. CASE k = Len(ps) + 1
    BY <1>2, <1>5, <2>1, <2>3
  <2> QED
    BY <1>3, <2>2, <2>3
<1>7. ASSUME NEW e \in Ends(s, n)
      PROVE  \E k \in 1 .. Len(qs) : EndOf(qs[k]) = e
  <2>1. CASE e \in Ends(s, n - 1)
    <3>1. PICK k \in 1 .. Len(ps) : EndOf(ps[k]) = e
      BY <2>1 DEF Delivered
    <3> QED
      BY <1>2, <3>1
  <2>2. CASE e = n
    <3>1. Len(ps) + 1 \in 1 .. Len(qs)
      BY <1>2
    <3>2. EndOf(qs[Len(ps) + 1]) = e
      BY <1>2, <2>2
    <3> QED
      BY <3>1, <3>2
  <2> QED
    BY <1>1, <2>1, <2>2
<1>8. Delivered(qs, s, n)
  BY <1>4, <1>6, <1>7 DEF Delivered
<1> QED
  BY <1>8 DEF qs

\* Behind the payloads of earlier frames the payload of a frame continues them.
LEMMA JoinsExtend ==
    ASSUME NEW s \in Seq(Frames), NEW n \in 1 .. Len(s),
           NEW F, F \subseteq 1 .. n - 1,
           NEW p \in Seq(Byte), Joins(p, s, F),
           NEW q \in Seq(Byte), Len(q) = Len(p) + s[n].len,
           \A k \in 1 .. Len(p) : q[k] = p[k],
           \A k \in 1 .. s[n].len : q[Len(p) + k] = <<n, k>>
    PROVE  Joins(q, s, F \union {n})
<1> DEFINE m == Len(p)
           l == s[n].len
<1>1. m \in Nat /\ l \in Nat /\ Len(q) = m + l
  BY FrameLen
<1>2. \A k \in 1 .. m : q[k] = p[k]
  OBVIOUS
<1>3. \A k \in m + 1 .. m + l : q[k] = <<n, k - m>>
  <2> SUFFICES ASSUME NEW k \in m + 1 .. m + l
               PROVE  q[k] = <<n, k - m>>
    OBVIOUS
  <2>1. k - m \in 1 .. l /\ m + (k - m) = k
    BY <1>1
  <2> QED
    BY <2>1
<1>4. DOMAIN p = 1 .. m /\ DOMAIN q = 1 .. m + l
  BY <1>1
<1>5. Range(p) = Payloads(s, F) /\ \A j, k \in 1 .. m : j < k => Precedes(p[j], p[k])
  BY DEF Joins, Payloads
<1>6. \A k \in 1 .. m : \E i \in F : \E c \in 1 .. s[i].len : p[k] = <<i, c>>
  <2>1. \A k \in 1 .. m : p[k] \in Payloads(s, F)
    BY <1>4, <1>5 DEF Range
  <2>2. \A x \in Payloads(s, F) : \E i \in F : \E c \in 1 .. s[i].len : x = <<i, c>>
    BY DEF Payloads
  <2> QED
    BY <2>1, <2>2
<1> HIDE DEF m, l
<1>7. ASSUME NEW j \in 1 .. m + l, NEW k \in 1 .. m + l, j < k
      PROVE  Precedes(q[j], q[k])
  <2>1. CASE k \in 1 .. m
    BY <1>1, <1>2, <1>5, <1>7, <2>1
  <2>2. CASE j \in m + 1 .. m + l
    <3>1. k \in m + 1 .. m + l
      BY <1>1, <1>7, <2>2
    <3>2. q[j] = <<n, j - m>> /\ q[k] = <<n, k - m>> /\ j - m < k - m
      BY <1>1, <1>3, <1>7, <2>2, <3>1
    <3> QED
      BY <3>2 DEF Precedes
  <2>3. CASE j \in 1 .. m /\ k \in m + 1 .. m + l
    <3>1. PICK i \in F : \E c \in 1 .. s[i].len : p[j] = <<i, c>>
      BY <1>6, <2>3
    <3>2. i < n
      OBVIOUS
    <3>3. q[j][1] = i /\ q[k][1] = n
      BY <1>2, <1>3, <2>3, <3>1
    <3> QED
      BY <3>2, <3>3 DEF Precedes
  <2> QED
    BY <1>1, <2>1, <2>2, <2>3
<1>8. ASSUME NEW x
      PROVE  x \in Range(q) <=> x \in Payloads(s, F \union {n})
  <2>1. ASSUME NEW k \in 1 .. m + l
        PROVE  q[k] \in Payloads(s, F \union {n})
    <3>1. CASE k \in 1 .. m
      <4>1. PICK i \in F : \E c \in 1 .. s[i].len : p[k] = <<i, c>>
        BY <1>6, <3>1
      <4>2. PICK c \in 1 .. s[i].len : p[k] = <<i, c>>
        BY <4>1
      <4>3. <<i, c>> \in Payloads(s, F \union {n})
        BY PayloadByte
      <4> QED
        BY <1>2, <3>1, <4>2, <4>3
    <3>2. CASE k \in m + 1 .. m + l
      <4>1. k - m \in 1 .. s[n].len
        BY <1>1, <3>2 DEF l
      <4>2. <<n, k - m>> \in Payloads(s, F \union {n})
        BY <4>1, PayloadByte
      <4> QED
        BY <1>3, <3>2, <4>2
    <3> QED
      BY <1>1, <3>1, <3>2
  <2>2. ASSUME NEW i \in F \union {n}, NEW c \in 1 .. s[i].len, x = <<i, c>>
        PROVE  x \in Range(q)
    <3>1. CASE i \in F
      <4>1. x \in Range(p)
        BY <1>5, <2>2, <3>1, PayloadByte
      <4>2. PICK k \in 1 .. m : x = p[k]
        BY <1>4, <4>1 DEF Range
      <4>3. k \in 1 .. m + l /\ q[k] = x
        BY <1>1, <1>2, <4>2
      <4> QED
        BY <1>4, <4>3 DEF Range
    <3>2. CASE i = n
      <4>1. c \in 1 .. l
        BY <3>2 DEF l
      <4>2. m + c \in 1 .. m + l /\ q[m + c] = x
        BY <1>1, <1>3, <2>2, <3>2, <4>1
      <4> QED
        BY <1>4, <4>2 DEF Range
    <3> QED
      BY <3>1, <3>2
  <2>3. x \in Range(q) => x \in Payloads(s, F \union {n})
    BY <1>4, <2>1 DEF Range
  <2>4. x \in Payloads(s, F \union {n}) =>
          \E i \in F \union {n} : \E c \in 1 .. s[i].len : x = <<i, c>>
    BY DEF Payloads
  <2> QED
    BY <2>2, <2>3, <2>4
<1>9. Range(q) = Payloads(s, F \union {n})
  BY <1>8
<1> QED
  BY <1>1, <1>7, <1>9 DEF Joins, Payloads

\* Only the last frame of a closed connection may be cut.
FramesCut ==
    \A i \in 1 .. Len(sent) :
        Arrived(sent[i]) \/ (i = Len(sent) /\ open = "closed")

\* The first total bytes of recv_buf_ are the open parts of the packet.
OpenParts ==
    pc # "stopped" => Joins(SubSeq(buf, 1, total), sent, Parts(sent, Done))

\* They are followed by recv_buffer as long as every frame was whole.
InPlace ==
    pc # "stopped" /\ (Done > 0 => Arrived(sent[Done])) => off = total

\* A body is read only if it has bytes.
BodyHasBytes == pc = "body" => Cur.len > 0

\* The inductive invariant of the packets
PInv ==
    /\ IInv
    /\ FramesCut
    /\ OpenParts
    /\ InPlace
    /\ BodyHasBytes
    /\ PacketsIntact

\* It holds before anything is received.
LEMMA InitPInv == Init => PInv
<1> SUFFICES ASSUME Init
             PROVE  PInv
  OBVIOUS
<1>1. IInv
  BY InitIInv
<1>2. sent = <<>> /\ total = 0 /\ rd = 0 /\ pc = "header" /\ parsed = <<>> /\ off = 0
  BY DEF Init
<1>3. Done = 0 /\ Len(sent) = 0 /\ Len(parsed) = 0
  BY <1>2 DEF Done
<1>4. Ends(sent, 0) = {} /\ Parts(sent, 0) = {}
  BY DEF Ends, Parts
<1>5. Delivered(parsed, sent, Done)
  BY <1>3, <1>4 DEF Delivered
<1>6. Joins(SubSeq(buf, 1, total), sent, Parts(sent, Done))
  <2>1. Len(SubSeq(buf, 1, 0)) = 0 /\ DOMAIN SubSeq(buf, 1, 0) = {}
    BY <1>1 DEF IInv, TypeOK
  <2> QED
    BY <1>2, <1>3, <1>4, <2>1 DEF Joins, Range
<1> QED
  BY <1>1, <1>2, <1>3, <1>5, <1>6
  DEF PInv, FramesCut, OpenParts, InPlace, BodyHasBytes, PacketsIntact,
      WholePackets, LastCutShort

\* A step that stops the loop keeps it: the frame it stops at is the only one
\* that can be missing.
LEMMA StopPInv ==
    ASSUME PInv, IInv', pc # "stopped", pc' = "stopped",
           UNCHANGED <<netVars, rd, total, off, size, buf, parsed>>
    PROVE  PInv'
<1>1. UNCHANGED <<sent, open, backend, rd, parsed>>
  BY DEF netVars, config
<1>2. FramesCut'
  BY <1>1 DEF PInv, FramesCut
<1>3. PacketsIntact'
  <2>1. CASE Delivered(parsed, sent, Done)
    BY <1>1, <2>1 DEF PacketsIntact, WholePackets, LastCutShort, Done
  <2>2. CASE /\ backend = "server" /\ open = "closed" /\ pc # "body"
             /\ rd > 0 /\ rd = Len(sent) /\ ~Whole
             /\ Len(parsed) > 0
             /\ Delivered(SubSeq(parsed, 1, Len(parsed) - 1), sent, rd)
             /\ Joins(parsed[Len(parsed)], sent, Parts(sent, rd - 1))
    BY <1>1, <2>2 DEF PacketsIntact, WholePackets, LastCutShort, Whole, Cur
  <2> QED
    BY <2>1, <2>2 DEF PInv, PacketsIntact, WholePackets, LastCutShort
<1> QED
  BY <1>2, <1>3 DEF PInv, OpenParts, InPlace, BodyHasBytes

\* While a body is read everything before it has been delivered.
LEMMA BodyDelivered ==
    ASSUME PInv, pc = "body"
    PROVE  /\ rd \in 1 .. Len(sent) /\ Done = rd - 1
           /\ sent \in Seq(Frames) /\ parsed \in Seq(Seq(Byte))
           /\ Cur = sent[rd] /\ Cur \in Frames
           /\ Cur.len \in Nat /\ Cur.len > 0 /\ Cur.got \in Int
           /\ off = total /\ total \in Nat /\ total + Cur.len <= size
           /\ Delivered(parsed, sent, rd - 1)
           /\ Joins(SubSeq(buf, 1, total), sent, Parts(sent, rd - 1))
           /\ ~Whole => rd = Len(sent) /\ open = "closed"
<1>1. IInv /\ TypeOK /\ StoresInBounds
  BY DEF PInv, IInv
<1>2. rd \in 1 .. Len(sent) /\ sent \in Seq(Frames) /\ parsed \in Seq(Seq(Byte))
  BY <1>1 DEF TypeOK
<1>3. Done = rd - 1 /\ Cur = sent[rd]
  BY DEF Done, Cur
<1>4. Cur \in Frames
  BY <1>2, <1>3
<1>5. Cur.len \in Nat /\ Cur.got \in Int
  BY <1>4, FrameLen
<1>6. Cur.len > 0
  BY DEF PInv, BodyHasBytes
<1>7. Done > 0 => Arrived(sent[Done])
  BY <1>2, <1>3 DEF PInv, FramesCut
<1>8. off = total
  BY <1>7 DEF PInv, InPlace
<1>9. total \in Nat /\ total + Cur.len <= size
  BY <1>1, <1>8 DEF TypeOK, StoresInBounds
<1>10. ~Whole => rd = Len(sent) /\ open = "closed"
  BY <1>2, <1>3 DEF PInv, FramesCut, Whole, Arrived
<1>11. Delivered(parsed, sent, rd - 1)
  BY <1>3 DEF PInv, PacketsIntact, WholePackets, LastCutShort
<1>12. Joins(SubSeq(buf, 1, total), sent, Parts(sent, rd - 1))
  BY <1>3 DEF PInv, OpenParts
<1> QED
  BY <1>2, <1>3, <1>4, <1>5, <1>6, <1>8, <1>9, <1>10, <1>11, <1>12

\* What the buffer holds once a payload is stored: the open parts, and behind
\* them, if the payload arrived, the parts and the payload.
LEMMA StoredBytes ==
    ASSUME PInv, pc = "body", Store(Cur.got)
    PROVE  /\ SubSeq(buf', 1, total) = SubSeq(buf, 1, total)
           /\ SubSeq(buf', 1, total) \in Seq(Byte)
           /\ Whole => LET q == SubSeq(buf', 1, total + Cur.len)
                       IN  /\ q \in Seq(Byte) /\ q # <<>> /\ EndOf(q) = rd
                           /\ Joins(q, sent, Parts(sent, rd - 1) \union {rd})
<1> DEFINE p == SubSeq(buf, 1, total)
           q == SubSeq(buf', 1, total + Cur.len)
<1>1. TypeOK
  BY DEF PInv, IInv
<1>2. /\ rd \in 1 .. Len(sent) /\ sent \in Seq(Frames) /\ Cur = sent[rd]
      /\ Cur.len \in Nat /\ Cur.len > 0 /\ Cur.got \in Int
      /\ off = total /\ total \in Nat /\ total + Cur.len <= size
      /\ Joins(p, sent, Parts(sent, rd - 1))
  BY BodyDelivered
<1>3. size \in Nat /\ buf \in [1 .. size -> Byte] /\ buf' \in [1 .. size -> Byte]
  BY <1>1, <1>2, StoreTyped DEF TypeOK
<1> HIDE DEF Byte
<1>4. buf \in Seq(Byte) /\ buf' \in Seq(Byte) /\ Len(buf) = size /\ Len(buf') = size
  BY <1>3
<1>5. /\ p \in Seq(Byte) /\ Len(p) = total
      /\ \A k \in 1 .. total : p[k] = buf[k]
  BY <1>2, <1>3, <1>4
<1>6. /\ q \in Seq(Byte) /\ Len(q) = total + Cur.len
      /\ \A k \in 1 .. total + Cur.len : q[k] = buf'[k]
  BY <1>2, <1>3, <1>4
<1>7. \A k \in 1 .. total : buf'[k] = buf[k]
  BY <1>2, <1>3 DEF Store
<1>8. SubSeq(buf', 1, total) \in Seq(Byte) /\ Len(SubSeq(buf', 1, total)) = total
      /\ \A k \in 1 .. total : SubSeq(buf', 1, total)[k] = buf'[k]
  BY <1>2, <1>3, <1>4
<1>9. SubSeq(buf', 1, total) = p
  BY <1>2, <1>5, <1>7, <1>8
<1>10. ASSUME Whole
       PROVE  /\ q # <<>> /\ EndOf(q) = rd
              /\ Joins(q, sent, Parts(sent, rd - 1) \union {rd})
  <2>1. \A k \in 1 .. Cur.len : buf'[total + k] = <<rd, k>>
    BY <1>2, <1>3, <1>10 DEF Store, Whole
  <2>2. \A k \in 1 .. Cur.len : q[total + k] = <<rd, k>>
    <3> HIDE DEF q
    <3>1. \A k \in 1 .. Cur.len : total + k \in 1 .. total + Cur.len
      BY <1>2
    <3> QED
      BY <1>6, <2>1, <3>1, Zenon
  <2>3. \A k \in 1 .. total : q[k] = p[k]
    BY <1>2, <1>5, <1>6, <1>7
  <2>4. Parts(sent, rd - 1) \subseteq 1 .. rd - 1
    BY <1>2, FrameStep
  <2> HIDE DEF p, q
  <2>5. Joins(q, sent, Parts(sent, rd - 1) \union {rd})
    BY <1>2, <1>5, <1>6, <2>2, <2>3, <2>4, JoinsExtend
  <2>6. q # <<>> /\ EndOf(q) = rd
    <3>1. Len(q) = total + Cur.len /\ Cur.len \in 1 .. Cur.len
      BY <1>2, <1>6
    <3>2. q[Len(q)] = <<rd, Cur.len>>
      BY <2>2, <3>1
    <3> QED
      BY <1>2, <3>1, <3>2 DEF EndOf
  <2> QED
    BY <2>5, <2>6
<1> QED
  BY <1>5, <1>6, <1>8, <1>9, <1>10

\* Without its last element an extended sequence is what it was.
LEMMA AppendEnds ==
    ASSUME NEW S, NEW s \in Seq(S), NEW x \in S
    PROVE  LET t == Append(s, x)
               l == Len(t)
           IN  l > 0 /\ SubSeq(t, 1, l - 1) = s /\ t[l] = x
<1>1. /\ Append(s, x) \in Seq(S) /\ Len(Append(s, x)) = Len(s) + 1 /\ Len(s) \in Nat
      /\ \A k \in 1 .. Len(s) : Append(s, x)[k] = s[k]
      /\ Append(s, x)[Len(s) + 1] = x
  OBVIOUS
<1>2. /\ SubSeq(Append(s, x), 1, Len(s)) \in Seq(S)
      /\ Len(SubSeq(Append(s, x), 1, Len(s))) = Len(s)
      /\ \A k \in 1 .. Len(s) : SubSeq(Append(s, x), 1, Len(s))[k] = s[k]
  BY <1>1
<1>3. SubSeq(Append(s, x), 1, Len(s)) = s
  BY <1>2
<1> QED
  BY <1>1, <1>3

\* A frame the peer adds, whole or as the last one, changes nothing for those
\* before it.
LEMMA PeerPInv ==
    ASSUME PInv, IInv', open = "open",
           UNCHANGED <<config, rd, pc, total, off, size, buf, parsed>>,
           open' \in {"open", "closed"},
           NEW f \in Frames, Arrived(f) \/ open' = "closed",
           sent' = Append(sent, f)
    PROVE  PInv'
<1>1. TypeOK /\ sent \in Seq(Frames) /\ rd \in 0 .. Len(sent) /\ Len(sent) \in Nat
  BY DEF PInv, IInv, TypeOK
<1>2. /\ sent' \in Seq(Frames) /\ Len(sent') = Len(sent) + 1
      /\ \A i \in 1 .. Len(sent) : sent'[i] = sent[i]
      /\ sent'[Len(sent) + 1] = f
  BY <1>1, AppendKeeps
<1>3. Done' = Done /\ Done \in Int /\ Done <= rd /\ rd' = rd /\ pc' = pc
  BY <1>1 DEF Done, TypeOK
<1>4. \A n \in Int : n <= rd => \A i \in 1 .. n : sent[i] = sent'[i]
  BY <1>1, <1>2
<1>5. FramesCut'
  BY <1>1, <1>2 DEF PInv, FramesCut
<1>6. OpenParts'
  <2> SUFFICES ASSUME pc # "stopped"
               PROVE  Joins(SubSeq(buf, 1, total), sent', Parts(sent', Done))
    BY <1>3 DEF OpenParts
  <2>1. Joins(SubSeq(buf, 1, total), sent, Parts(sent, Done))
    BY DEF PInv, OpenParts
  <2>2. Parts(sent, Done) = Parts(sent', Done)
    BY <1>1, <1>2, <1>3, <1>4, SameFrames
  <2>3. Parts(sent, Done) \subseteq 1 .. Done
    BY DEF Parts
  <2>4. \A p, F : F \subseteq 1 .. Done => (Joins(p, sent, F) <=> Joins(p, sent', F))
    BY <1>1, <1>2, <1>3, <1>4, SameFrames
  <2> QED
    BY <2>1, <2>2, <2>3, <2>4, Zenon
<1>7. InPlace'
  <2>1. Done > 0 => sent'[Done] = sent[Done]
    BY <1>1, <1>2, <1>3
  <2> QED
    BY <1>3, <2>1 DEF PInv, InPlace
<1>8. BodyHasBytes'
  <2>1. pc = "body" => Cur' = Cur
    BY <1>1, <1>2, <1>3 DEF Cur, TypeOK
  <2> QED
    BY <1>3, <2>1 DEF PInv, BodyHasBytes
<1>9. PacketsIntact'
  <2>1. parsed \in Seq(Seq(Byte)) /\ parsed' = parsed
    BY <1>1 DEF TypeOK
  <2>2. CASE Delivered(parsed, sent, Done)
    <3>1. Delivered(parsed, sent', Done)
      BY <1>1, <1>2, <1>3, <1>4, <2>1, <2>2, DeliveredPrefix
    <3> QED
      BY <1>3, <2>1, <3>1 DEF PacketsIntact, WholePackets, LastCutShort
  <2>3. CASE pc = "stopped" /\ Delivered(parsed, sent, rd - 1)
    <3>1. rd - 1 \in Int /\ rd - 1 <= rd
      BY <1>1
    <3>2. Delivered(parsed, sent', rd - 1)
      BY <1>1, <1>2, <1>4, <2>1, <2>3, <3>1, DeliveredPrefix
    <3> QED
      BY <1>3, <2>1, <2>3, <3>2 DEF PacketsIntact, WholePackets, LastCutShort
  <2> QED
    BY <2>2, <2>3 DEF PInv, PacketsIntact, WholePackets, LastCutShort
<1> QED
  BY <1>5, <1>6, <1>7, <1>8, <1>9 DEF PInv

\* The body of a frame other than a whole end of packet, dealt with, adds no
\* packet.
LEMMA BodySkipped ==
    ASSUME PInv, IInv', pc = "body", pc' # "body",
           UNCHANGED <<netVars, rd, parsed>>,
           ~(Cur.type = "eop" /\ Whole),
           pc' # "stopped" => Joins(SubSeq(buf', 1, total'), sent, Parts(sent, rd)),
           pc' # "stopped" /\ Whole => off' = total'
    PROVE  PInv'
<1>1. UNCHANGED <<sent, open, backend, rd, parsed>>
  BY DEF netVars, config
<1>2. Done' = rd
  BY <1>1 DEF Done
<1>3. FramesCut'
  BY <1>1 DEF PInv, FramesCut
<1>4. /\ rd \in 1 .. Len(sent) /\ sent \in Seq(Frames) /\ Cur = sent[rd]
      /\ Delivered(parsed, sent, rd - 1)
  BY BodyDelivered
<1>5. Delivered(parsed, sent, rd)
  BY <1>4, DeliveredSkip DEF Whole, Arrived
<1>6. PacketsIntact'
  BY <1>1, <1>2, <1>5 DEF PacketsIntact, WholePackets, LastCutShort
<1>7. OpenParts'
  BY <1>1, <1>2 DEF OpenParts
<1>8. InPlace'
  BY <1>1, <1>2, <1>4 DEF InPlace, Whole, Arrived
<1> QED
  BY <1>3, <1>6, <1>7, <1>8 DEF PInv, BodyHasBytes

\* Nothing is open after an end of packet.
LEMMA NothingOpen ==
    ASSUME PInv, pc = "body", Cur.type \in {"eop", "eep"}, NEW b \in Seq(Byte)
    PROVE  Joins(SubSeq(b, 1, 0), sent, Parts(sent, rd))
<1>1. Parts(sent, rd) = {}
  BY BodyDelivered, FrameStep
<1> HIDE DEF Byte
<1>2. Len(SubSeq(b, 1, 0)) = 0 /\ DOMAIN SubSeq(b, 1, 0) = {}
  OBVIOUS
<1> QED
  BY <1>1, <1>2 DEF Joins, Range

\* Every step of the peer and of the loop keeps the invariant.
LEMMA StepPInv == PInv /\ [Next]_vars => PInv'
<1> SUFFICES ASSUME PInv, [Next]_vars
             PROVE  PInv'
  OBVIOUS
<1>0. IInv' /\ IInv
  BY StepIInv DEF PInv
<1>1. ASSUME NEW f \in Frames, PeerSends(f)
      PROVE  PInv'
  BY <1>0, <1>1, PeerPInv DEF PeerSends, Arrived
<1>2. CASE PeerCloses
  <2>1. CASE UNCHANGED sent
    <3>1. UNCHANGED <<sent, backend, rd, pc, total, off, buf, parsed>> /\ open = "open"
      BY <1>2, <2>1 DEF PeerCloses, config
    <3>2. FramesCut' /\ OpenParts' /\ InPlace' /\ BodyHasBytes'
      BY <3>1 DEF PInv, FramesCut, OpenParts, InPlace, BodyHasBytes, Done, Cur
    <3>3. PacketsIntact'
      BY <3>1 DEF PInv, PacketsIntact, WholePackets, LastCutShort, Done
    <3> QED
      BY <1>0, <3>2, <3>3 DEF PInv
  <2>2. ASSUME NEW f \in Frames, sent' = Append(sent, f)
        PROVE  PInv'
    BY <1>0, <1>2, <2>2, PeerPInv DEF PeerCloses
  <2> QED
    BY <1>2, <2>1, <2>2 DEF PeerCloses
<1>3. CASE HeaderEnd \/ ReceiveError \/ BodyFails
  BY <1>0, <1>3, StopPInv DEF HeaderEnd, ReceiveError, BodyFails, Stop
<1>4. CASE ReadHeader
  <2> DEFINE f == sent[rd + 1]
  <2>1. /\ rd' = rd + 1 /\ rd \in Nat /\ rd < Len(sent) /\ pc = "header"
        /\ UNCHANGED <<sent, open, backend>> /\ parsed' = parsed
        /\ pc' \in {"stopped", "body"}
    BY <1>0, <1>4
    DEF ReadHeader, HeaderArrived, Stop, netVars, config, IInv, TypeOK
  <2>2. Done = rd /\ Delivered(parsed, sent, rd)
    BY <2>1 DEF PInv, PacketsIntact, WholePackets, LastCutShort, Done
  <2>3. FramesCut'
    BY <2>1 DEF PInv, FramesCut
  <2>4. PacketsIntact'
    <3>1. rd' - 1 = rd
      BY <2>1
    <3> QED
      BY <2>1, <2>2, <3>1 DEF PacketsIntact, WholePackets, LastCutShort, Done
  <2>5. CASE pc' = "stopped"
    BY <1>0, <2>3, <2>4, <2>5 DEF PInv, OpenParts, InPlace, BodyHasBytes
  <2>6. CASE pc' = "body"
    <3>1. f \in Frames /\ f.len \in Nat /\ f.len # 0 /\ Cur' = f /\ Done' = rd
      <4>1. f \in Frames
        BY <1>0, <2>1 DEF IInv, TypeOK
      <4> QED
        BY <1>4, <2>1, <2>6, <4>1, FrameLen DEF ReadHeader, Stop, Cur, Done
    <3>2. BodyHasBytes'
      BY <3>1 DEF BodyHasBytes
    <3>3. rd > 0 => Arrived(sent[rd])
      BY <2>1 DEF PInv, FramesCut
    <3>4. off = total /\ total' = total
      BY <1>4, <2>1, <2>2, <2>6, <3>3 DEF ReadHeader, Stop, PInv, InPlace
    <3>5. CASE UNCHANGED <<off, size, buf>>
      BY <1>0, <2>1, <2>2, <2>3, <2>4, <3>1, <3>2, <3>4, <3>5
      DEF PInv, OpenParts, InPlace
    <3>6. CASE /\ ~Fits(f.len) /\ size' = total + f.len /\ off' = total
               /\ buf' = [k \in 1 .. size' |-> IF k <= size THEN buf[k] ELSE <<>>]
      <4>1. /\ size \in Nat /\ total \in Nat /\ off <= size
            /\ buf \in [1 .. size -> Byte] /\ buf' \in [1 .. size' -> Byte]
        BY <1>0 DEF IInv, TypeOK, StoresInBounds
      <4>2. size' > size /\ size' \in Nat /\ total <= size
        BY <3>1, <3>4, <3>6, <4>1 DEF Fits
      <4> HIDE DEF Byte
      <4>3. buf \in Seq(Byte) /\ buf' \in Seq(Byte) /\ Len(buf) = size /\ Len(buf') = size'
        BY <4>1, <4>2
      <4>4. \A k \in 1 .. total : buf'[k] = buf[k]
        BY <3>6, <4>1, <4>2
      <4>5. SubSeq(buf', 1, total) = SubSeq(buf, 1, total)
        BY <4>1, <4>2, <4>3, <4>4
      <4>6. OpenParts'
        BY <2>1, <2>2, <3>1, <3>4, <4>5 DEF PInv, OpenParts
      <4>7. InPlace'
        BY <3>4, <3>6 DEF InPlace
      <4> QED
        BY <1>0, <2>3, <2>4, <3>2, <4>6, <4>7 DEF PInv
    <3> QED
      BY <1>4, <2>6, <3>5, <3>6 DEF ReadHeader, Stop
  <2> QED
    BY <2>1, <2>5, <2>6
<1>5. CASE ReadEop
  <2>1. /\ pc = "body" /\ Cur.type = "eop" /\ Received /\ Store(Cur.got)
        /\ parsed' = Append(parsed, SubSeq(buf', 1, total + ReceivedLen))
        /\ pc' \in {"header", "stopped"} /\ total' = 0 /\ off' = 0
        /\ UNCHANGED <<sent, open, backend, rd>>
    BY <1>5 DEF ReadEop, netVars, config
  <2>2. /\ rd \in 1 .. Len(sent) /\ sent \in Seq(Frames) /\ Cur = sent[rd]
        /\ parsed \in Seq(Seq(Byte)) /\ total \in Nat
        /\ Delivered(parsed, sent, rd - 1)
        /\ Joins(SubSeq(buf, 1, total), sent, Parts(sent, rd - 1))
        /\ ~Whole => rd = Len(sent) /\ open = "closed"
    BY <2>1, BodyDelivered
  <2>3. FramesCut' /\ BodyHasBytes' /\ InPlace' /\ Done' = rd
    BY <2>1 DEF PInv, FramesCut, BodyHasBytes, InPlace, Done
  <2>4. OpenParts'
    <3>1. buf' \in Seq(Byte)
      <4> HIDE DEF Byte
      <4> QED
        BY <1>0 DEF IInv, TypeOK
    <3>2. Joins(SubSeq(buf', 1, 0), sent, Parts(sent, rd))
      BY <2>1, <3>1, NothingOpen
    <3> QED
      BY <2>1, <2>3, <3>2 DEF OpenParts
  <2>5. CASE Whole
    <3> DEFINE q == SubSeq(buf', 1, total + Cur.len)
    <3>1. /\ q \in Seq(Byte) /\ q # <<>> /\ EndOf(q) = rd
          /\ Joins(q, sent, Parts(sent, rd - 1) \union {rd})
      BY <2>1, <2>5, StoredBytes
    <3>2. parsed' = Append(parsed, q)
      BY <2>1, <2>5 DEF ReceivedLen
    <3> HIDE DEF q
    <3>3. Delivered(Append(parsed, q), sent, rd)
      BY <2>1, <2>2, <2>5, <3>1, DeliveredAppend DEF Whole, Arrived
    <3>4. PacketsIntact'
      BY <2>1, <2>3, <3>2, <3>3 DEF PacketsIntact, WholePackets, LastCutShort
    <3> QED
      BY <1>0, <2>3, <2>4, <3>4 DEF PInv
  <2>6. CASE ~Whole
    <3> DEFINE q == SubSeq(buf', 1, total)
    <3>1. q \in Seq(Byte) /\ Joins(q, sent, Parts(sent, rd - 1))
      BY <2>1, <2>2, StoredBytes
    <3>2. parsed' = Append(parsed, q) /\ backend = "server"
      <4>1. total + ReceivedLen = total
        BY <2>2, <2>6 DEF ReceivedLen
      <4> QED
        BY <2>1, <2>6, <4>1 DEF Received
    <3>3. Delivered(parsed, sent, rd)
      BY <2>2, <2>6, DeliveredSkip DEF Whole, Arrived
    <3> HIDE DEF q, Byte
    <3>4. /\ Len(parsed') > 0 /\ SubSeq(parsed', 1, Len(parsed') - 1) = parsed
          /\ parsed'[Len(parsed')] = q
      BY <2>2, <3>1, <3>2, AppendEnds
    <3>5. /\ Len(parsed') > 0
          /\ Delivered(SubSeq(parsed', 1, Len(parsed') - 1), sent', rd')
          /\ Joins(parsed'[Len(parsed')], sent', Parts(sent', rd' - 1))
      BY <2>1, <3>1, <3>3, <3>4
    <3>6. /\ backend' = "server" /\ open' = "closed" /\ pc' # "body"
          /\ rd' > 0 /\ rd' = Len(sent') /\ ~Whole'
      BY <2>1, <2>2, <2>6, <3>2 DEF Whole, Cur
    <3>7. PacketsIntact'
      BY <3>5, <3>6 DEF PacketsIntact, WholePackets, LastCutShort
    <3> QED
      BY <1>0, <2>3, <2>4, <3>7 DEF PInv
  <2> QED
    BY <2>5, <2>6
<1>6. CASE ReadPart
  <2>1. /\ pc = "body" /\ Cur.type = "part" /\ Store(Cur.got)
        /\ total' = total + ReceivedLen /\ off' = off + Cur.len /\ pc' = "header"
        /\ UNCHANGED <<netVars, rd, parsed>>
    BY <1>6 DEF ReadPart
  <2>2. /\ rd \in 1 .. Len(sent) /\ sent \in Seq(Frames) /\ Cur = sent[rd]
        /\ off = total /\ total \in Nat /\ Cur.len \in Nat
        /\ Joins(SubSeq(buf, 1, total), sent, Parts(sent, rd - 1))
    BY <2>1, BodyDelivered
  <2>3. CASE Whole
    <3>1. Parts(sent, rd) = Parts(sent, rd - 1) \union {rd}
      BY <2>1, <2>2, <2>3, FrameStep DEF Whole, Arrived
    <3>2. Joins(SubSeq(buf', 1, total + Cur.len), sent, Parts(sent, rd - 1) \union {rd})
      BY <2>1, <2>3, StoredBytes
    <3>3. total' = total + Cur.len /\ off' = total'
      BY <2>1, <2>2, <2>3 DEF ReceivedLen
    <3> QED
      BY <1>0, <2>1, <3>1, <3>2, <3>3, BodySkipped
  <2>4. CASE ~Whole
    <3>1. Parts(sent, rd) = Parts(sent, rd - 1)
      BY <2>1, <2>2, <2>4, FrameStep DEF Whole, Arrived
    <3>2. SubSeq(buf', 1, total) = SubSeq(buf, 1, total)
      BY <2>1, StoredBytes
    <3>3. total' = total
      BY <2>1, <2>2, <2>4 DEF ReceivedLen
    <3> QED
      BY <1>0, <2>1, <2>2, <2>4, <3>1, <3>2, <3>3, BodySkipped
  <2> QED
    BY <2>3, <2>4
<1>7. CASE IgnoreEep
  <2>1. /\ pc = "body" /\ Cur.type = "eep" /\ pc' = "header" /\ total' = 0 /\ off' = 0
        /\ UNCHANGED <<netVars, rd, buf, parsed>>
    BY <1>7 DEF IgnoreEep
  <2>2. buf \in Seq(Byte)
    <3> HIDE DEF Byte
    <3> QED
      BY <1>0 DEF IInv, TypeOK
  <2>3. Joins(SubSeq(buf, 1, 0), sent, Parts(sent, rd))
    BY <2>1, <2>2, NothingOpen
  <2> QED
    BY <1>0, <2>1, <2>3, BodySkipped
<1>8. CASE ReadTimeCode
  <2>1. /\ pc = "body" /\ Cur.type = "timecode" /\ pc' # "body"
        /\ UNCHANGED <<netVars, rd, total, off, buf, parsed>>
    BY <1>8 DEF ReadTimeCode
  <2>2. /\ rd \in 1 .. Len(sent) /\ sent \in Seq(Frames) /\ Cur = sent[rd]
        /\ off = total
        /\ Joins(SubSeq(buf, 1, total), sent, Parts(sent, rd - 1))
    BY <2>1, BodyDelivered
  <2>3. Parts(sent, rd) = Parts(sent, rd - 1)
    BY <2>1, <2>2, FrameStep
  <2> QED
    BY <1>0, <2>1, <2>2, <2>3, BodySkipped
<1>9. CASE UNCHANGED vars
  BY <1>0, <1>9
  DEF vars, config, PInv, FramesCut, OpenParts, InPlace, BodyHasBytes, PacketsIntact,
      WholePackets, LastCutShort,
      Done, Whole, Cur
<1> QED
  BY <1>1, <1>2, <1>3, <1>4, <1>5, <1>6, <1>7, <1>8, <1>9
  DEF Next, LoopStep, Stopped

\* Whatever the peer sends, in frames of any length and number, and wherever
\* it closes: the parser is given the packets of the stream, in order and
\* whole, except that the last thing a TCPServer parses may be a packet cut
\* short by the end of the connection, without any of its last payload.
THEOREM ReceivesPackets == Spec => []PacketsIntact
<1>1. PInv => PacketsIntact
  BY DEF PInv
<1> QED
  BY <1>1, InitPInv, StepPInv, PTL DEF Spec

\* A TCPClient, and a TCPServer as long as no frame is cut, parses nothing but
\* whole packets: the exception needs a server and a frame that did not arrive.
THEOREM WholeUnlessCut ==
    Spec => []((backend = "client" \/ \A i \in 1 .. Len(sent) : Arrived(sent[i]))
                 => WholePackets)
<1>1. PInv => ((backend = "client" \/ \A i \in 1 .. Len(sent) : Arrived(sent[i]))
                 => WholePackets)
  <2> SUFFICES ASSUME PInv, LastCutShort
               PROVE  /\ backend # "client"
                      /\ \E i \in 1 .. Len(sent) : ~Arrived(sent[i])
    BY DEF PInv, PacketsIntact
  <2>1. backend = "server" /\ rd > 0 /\ rd = Len(sent) /\ ~Whole
    BY DEF LastCutShort
  <2>2. rd \in 1 .. Len(sent) /\ ~Arrived(sent[rd])
    BY <2>1 DEF PInv, IInv, TypeOK, Whole, Cur, Arrived
  <2> QED
    BY <2>1, <2>2
<1> QED
  BY <1>1, InitPInv, StepPInv, PTL DEF Spec
=============================================================================
