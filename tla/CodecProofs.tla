----------------------------- MODULE CodecProofs -----------------------------
(***************************************************************************)
(* For all paths, reply addresses, transaction IDs, memory addresses and   *)
(* data: a command that is built and parsed is the command, a reply that   *)
(* is built from it and parsed answers it, and a bit inverted behind the   *)
(* path of either is noticed.                                              *)
(*                                                                         *)
(* The lemmas go from the bytes of CodecBytes to packets: the path, the    *)
(* functions of the parser, the exchange.                                  *)
(***************************************************************************)
EXTENDS CodecBytes

-----------------------------------------------------------------------------
(* The parser on a command.                                                *)

\* The first byte that is a logical address ends the path, whatever path of
\* bytes below 32 comes before it.
LEMMA PathEnds ==
    ASSUME NEW path \in Seq(0 .. 31), NEW p \in Seq(Octet),
           p[1] >= 32, 4 <= Len(p)
    PROVE  LET s       == path \o p
               logical == {i \in 1 .. Len(s) : s[i] >= 32}
           IN  /\ logical # {} /\ Min(logical) = Len(path) + 1
               /\ SubSeq(s, 1, Min(logical) - 1) = path
               /\ SubSeq(s, Min(logical), Len(s)) = p
<1> DEFINE s       == path \o p
           logical == {i \in 1 .. Len(s) : s[i] >= 32}
<1>1. Len(path) \in Nat /\ Len(p) \in Nat
  BY LenProperties
<1>2. path \in Seq(Octet)
  BY SeqMonotonic DEF Octet
<1>3. s \in Seq(Octet) /\ Len(s) = Len(path) + Len(p)
  BY <1>2, Joined
<1>4. \A i \in 1 .. Len(path) : s[i] = path[i]
  BY <1>2, Joined
<1>5. \A i \in 1 .. Len(p) : s[Len(path) + i] = p[i]
  BY <1>2, Joined
<1> HIDE DEF s
<1>6. \A i \in 1 .. Len(path) : ~(path[i] >= 32)
  <2>1. \A i \in 1 .. Len(path) : path[i] \in 0 .. 31
    BY ElementOfSeq
  <2>2. \A x \in 0 .. 31 : ~(x >= 32)
    OBVIOUS
  <2> QED
    BY Zenon, <2>1, <2>2
<1>7. Min(logical) = Len(path) + 1
  <2>1. Len(path) + 1 \in logical
    BY <1>1, <1>3, <1>5
  <2>2. \A i \in logical : Len(path) + 1 <= i
    <3> SUFFICES ASSUME NEW i \in 1 .. Len(s), s[i] >= 32, i <= Len(path)
                 PROVE  FALSE
      BY <1>1, <1>3
    <3>1. i \in 1 .. Len(path)
      BY <1>1, <1>3
    <3> QED
      BY <1>4, <1>6, <3>1
  <2>3. logical \subseteq Int
    BY <1>3
  <2> HIDE DEF logical
  <2> QED
    BY Zenon, <2>1, <2>2, <2>3, MinIs
<1>8. SubSeq(s, 1, Len(path)) = path
  <2>1. \A i \in 1 .. Len(path) : s[0 + i] = path[i]
    BY <1>1, <1>4
  <2>2. Len(path) = 0 + Len(path) /\ Len(path) <= Len(s)
    BY <1>1, <1>3
  <2>3. SubSeq(s, 0 + 1, Len(path)) = path
    BY <1>2, <1>3, <2>1, <2>2, Slice
  <2> QED
    BY <2>3
<1>9. SubSeq(s, Len(path) + 1, Len(s)) = p
  <2>1. Len(s) <= Len(s)
    BY <1>1, <1>3
  <2> QED
    BY <1>1, <1>3, <1>5, <2>1, Slice
<1>10. logical # {} /\ Min(logical) - 1 = Len(path)
  <2>1. Len(path) + 1 \in logical
    BY <1>1, <1>3, <1>5
  <2> HIDE DEF logical
  <2> QED
    BY <1>1, <1>7, <2>1
<1> HIDE DEF logical
<1> QED
  BY Zenon, <1>7, <1>8, <1>9, <1>10 DEF s, logical

\* parse hands the packet behind its path to the function its instruction
\* selects.
LEMMA ParseSelects ==
    ASSUME NEW path \in Seq(0 .. 31), NEW p \in Seq(Octet),
           p[1] >= 32, 4 <= Len(p)
    PROVE  parse(path \o p) =
             CASE ~Bit(p[3], Command) /\ ~Bit(p[3], Write) ->
                    parseReadReplyPacket(path, p)
               [] ~Bit(p[3], Command) /\ Bit(p[3], Write) ->
                    parseWriteReplyPacket(path, p)
               [] Bit(p[3], Command) /\ ~Bit(p[3], Write) ->
                    parseReadPacket(path, p)
               [] Bit(p[3], Command) /\ Bit(p[3], Write) ->
                    parseWritePacket(path, p)
<1> DEFINE s == path \o p
           logical == {i \in 1 .. Len(s) : s[i] >= 32}
           a == SubSeq(s, 1, Min(logical) - 1)
           b == SubSeq(s, Min(logical), Len(s))
<1>1. logical # {} /\ a = path /\ b = p
  BY Zenon, PathEnds
<1>2. Len(p) \in Nat /\ ~(Len(p) < 4)
  BY LenProperties
<1>3. parse(s) = IF logical = {} \/ Len(b) < 4 THEN Failed("IncompletePacket")
        ELSE CASE ~Bit(b[3], Command) /\ ~Bit(b[3], Write) ->
                    parseReadReplyPacket(a, b)
               [] ~Bit(b[3], Command) /\ Bit(b[3], Write) ->
                    parseWriteReplyPacket(a, b)
               [] Bit(b[3], Command) /\ ~Bit(b[3], Write) ->
                    parseReadPacket(a, b)
               [] Bit(b[3], Command) /\ Bit(b[3], Write) ->
                    parseWritePacket(a, b)
  BY DEF parse
<1> HIDE DEF s, logical, a, b
<1> QED
  BY <1>1, <1>2, <1>3 DEF s

\* The four functions, one by one.
LEMMA ParseIs ==
    ASSUME NEW path \in Seq(0 .. 31), NEW p \in Seq(Octet),
           p[1] >= 32, 4 <= Len(p)
    PROVE  /\ ~Bit(p[3], Command) /\ ~Bit(p[3], Write) =>
                parse(path \o p) = parseReadReplyPacket(path, p)
           /\ ~Bit(p[3], Command) /\ Bit(p[3], Write) =>
                parse(path \o p) = parseWriteReplyPacket(path, p)
           /\ Bit(p[3], Command) /\ ~Bit(p[3], Write) =>
                parse(path \o p) = parseReadPacket(path, p)
           /\ Bit(p[3], Command) /\ Bit(p[3], Write) =>
                parse(path \o p) = parseWritePacket(path, p)
BY ParseSelects

\* A packet p starts with the command c, with R bytes of reply address and
\* len bytes of data, and the parser gets that out of it.
ReadsAs(p, R, c, len) ==
    /\ ReplySize(p) = R
    /\ p[1] = TargetLA /\ p[2] = 1
    /\ calcCRC(SubSeq(p, 1, 16 + R)) = 0
    /\ StripZeros(SubSeq(p, 5, 4 + R)) = StripZeros(c.reply)
    /\ p[5 + R] = InitiatorLA
    /\ Number2(p, 5 + R) = c.id
    /\ Number4(p, 8 + R) = c.addr
    /\ Number3(p, 12 + R) = len

\* What Commands gives of a command
CommandTyped(c) ==
    /\ c.path \in Seq(0 .. 31)
    /\ c.reply \in Seq(Octet) /\ Len(c.reply) <= 12
    /\ c.id \in Nat /\ c.id < 65536
    /\ c.addr \in Nat /\ c.addr \div 65536 < 65536
    /\ c.data \in Seq(Octet) /\ Len(c.data) < 16777216

ThreeByteNumber(n) == n \in Nat /\ n < 16777216

\* p starts with the first n bytes of h.
StartsWith(p, h, n) ==
    /\ p \in Seq(Octet) /\ n <= Len(p)
    /\ \A i \in 1 .. n : p[i] = h[i]

\* p and h agree where the parser reads a command header.
Agree(p, h, R) ==
    /\ p[1] = h[1] /\ p[2] = h[2] /\ p[3] = h[3] /\ p[5 + R] = h[5 + R]
    /\ p[6 + R] = h[6 + R] /\ p[7 + R] = h[7 + R]
    /\ p[9 + R] = h[9 + R] /\ p[10 + R] = h[10 + R]
    /\ p[11 + R] = h[11 + R] /\ p[12 + R] = h[12 + R]
    /\ p[13 + R] = h[13 + R] /\ p[14 + R] = h[14 + R]
    /\ p[15 + R] = h[15 + R]

\* A packet that starts with a header agrees with it where it is read.
LEMMA StartsAgree ==
    ASSUME NEW R \in Nat, NEW p, NEW h, StartsWith(p, h, 16 + R)
    PROVE  Agree(p, h, R)
<1>1. \A i \in 1 .. 16 + R : p[i] = h[i]
  BY DEF StartsWith
<1> QED
  BY <1>1 DEF Agree

\* A packet that starts with the header of c is read as c.
LEMMA HeaderRead ==
    ASSUME NEW c, CommandTyped(c), NEW len, ThreeByteNumber(len),
           NEW R, R = ReplyField(Len(c.reply)), NEW ins, (ins % 4) * 4 = R,
           NEW h, HeaderOf(h, R, c, ins, len),
           NEW p, StartsWith(p, h, 16 + R)
    PROVE  ReadsAs(p, R, c, len)
<1>1. /\ PaddedReply(c.reply) \in Seq(Octet) /\ Len(PaddedReply(c.reply)) = R
      /\ StripZeros(PaddedReply(c.reply)) = StripZeros(c.reply)
  BY SMT, PaddedShape DEF CommandTyped
<1>2. R \in {0, 4, 8, 12}
  BY SMT, PaddedShape DEF CommandTyped
<1>3. R \in Nat /\ p \in Seq(Octet) /\ Len(p) \in Nat /\ 16 + R <= Len(p)
  BY <1>2, LenProperties DEF StartsWith
<1>4. Agree(p, h, R)
  BY <1>3, StartsAgree
<1>5. /\ p[1] = TargetLA /\ p[2] = 1 /\ p[3] = ins /\ p[5 + R] = InitiatorLA
  BY SMT, <1>4 DEF Agree, HeaderOf
<1>6. ReplySize(p) = R
  BY <1>5 DEF ReplySize
<1>7. calcCRC(SubSeq(p, 1, 16 + R)) = 0
  <2>1. h \in Seq(Octet) /\ Len(h) = 16 + R /\ calcCRC(h) = 0
    BY SMT DEF HeaderOf
  <2>2. \A i \in 1 .. Len(h) : p[0 + i] = h[i]
    BY <1>3, <2>1 DEF StartsWith
  <2>3. 16 + R = 0 + Len(h)
    BY <1>3, <2>1
  <2>4. SubSeq(p, 0 + 1, 16 + R) = h
    <3>1. 16 + R <= Len(p) /\ p \in Seq(Octet) /\ 0 \in Nat
      BY <1>3
    <3> QED
      BY <2>1, <2>2, <2>3, <3>1, Slice
  <2>5. 0 + 1 = 1
    OBVIOUS
  <2> QED
    BY <2>1, <2>4, <2>5, Zenon
<1>8. SubSeq(p, 5, 4 + R) = PaddedReply(c.reply)
  <2> DEFINE q == PaddedReply(c.reply)
  <2>1. q \in Seq(Octet) /\ Len(q) = R
    BY <1>1
  <2>2. \A i \in 1 .. R : h[4 + i] = q[i]
    BY SMTT(20) DEF HeaderOf
  <2> HIDE DEF q
  <2>3. \A i \in 1 .. R : 4 + i \in 1 .. 16 + R
    BY <1>3
  <2>4. \A i \in 1 .. R : p[4 + i] = q[i]
    BY <2>2, <2>3 DEF StartsWith
  <2>5. \A i \in 1 .. Len(q) : p[4 + i] = q[i]
    BY <2>1, <2>4
  <2>6. 4 + R = 4 + Len(q) /\ 4 + R <= Len(p)
    BY <1>3, <2>1
  <2>7. SubSeq(p, 4 + 1, 4 + R) = q
    BY <1>3, <2>1, <2>5, <2>6, Slice
  <2> QED
    BY <2>7 DEF q
<1>9. Number2(p, 5 + R) = c.id
  <2>1. p[6 + R] = Byte(c.id, 256) /\ p[7 + R] = Byte(c.id, 1)
    BY SMT, <1>4 DEF Agree, HeaderOf
  <2>2. (5 + R) + 1 = 6 + R /\ (5 + R) + 2 = 7 + R
    BY <1>3
  <2>3. Byte(c.id, 256) * 256 + Byte(c.id, 1) = c.id
    BY SMT, TwoBytes DEF CommandTyped
  <2> QED
    BY SMT, <2>1, <2>2, <2>3 DEF Number2
<1>10. Number4(p, 8 + R) = c.addr
  <2>1. /\ p[9 + R] = Byte(c.addr, 16777216) /\ p[10 + R] = Byte(c.addr, 65536)
        /\ p[11 + R] = Byte(c.addr, 256) /\ p[12 + R] = Byte(c.addr, 1)
    BY SMT, <1>4, SMTT(30) DEF Agree, HeaderOf
  <2>2. /\ (8 + R) + 1 = 9 + R /\ (8 + R) + 2 = 10 + R
        /\ (8 + R) + 3 = 11 + R /\ (8 + R) + 4 = 12 + R
    BY <1>3
  <2>3. Byte(c.addr, 16777216) * 16777216 + Byte(c.addr, 65536) * 65536
          + Byte(c.addr, 256) * 256 + Byte(c.addr, 1) = c.addr
    BY SMT, FourBytes DEF CommandTyped
  <2> QED
    BY SMTT(30), <2>1, <2>2, <2>3 DEF Number4
<1>11. Number3(p, 12 + R) = len
  <2>1. /\ p[13 + R] = Byte(len, 65536) /\ p[14 + R] = Byte(len, 256)
        /\ p[15 + R] = Byte(len, 1)
    BY SMT, <1>4 DEF Agree, HeaderOf
  <2>2. /\ (12 + R) + 1 = 13 + R /\ (12 + R) + 2 = 14 + R
        /\ (12 + R) + 3 = 15 + R
    BY <1>3
  <2>3. Byte(len, 65536) * 65536 + Byte(len, 256) * 256 + Byte(len, 1) = len
    BY SMT, ThreeBytes DEF ThreeByteNumber
  <2> QED
    BY SMT, <2>1, <2>2, <2>3 DEF Number3
<1> QED
  BY Zenon, <1>1, <1>5, <1>6, <1>7, <1>8, <1>9, <1>10, <1>11 DEF ReadsAs

\* What a command is understood as.
Understood(f, c, type) ==
    /\ f.status = "Success" /\ f.type = type /\ f.path = c.path
    /\ f.target = TargetLA /\ f.initiator = InitiatorLA
    /\ f.reply = StripZeros(c.reply)
    /\ f.id = c.id /\ f.addr = c.addr /\ f.len = Len(c.data)

\* What is read as c is parsed as c.
LEMMA FieldsUnderstood ==
    ASSUME NEW c, NEW p, NEW R, ReadsAs(p, R, c, Len(c.data)), NEW type, NEW d
    PROVE  /\ Understood(CommandFields(c.path, p, type, d), c, type)
           /\ CommandFields(c.path, p, type, d).data = d
BY DEF Understood, CommandFields, ReadsAs

\* The header both builders of commands make: its size, and what the parser
\* makes of a packet that starts with it.
LEMMA CommandStarts ==
    ASSUME NEW c, CommandTyped(c),
           NEW b \in {ReadInstruction, WriteInstruction},
           NEW h, h = CommandHeader(c, b, Len(c.data)),
           NEW R, R = ReplyField(Len(c.reply)), NEW p, StartsWith(p, h, 16 + R)
    PROVE  /\ h \in Seq(Octet) /\ Len(h) = 16 + R
           /\ R \in {0, 4, 8, 12}
           /\ ReadsAs(p, R, c, Len(c.data))
           /\ p[3] = b + (R \div 4)
           /\ p[1] >= 32 /\ Bit(p[3], Command)
           /\ b = ReadInstruction => ~Bit(p[3], Write)
           /\ b = WriteInstruction => Bit(p[3], Write)
<1> DEFINE n == b + (R \div 4)
<1>1. R \in {0, 4, 8, 12}
  BY SMT, PaddedShape DEF CommandTyped
<1>2. /\ n \in Octet /\ (n % 4) * 4 = R
      /\ Bit(n, Command)
      /\ b = ReadInstruction => ~Bit(n, Write)
      /\ b = WriteInstruction => Bit(n, Write)
  BY <1>1, Instructions
<1>3. ThreeByteNumber(Len(c.data))
  BY SMT, LenProperties DEF CommandTyped, ThreeByteNumber
<1>4. HeaderOf(h, R, c, n, Len(c.data))
  BY SMT, <1>2, <1>3, HeaderShape DEF CommandTyped, ThreeByteNumber
<1> HIDE DEF n
<1>5. ReadsAs(p, R, c, Len(c.data))
  BY Zenon, <1>2, <1>3, <1>4, HeaderRead
<1>6. h[3] = n /\ h[1] = TargetLA /\ h \in Seq(Octet) /\ Len(h) = 16 + R
  BY SMT, <1>4 DEF HeaderOf
<1>7. p[3] = n /\ p[1] = TargetLA
  <2>1. R \in Nat
    BY <1>1
  <2>2. Agree(p, h, R)
    BY <2>1, StartsAgree
  <2> QED
    BY <1>6, <2>2 DEF Agree
<1>8. TargetLA >= 32
  BY DEF TargetLA
<1>9. p[3] = b + (R \div 4)
  BY <1>7 DEF n
<1> QED
  BY <1>1, <1>2, <1>5, <1>6, <1>7, <1>8, <1>9

\* A path, a header and data can be joined in either order.
LEMMA JoinedOnce ==
    ASSUME NEW a \in Seq(Octet), NEW b \in Seq(Octet), NEW d \in Seq(Octet)
    PROVE  (a \o b) \o d = a \o (b \o d)
BY ConcatAssociative

\* A path is a sequence of bytes.
LEMMA PathOctets == \A r \in Seq(0 .. 31) : r \in Seq(Octet)
BY SeqMonotonic DEF Octet

\* p is a header of m bytes and the data x, of length L, with their CRC.
Carries(p, m, x, L) ==
    /\ Len(p) = (m + L) + 1
    /\ SubSeq(p, m + 1, m + L) = x
    /\ calcCRC(SubSeq(p, m + 1, (m + L) + 1)) = 0

\* Data with their CRC behind a header are found there again.
LEMMA DataCarried ==
    ASSUME NEW h \in Seq(Octet), NEW x \in Seq(Octet)
    PROVE  Carries(h \o WithCRC(x), Len(h), x, Len(x))
<1> DEFINE d == WithCRC(x)
           p == h \o d
           m == Len(h)
           L == Len(x)
<1>1. d \in Seq(Octet) /\ Len(d) = L + 1 /\ calcCRC(d) = 0
  BY CrcChecks
<1>2. \A i \in 1 .. L : d[i] = x[i]
  BY CrcChecks
<1> HIDE DEF d
<1>3. p \in Seq(Octet) /\ Len(p) = m + Len(d)
  BY Zenon, <1>1, Joined
<1>4. \A i \in 1 .. Len(d) : p[m + i] = d[i]
  BY <1>1, Joined
<1> HIDE DEF p
<1>5. m \in Nat /\ L \in Nat
  BY LenProperties
<1>6. \A i \in 1 .. L : p[m + i] = x[i]
  BY <1>1, <1>2, <1>4, <1>5
<1>7. /\ m + Len(d) = (m + L) + 1 /\ m + Len(d) <= Len(p)
      /\ m + L <= Len(p)
  BY <1>1, <1>3, <1>5
<1> HIDE DEF m
<1>8. SubSeq(p, m + 1, m + Len(d)) = d
  BY <1>1, <1>3, <1>4, <1>5, <1>7, Slice
<1>9. SubSeq(p, m + 1, m + L) = x
  BY SMTT(30), <1>3, <1>5, <1>6, <1>7, Slice
<1>10. Len(p) = (m + L) + 1
  BY <1>3, <1>7
<1>11. calcCRC(SubSeq(p, m + 1, (m + L) + 1)) = 0
  BY Zenon, <1>1, <1>7, <1>8
<1>12. Carries(p, m, x, L)
  BY <1>9, <1>10, <1>11 DEF Carries
<1> QED
  BY <1>12 DEF p, m, d

\* parseWritePacket accepts a packet that carries its data.
LEMMA WriteParsed ==
    ASSUME NEW path, NEW p, NEW R \in Nat, NEW L \in Nat, NEW x,
           Carries(p, 16 + R, x, L), NEW c, ReadsAs(p, R, c, L)
    PROVE  parseWritePacket(path, p) = CommandFields(path, p, "Write", x)
<1>1. ReplySize(p) = R /\ calcCRC(SubSeq(p, 1, 16 + R)) = 0 /\ p[2] = 1
  BY DEF ReadsAs
<1>2. Number3(p, 12 + R) = L
  BY DEF ReadsAs
<1>3. /\ (16 + R) + 1 = 17 + R /\ ((16 + R) + L) + 1 = 16 + R + L + 1
      /\ ((16 + R) + L) + 1 = 17 + R + L
      /\ ~(((16 + R) + L) + 1 <= 16 + R)
  OBVIOUS
<1>4. Len(p) = ((16 + R) + L) + 1
  BY DEF Carries
<1>5. /\ SubSeq(p, 17 + R, 16 + R + L) = x
      /\ calcCRC(SubSeq(p, 17 + R, 17 + R + L)) = 0
  BY <1>3 DEF Carries
<1>6. Len(p) = 16 + R + L + 1 /\ ~(Len(p) <= 16 + R)
  BY <1>3, <1>4
<1> QED
  BY Zenon, <1>1, <1>2, <1>5, <1>6 DEF parseWritePacket

\* A read command of c behind its path: p is a header with R bytes of reply
\* address and nothing else.
ReadBuilt(p, R, c) ==
    /\ p \in Seq(Octet) /\ Len(p) = 16 + R /\ p[1] >= 32
    /\ p[3] = ReadInstruction + (R \div 4)
    /\ ReadsAs(p, R, c, Len(c.data))

\* ReadPacketBuild puts such a packet behind the path.
LEMMA ReadShape ==
    ASSUME NEW c, CommandTyped(c)
    PROVE  \E p, R : /\ R \in {0, 4, 8, 12} /\ ReadBuilt(p, R, c)
                     /\ ReadPacketBuild(c) = c.path \o p
<1> DEFINE h == CommandHeader(c, ReadInstruction, Len(c.data))
           R == ReplyField(Len(c.reply))
<1>1. HeaderOf(h, R, c, ReadInstruction + (R \div 4), Len(c.data))
  <2>1. R \in {0, 4, 8, 12}
    BY SMT, PaddedShape DEF CommandTyped
  <2>2. ReadInstruction + (R \div 4) \in Octet
    BY <2>1, Instructions
  <2> QED
    BY SMT, <2>2, LenProperties, HeaderShape DEF CommandTyped
<1>2. h \in Seq(Octet) /\ Len(h) = 16 + R
  BY <1>1 DEF HeaderOf
<1> HIDE DEF h
<1>3. StartsWith(h, h, 16 + R)
  <2>1. R \in Nat
    BY SMT, PaddedShape DEF CommandTyped
  <2> QED
    BY <1>2, <2>1 DEF StartsWith
<1>4. /\ R \in {0, 4, 8, 12} /\ ReadsAs(h, R, c, Len(c.data))
      /\ h[1] >= 32 /\ h[3] = ReadInstruction + (R \div 4)
  BY <1>3, CommandStarts DEF h
<1> HIDE DEF R
<1>5. ReadBuilt(h, R, c)
  BY Zenon, <1>2, <1>4 DEF ReadBuilt
<1>6. ReadPacketBuild(c) = c.path \o h
  BY Zenon DEF ReadPacketBuild, ReadInstruction, h
<1> QED
  BY Zenon, <1>4, <1>5, <1>6

\* A read command, built and parsed, is the command.
LEMMA ReadUnderstood ==
    ASSUME NEW c, CommandTyped(c)
    PROVE  Understood(parse(ReadPacketBuild(c)), c, "Read")
<1>1. PICK p, R : /\ R \in {0, 4, 8, 12} /\ ReadBuilt(p, R, c)
                  /\ ReadPacketBuild(c) = c.path \o p
  BY ReadShape
<1> DEFINE F == CommandFields(c.path, p, "Read", Untouched)
<1>2. /\ p \in Seq(Octet) /\ Len(p) = 16 + R /\ p[1] >= 32
      /\ p[3] = ReadInstruction + (R \div 4)
      /\ ReadsAs(p, R, c, Len(c.data))
  BY Zenon, <1>1 DEF ReadBuilt
<1>3. Bit(p[3], Command) /\ ~Bit(p[3], Write)
  BY <1>1, <1>2, Instructions
<1>4. parseReadPacket(c.path, p) = F
  <2>1. ReplySize(p) = R /\ calcCRC(SubSeq(p, 1, 16 + R)) = 0 /\ p[2] = 1
    BY <1>2 DEF ReadsAs
  <2> QED
    BY <1>2, <2>1 DEF parseReadPacket
<1>5. parse(c.path \o p) = F
  <2>1. c.path \in Seq(0 .. 31)
    BY DEF CommandTyped
  <2>2. 4 <= Len(p)
    BY <1>1, <1>2
  <2> QED
    BY Zenon, <1>2, <1>3, <1>4, <2>1, <2>2, ParseIs
<1>6. Understood(F, c, "Read")
  BY Zenon, <1>2, FieldsUnderstood
<1> QED
  BY <1>1, <1>5, <1>6

\* A write command of c behind its path: a header as above, and the data with
\* their CRC.
WriteBuilt(p, R, c) ==
    /\ p \in Seq(Octet) /\ 16 + R <= Len(p) /\ 4 <= Len(p) /\ p[1] >= 32
    /\ p[3] = WriteInstruction + (R \div 4)
    /\ ReadsAs(p, R, c, Len(c.data))
    /\ Carries(p, 16 + R, c.data, Len(c.data))

\* WritePacketBuild puts such a packet behind the path.
LEMMA WriteShape ==
    ASSUME NEW c, CommandTyped(c)
    PROVE  \E p, R : /\ R \in {0, 4, 8, 12} /\ WriteBuilt(p, R, c)
                     /\ WritePacketBuild(c) = c.path \o p
<1> DEFINE h == CommandHeader(c, WriteInstruction, Len(c.data))
           d == WithCRC(c.data)
           p == h \o d
           R == ReplyField(Len(c.reply))
<1>1. HeaderOf(h, R, c, WriteInstruction + (R \div 4), Len(c.data))
  <2>1. R \in {0, 4, 8, 12}
    BY SMT, PaddedShape DEF CommandTyped
  <2>2. WriteInstruction + (R \div 4) \in Octet
    BY SMTT(30), <2>1, Instructions
  <2> QED
    BY SMT, <2>2, LenProperties, HeaderShape DEF CommandTyped
<1>2a. h \in Seq(Octet)
  BY <1>1 DEF HeaderOf
<1>2b. Len(h) = 16 + R
  BY <1>1 DEF HeaderOf
<1>3. c.data \in Seq(Octet) /\ Len(c.data) \in Nat
  BY LenProperties DEF CommandTyped
<1>4. d \in Seq(Octet)
  BY <1>3, CrcChecks
<1> HIDE DEF h
<1>5. Carries(p, 16 + R, c.data, Len(c.data))
  BY <1>2a, <1>2b, <1>3, DataCarried
<1> HIDE DEF d
<1>6. p \in Seq(Octet) /\ \A i \in 1 .. Len(h) : p[i] = h[i]
  BY <1>2a, <1>4, Joined
<1> HIDE DEF p
<1>7. R \in {0, 4, 8, 12} /\ R \in Nat
  BY SMT, PaddedShape DEF CommandTyped
<1>8. 16 + R <= Len(p) /\ 4 <= Len(p)
  <2> DEFINE L == Len(c.data)
  <2>1. L \in Nat /\ Len(p) = ((16 + R) + L) + 1
    BY <1>3, <1>5 DEF Carries
  <2> HIDE DEF L, R
  <2> QED
    BY <1>7, <2>1
<1>9. StartsWith(p, h, 16 + R)
  <2>1. \A i \in 1 .. 16 + R : p[i] = h[i]
    BY <1>2b, <1>6
  <2> QED
    BY <1>6, <1>8, <2>1 DEF StartsWith
<1>10. /\ ReadsAs(p, R, c, Len(c.data))
       /\ p[1] >= 32 /\ p[3] = WriteInstruction + (R \div 4)
  <2>1. WriteInstruction \in {ReadInstruction, WriteInstruction}
    OBVIOUS
  <2> QED
    BY <1>9, <2>1, CommandStarts DEF h
<1> HIDE DEF R
<1>11. WriteBuilt(p, R, c)
  BY Zenon, <1>5, <1>6, <1>8, <1>10 DEF WriteBuilt
<1>12. WritePacketBuild(c) = c.path \o p
  <2>1. c.path \in Seq(Octet)
    BY PathOctets DEF CommandTyped
  <2>2. (c.path \o h) \o d = c.path \o (h \o d)
    BY Zenon, <1>2a, <1>4, <2>1, JoinedOnce
  <2> QED
    BY Zenon, <2>2 DEF WritePacketBuild, WriteInstruction, h, d, p
<1> QED
  BY Zenon, <1>7, <1>11, <1>12

\* A write command, built and parsed, is the command and its data.
LEMMA WriteUnderstood ==
    ASSUME NEW c, CommandTyped(c)
    PROVE  /\ Understood(parse(WritePacketBuild(c)), c, "Write")
           /\ parse(WritePacketBuild(c)).data = c.data
<1>1. PICK p, R : /\ R \in {0, 4, 8, 12} /\ WriteBuilt(p, R, c)
                  /\ WritePacketBuild(c) = c.path \o p
  BY WriteShape
<1> DEFINE F == CommandFields(c.path, p, "Write", c.data)
<1>2. /\ p \in Seq(Octet) /\ 4 <= Len(p) /\ p[1] >= 32
      /\ p[3] = WriteInstruction + (R \div 4)
      /\ ReadsAs(p, R, c, Len(c.data))
      /\ Carries(p, 16 + R, c.data, Len(c.data))
  BY Zenon, <1>1 DEF WriteBuilt
<1>3. Bit(p[3], Command) /\ Bit(p[3], Write)
  BY <1>1, <1>2, Instructions
<1>4. parseWritePacket(c.path, p) = F
  <2>1. R \in Nat /\ Len(c.data) \in Nat
    BY <1>1, LenProperties DEF CommandTyped
  <2> QED
    BY <1>2, <2>1, WriteParsed
<1>5. parse(c.path \o p) = F
  <2>1. c.path \in Seq(0 .. 31)
    BY DEF CommandTyped
  <2> QED
    BY Zenon, <1>2, <1>3, <1>4, <2>1, ParseIs
<1>6. Understood(F, c, "Write")
  BY Zenon, <1>2, FieldsUnderstood
<1>7. F.data = c.data
  BY DEF CommandFields
<1> QED
  BY SMTT(30), <1>1, <1>5, <1>6, <1>7

-----------------------------------------------------------------------------
(* The exchange, as far as the target.                                     *)

\* What the target must have parsed of an undamaged command.
CommandMeant ==
    /\ Understood(packet, cmd, IF cmd.op = "read" THEN "Read" ELSE "Write")
    /\ cmd.op = "write" => packet.data = cmd.data

\* As long as nothing was damaged, the packet on the way out is the one built
\* for the command, and what was parsed of it is the command.
CInv ==
    /\ damaged = "no" /\ phase = "command" =>
         /\ cmd \in Commands
         /\ wire = IF cmd.op = "read" THEN ReadPacketBuild(cmd)
                                      ELSE WritePacketBuild(cmd)
    /\ damaged = "no" /\ phase \in {"execute", "reply", "done", "refused"} =>
         CommandMeant

\* What the assumptions on the constants say of a command.
LEMMA CommandsTyped ==
    ASSUME NEW c \in Commands
    PROVE  CommandTyped(c) /\ c.op \in {"read", "write"}
<1>1. /\ c.op \in {"read", "write"} /\ c.path \in Paths
      /\ c.reply \in ReplyAddrs /\ c.id \in Ids /\ c.addr \in Addresses
      /\ c.data \in Datas
  BY DEF Commands
<1>2. c.path \in Seq(0 .. 31)
  BY <1>1, PathAssumption
<1>3. c.reply \in Seq(Octet) /\ Len(c.reply) <= 12
  BY <1>1, ReplyAssumption
<1>4. c.id \in Nat /\ c.id < 65536
  BY SMT, <1>1, IdAssumption
<1>5. c.addr \in Nat /\ c.addr \div 65536 < 65536
  BY SMT, <1>1, AddressAssumption
<1>6. c.data \in Seq(Octet) /\ Len(c.data) < 16777216
  BY SMT, <1>1, DataAssumption
<1> QED
  BY SMT, <1>1, <1>2, <1>3, <1>4, <1>5, <1>6 DEF CommandTyped

\* CInv holds before anything is sent.
LEMMA CInvInit == Init => CInv
BY DEF Init, CInv

\* Every step keeps CInv: parsing the command is the step that needs the
\* lemmas, and a damaged bit takes the packet out of its scope.
LEMMA CInvNext == CInv /\ [Next]_vars => CInv'
<1> SUFFICES ASSUME CInv, [Next]_vars
             PROVE  CInv'
  OBVIOUS
<1>1. ASSUME NEW c \in Commands, SendCommand(c)
      PROVE  CInv'
  BY <1>1 DEF CInv, SendCommand
<1>2. CASE ReceiveCommand
  <2>1. CASE damaged = "no"
    <3>1. /\ cmd \in Commands
          /\ wire = IF cmd.op = "read" THEN ReadPacketBuild(cmd)
                                       ELSE WritePacketBuild(cmd)
      BY <1>2, <2>1 DEF CInv, ReceiveCommand
    <3>2. CommandTyped(cmd) /\ cmd.op \in {"read", "write"}
      BY <3>1, CommandsTyped
    <3>3. /\ Understood(parse(wire), cmd,
                        IF cmd.op = "read" THEN "Read" ELSE "Write")
          /\ cmd.op = "write" => parse(wire).data = cmd.data
      BY <3>1, <3>2, ReadUnderstood, WriteUnderstood
    <3>4. CommandMeant'
      BY <1>2, <3>3 DEF CommandMeant, ReceiveCommand, Understood
    <3>5. phase' # "command"
      BY <1>2 DEF ReceiveCommand
    <3> QED
      BY <3>4, <3>5 DEF CInv
  <2>2. CASE damaged # "no"
    BY <1>2, <2>2 DEF CInv, ReceiveCommand
  <2> QED
    BY <2>1, <2>2
<1>3. CASE SendReply
  BY <1>3 DEF CInv, SendReply, CommandMeant, Understood
<1>4. CASE ReceiveReply
  BY <1>4 DEF CInv, ReceiveReply, CommandMeant, Understood
<1>5. ASSUME NEW i \in 1 .. Len(wire), NEW v \in Flips, Damage(i, v)
      PROVE  CInv'
  BY <1>5 DEF CInv, Damage, Part
<1>6. CASE UNCHANGED vars
  BY <1>6 DEF CInv, vars, CommandMeant, Understood
<1> QED
  BY <1>1, <1>2, <1>3, <1>4, <1>5, <1>6 DEF Next, End

\* For all paths, reply addresses, IDs, addresses and data, an undamaged
\* command is understood as it was meant: the builders and the parser agree.
THEOREM CommandsUnderstood == Spec => []CommandUnderstood
<1>1. CInv => CommandUnderstood
  BY DEF CInv, CommandUnderstood, CommandMeant, Understood
<1> QED
  BY <1>1, CInvInit, CInvNext, PTL DEF Spec

-----------------------------------------------------------------------------
(* Replies.                                                                *)

\* What the parser reads in every reply.
AnswersAs(p, target, ins, initiator, id) ==
    /\ p[1] = target /\ p[2] = 1 /\ p[3] = ins /\ p[4] = 0
    /\ p[5] = initiator /\ Number2(p, 5) = id

\* Only the first seven bytes matter.
LEMMA AnswersAlike ==
    ASSUME NEW p, NEW s, NEW target, NEW ins, NEW initiator, NEW id,
           AnswersAs(s, target, ins, initiator, id),
           \A i \in 1 .. 7 : p[i] = s[i]
    PROVE  AnswersAs(p, target, ins, initiator, id)
BY DEF AnswersAs, Number2

\* The first seven bytes of both replies
ReplyStart(target, ins, initiator, id) ==
    <<target, ProtocolIdentifier, ins, 0, initiator>> \o Bytes2(id)

\* Those bytes are read as what they were built from.
LEMMA ReplyStarts ==
    ASSUME NEW target \in Octet, NEW ins \in Octet, NEW initiator \in Octet,
           NEW id \in Nat, id < 65536
    PROVE  LET s == ReplyStart(target, ins, initiator, id)
           IN  /\ s \in Seq(Octet) /\ Len(s) = 7
               /\ AnswersAs(s, target, ins, initiator, id)
<1> DEFINE a == <<target, ProtocolIdentifier, ins, 0, initiator>>
           b == Bytes2(id)
           s == a \o b
<1>1. /\ Len(a) = 5 /\ a[1] = target /\ a[2] = 1
      /\ a[3] = ins /\ a[4] = 0 /\ a[5] = initiator
  BY DEF ProtocolIdentifier
<1>1a. a \in Seq(Octet)
  BY DEF ProtocolIdentifier, Octet
<1>2. Len(b) = 2
  BY SMT, BytesShape
<1>2a. b \in Seq(Octet)
  BY SMT, BytesShape
<1>3. b[1] = Byte(id, 256) /\ b[2] = Byte(id, 1)
  BY DEF Bytes2
<1>4. Byte(id, 256) * 256 + Byte(id, 1) = id
  BY SMT, TwoBytes
<1> HIDE DEF a, b
<1>5. s \in Seq(Octet) /\ Len(s) = Len(a) + Len(b)
  BY <1>1a, <1>2a, Joined
<1>6. \A i \in 1 .. Len(a) : s[i] = a[i]
  BY <1>1a, <1>2a, Joined
<1>7. \A i \in 1 .. Len(b) : s[Len(a) + i] = b[i]
  BY <1>1a, <1>2a, Joined
<1> HIDE DEF s
<1>8. s[1] = a[1] /\ s[2] = a[2] /\ s[3] = a[3] /\ s[4] = a[4] /\ s[5] = a[5]
  BY <1>1, <1>6
<1>9. s[5 + 1] = b[1] /\ s[5 + 2] = b[2]
  BY <1>1, <1>2, <1>7
<1>10. Number2(s, 5) = id
  BY SMT, <1>3, <1>4, <1>9 DEF Number2
<1>11. Len(s) = 7
  BY <1>1, <1>2, <1>5
<1>12. AnswersAs(s, target, ins, initiator, id)
  BY <1>1, <1>8, <1>10 DEF AnswersAs
<1> QED
  BY <1>5, <1>11, <1>12 DEF ReplyStart, s, a, b

\* What an answer must say: it came over that path, from a target that gave
\* no error, for that transaction.
Answered(f, path, type, id) ==
    /\ f.status = "Success" /\ f.type = type /\ f.path = path
    /\ f.id = id /\ f.code = 0

\* What is read as a reply is parsed as one.
LEMMA FieldsAnswered ==
    ASSUME NEW p, NEW target, NEW ins, NEW initiator, NEW id,
           AnswersAs(p, target, ins, initiator, id), NEW path, NEW type, NEW d
    PROVE  Answered(ReplyFields(path, p, type, d), path, type, id)
BY DEF AnswersAs, Answered, ReplyFields

\* What poll() answers: the fields of a parsed command that a reply uses
Answerable(f) ==
    /\ f.reply \in Seq(0 .. 31) /\ f.target = TargetLA
    /\ f.initiator = InitiatorLA /\ f.id \in Nat /\ f.id < 65536

\* The parser knows the two replies by their instructions.
LEMMA ReplyInstructions ==
    /\ Write + Reply + VerifyBit + Increment \in Octet
    /\ Reply + Increment \in Octet
    /\ ~Bit(Write + Reply + VerifyBit + Increment, Command)
    /\ Bit(Write + Reply + VerifyBit + Increment, Write)
    /\ ~Bit(Reply + Increment, Command) /\ ~Bit(Reply + Increment, Write)
BY DEF Write, Reply, VerifyBit, Increment, Command, Octet, Bit

\* The fields of f that a reply copies are bytes.
Copied(f) ==
    /\ f.target \in Octet /\ f.initiator \in Octet /\ f.id \in Nat
    /\ f.id < 65536 /\ f.reply \in Seq(Octet)

\* A write reply to f behind its path
WriteReplyBuilt(p, f) ==
    /\ p \in Seq(Octet) /\ Len(p) = 8 /\ calcCRC(p) = 0
    /\ AnswersAs(p, f.target, Write + Reply + VerifyBit + Increment,
                 f.initiator, f.id)

\* WriteReplyPacketBuild puts such a packet behind the reply address.
LEMMA WriteReplyShape ==
    ASSUME NEW f, Copied(f)
    PROVE  \E p : /\ WriteReplyBuilt(p, f)
                  /\ WriteReplyPacketBuild(f) = f.reply \o p
<1> DEFINE ins == Write + Reply + VerifyBit + Increment
           s   == ReplyStart(f.target, ins, f.initiator, f.id)
           h   == WithCRC(s)
<1>1. ins \in Octet
  BY ReplyInstructions
<1> HIDE DEF ins
<1>1a. /\ f.target \in Octet /\ f.initiator \in Octet
       /\ f.id \in Nat /\ f.id < 65536
  BY DEF Copied
<1>2. s \in Seq(Octet) /\ Len(s) = 7
  BY SMT, <1>1, <1>1a, ReplyStarts
<1>3. AnswersAs(s, f.target, ins, f.initiator, f.id)
  BY SMT, <1>1, <1>1a, ReplyStarts
<1> HIDE DEF s
<1>4. h \in Seq(Octet) /\ Len(h) = Len(s) + 1 /\ calcCRC(h) = 0
  BY Zenon, <1>2, CrcChecks
<1>5. \A i \in 1 .. Len(s) : h[i] = s[i]
  BY Zenon, <1>2, CrcChecks
<1> HIDE DEF h
<1>6. Len(h) = 8
  BY <1>2, <1>4
<1>7. AnswersAs(h, f.target, ins, f.initiator, f.id)
  BY <1>2, <1>3, <1>5, AnswersAlike
<1>8. WriteReplyBuilt(h, f)
  BY Zenon, <1>4, <1>6, <1>7 DEF WriteReplyBuilt, ins
<1> QED
  BY Zenon, <1>8 DEF WriteReplyPacketBuild, ReplyStart, ins, s, h

\* A write reply, built by poll() and parsed, answers the command.
LEMMA WriteAnswered ==
    ASSUME NEW f, Answerable(f)
    PROVE  Answered(parse(WriteReplyPacketBuild(f)), f.reply, "WriteReply",
                    f.id)
<1> DEFINE ins == Write + Reply + VerifyBit + Increment
<1>1. f.target \in Octet /\ f.initiator \in Octet /\ f.target >= 32
  BY DEF Answerable, TargetLA, InitiatorLA, Octet
<1>2. ~Bit(ins, Command) /\ Bit(ins, Write)
  BY ReplyInstructions
<1> HIDE DEF ins
<1>3. f.reply \in Seq(0 .. 31)
  BY DEF Answerable
<1>3a. Copied(f)
  BY <1>1, <1>3, PathOctets DEF Answerable, Copied
<1>4. PICK p : WriteReplyBuilt(p, f) /\ WriteReplyPacketBuild(f) = f.reply \o p
  BY <1>3a, WriteReplyShape
<1> DEFINE F == ReplyFields(f.reply, p, "WriteReply", Untouched)
<1>5. /\ p \in Seq(Octet) /\ Len(p) = 8 /\ calcCRC(p) = 0
      /\ AnswersAs(p, f.target, ins, f.initiator, f.id)
  BY Zenon, <1>4 DEF WriteReplyBuilt, ins
<1>6. p[1] >= 32 /\ p[2] = 1 /\ p[3] = ins
  BY <1>1, <1>5 DEF AnswersAs
<1>7. parseWriteReplyPacket(f.reply, p) = F
  BY Zenon, <1>5, <1>6 DEF parseWriteReplyPacket
<1>8. parse(f.reply \o p) = F
  <2>1. 4 <= Len(p)
    BY <1>5
  <2> QED
    BY Zenon, <1>2, <1>3, <1>5, <1>6, <1>7, <2>1, ParseIs
<1>9. Answered(F, f.reply, "WriteReply", f.id)
  BY <1>5, FieldsAnswered
<1> QED
  BY <1>4, <1>8, <1>9

\* The first eleven bytes of a read reply, for data of length L
ReadReplyStart(s, L) == s \o <<0>> \o Bytes3(L)

\* The data length follows the first bytes, behind a zero.
LEMMA ReadReplyStarts ==
    ASSUME NEW s \in Seq(Octet), NEW L, ThreeByteNumber(L)
    PROVE  LET r == ReadReplyStart(s, L)
           IN  /\ r \in Seq(Octet) /\ Len(r) = Len(s) + 4
               /\ \A i \in 1 .. Len(s) : r[i] = s[i]
               /\ Number3(r, Len(s) + 1) = L
<1> DEFINE z == <<0>>
           t == s \o z
           b == Bytes3(L)
           r == t \o b
<1>1. Len(z) = 1
  OBVIOUS
<1>1a. z \in Seq(Octet)
  BY DEF Octet
<1>2. Len(b) = 3
  BY SMT, BytesShape DEF ThreeByteNumber
<1>2a. b \in Seq(Octet)
  BY SMT, BytesShape DEF ThreeByteNumber
<1>3. b[1] = Byte(L, 65536) /\ b[2] = Byte(L, 256) /\ b[3] = Byte(L, 1)
  BY SMT DEF Bytes3
<1>4. Byte(L, 65536) * 65536 + Byte(L, 256) * 256 + Byte(L, 1) = L
  BY SMT, ThreeBytes DEF ThreeByteNumber
<1> HIDE DEF z, b
<1>5. t \in Seq(Octet)
  BY <1>1a, Joined
<1>5a. Len(t) = Len(s) + Len(z)
  BY <1>1a, Joined
<1>5b. \A i \in 1 .. Len(s) : t[i] = s[i]
  BY <1>1a, Joined
<1> HIDE DEF t
<1>6. r \in Seq(Octet)
  BY <1>2a, <1>5, Joined
<1>6a. Len(r) = Len(t) + Len(b)
  BY <1>2a, <1>5, Joined
<1>6b. \A i \in 1 .. Len(t) : r[i] = t[i]
  BY <1>2a, <1>5, Joined
<1>6c. \A i \in 1 .. Len(b) : r[Len(t) + i] = b[i]
  BY <1>2a, <1>5, Joined
<1> HIDE DEF r
<1> DEFINE m == Len(s)
<1>7. m \in Nat
  BY LenProperties
<1>8. Len(t) = m + 1
  BY <1>1, <1>5a
<1>9. Len(r) = m + 4
  BY <1>2, <1>6a, <1>7, <1>8
<1>10. \A i \in 1 .. m : r[i] = s[i]
  BY <1>5b, <1>6b, <1>7, <1>8
<1>11. /\ r[(m + 1) + 1] = b[1] /\ r[(m + 1) + 2] = b[2]
       /\ r[(m + 1) + 3] = b[3]
  BY <1>2, <1>6c, <1>8
<1> HIDE DEF m
<1>12. Number3(r, m + 1) = L
  BY SMT, <1>3, <1>4, <1>11 DEF Number3
<1> QED
  BY <1>6, <1>9, <1>10, <1>12 DEF ReadReplyStart, m, r, t, z, b

\* A read reply as far as the parser checks it
ReplyReads(p, L) ==
    /\ calcCRC(SubSeq(p, 1, 12)) = 0 /\ p[2] = 1 /\ Number3(p, 8) = L

\* parseReadReplyPacket accepts a packet that carries its data.
LEMMA ReadReplyParsed ==
    ASSUME NEW path, NEW p, NEW L \in Nat, NEW x, Carries(p, 12, x, L),
           ReplyReads(p, L)
    PROVE  parseReadReplyPacket(path, p) = ReplyFields(path, p, "ReadReply", x)
<1>1. calcCRC(SubSeq(p, 1, 12)) = 0 /\ p[2] = 1
  BY DEF ReplyReads
<1>2. Number3(p, 8) = L
  BY DEF ReplyReads
<1>3. /\ 12 + 1 = 13 /\ (12 + L) + 1 = 13 + L /\ ~((12 + L) + 1 < 12)
  OBVIOUS
<1>4. Len(p) = (12 + L) + 1
  BY DEF Carries
<1>5. /\ SubSeq(p, 13, 12 + L) = x
      /\ calcCRC(SubSeq(p, 13, 13 + L)) = 0
  BY <1>3 DEF Carries
<1>6. Len(p) = 12 + L + 1 /\ ~(Len(p) < 12)
  BY <1>3, <1>4
<1> QED
  BY Zenon, <1>1, <1>2, <1>5, <1>6 DEF parseReadReplyPacket

\* A read reply to f with data x behind its path
ReadReplyBuilt(p, f, x) ==
    /\ p \in Seq(Octet) /\ 12 <= Len(p) /\ Carries(p, 12, x, Len(x))
    /\ ReplyReads(p, Len(x))
    /\ AnswersAs(p, f.target, Reply + Increment, f.initiator, f.id)

\* ReadReplyPacketBuild puts such a packet behind the reply address.
LEMMA ReadReplyShape ==
    ASSUME NEW f, Copied(f), NEW x \in Seq(Octet), ThreeByteNumber(Len(x))
    PROVE  \E p : /\ ReadReplyBuilt(p, f, x)
                  /\ ReadReplyPacketBuild(f, x) = f.reply \o p
<1> DEFINE ins == Reply + Increment
           s   == ReplyStart(f.target, ins, f.initiator, f.id)
           L   == Len(x)
           r   == ReadReplyStart(s, L)
           h   == WithCRC(r)
           d   == WithCRC(x)
           p   == h \o d
<1>2. ins \in Octet
  BY ReplyInstructions
<1> HIDE DEF ins
<1>3. /\ f.target \in Octet /\ f.initiator \in Octet
      /\ f.id \in Nat /\ f.id < 65536
  BY DEF Copied
<1>4. s \in Seq(Octet)
  BY SMT, <1>2, <1>3, ReplyStarts
<1>4a. Len(s) = 7
  BY SMT, <1>2, <1>3, ReplyStarts
<1>5. AnswersAs(s, f.target, ins, f.initiator, f.id)
  BY SMT, <1>2, <1>3, ReplyStarts
<1> HIDE DEF s
<1>6. r \in Seq(Octet)
  BY <1>4, ReadReplyStarts
<1>6b. Len(r) = Len(s) + 4
  BY <1>4, ReadReplyStarts
<1>6c. \A i \in 1 .. Len(s) : r[i] = s[i]
  BY <1>4, ReadReplyStarts
<1>6d. Number3(r, Len(s) + 1) = L
  BY SMTT(30), <1>4, ReadReplyStarts
<1> HIDE DEF r
<1>6a. /\ Len(r) = 11 /\ \A i \in 1 .. 7 : r[i] = s[i]
       /\ Number3(r, 8) = L
  <2>1. Len(s) + 4 = 11 /\ Len(s) + 1 = 8
    BY <1>4a
  <2> QED
    BY <1>4a, <1>6b, <1>6c, <1>6d, <2>1
<1>7. h \in Seq(Octet) /\ calcCRC(h) = 0
  BY <1>6, CrcChecks
<1>7a. Len(h) = Len(r) + 1 /\ \A i \in 1 .. Len(r) : h[i] = r[i]
  BY <1>6, CrcChecks
<1>7b. Len(h) = 12 /\ \A i \in 1 .. 11 : h[i] = r[i]
  BY <1>6a, <1>7a
<1>8. d \in Seq(Octet)
  BY CrcChecks
<1> HIDE DEF h
<1>9. Carries(p, 12, x, L)
  BY Zenon, <1>7, <1>7b, DataCarried
<1> HIDE DEF d
<1>10. p \in Seq(Octet) /\ \A i \in 1 .. Len(h) : p[i] = h[i]
  BY <1>7, <1>8, Joined
<1> HIDE DEF p
<1>11. \A i \in 1 .. 12 : p[i] = h[i]
  BY Zenon, <1>7b, <1>10
<1>12. L \in Nat
  BY LenProperties
<1>13. 12 <= Len(p) /\ 4 <= Len(p)
  <2>1. Len(p) = (12 + L) + 1
    BY <1>9 DEF Carries
  <2> HIDE DEF L
  <2> QED
    BY <1>12, <2>1
<1> HIDE DEF L
<1>14. ReplyReads(p, L)
  <2>1. SubSeq(p, 0 + 1, 12) = h
    <3>1. \A i \in 1 .. Len(h) : p[0 + i] = h[i]
      BY <1>7b, <1>11
    <3>2. 12 = 0 + Len(h) /\ 0 \in Nat
      BY <1>7b
    <3> QED
      <4>1. h \in Seq(Octet) /\ p \in Seq(Octet) /\ 12 <= Len(p)
        BY <1>7, <1>10, <1>13
      <4> QED
        BY Zenon, <3>1, <3>2, <4>1, Slice
  <2>2. 0 + 1 = 1
    OBVIOUS
  <2>3. p[2] = h[2] /\ h[2] = r[2] /\ r[2] = s[2] /\ s[2] = 1
    BY <1>5, <1>6a, <1>7b, <1>11 DEF AnswersAs
  <2>4. p[9] = r[9] /\ p[10] = r[10] /\ p[11] = r[11]
    BY <1>7b, <1>11
  <2>5. Number3(p, 8) = L
    BY SMT, <1>6a, <2>4 DEF Number3
  <2>6. calcCRC(SubSeq(p, 1, 12)) = 0
    BY Zenon, <1>7, <2>1, <2>2
  <2> QED
    BY <2>3, <2>5, <2>6 DEF ReplyReads
<1>15. AnswersAs(p, f.target, ins, f.initiator, f.id)
  <2>1. \A i \in 1 .. 7 : p[i] = s[i]
    BY <1>6a, <1>7b, <1>11
  <2> QED
    BY <1>5, <2>1, AnswersAlike
<1>16. ReadReplyBuilt(p, f, x)
  <2>1. p \in Seq(Octet)
    BY <1>10
  <2> QED
    BY Zenon, <1>9, <1>13, <1>14, <1>15, <2>1 DEF ReadReplyBuilt, ins, L
<1>17. ReadReplyPacketBuild(f, x) = f.reply \o p
  <2>1. (f.reply \o h) \o d = f.reply \o (h \o d)
    <3>1. f.reply \in Seq(Octet) /\ h \in Seq(Octet) /\ d \in Seq(Octet)
      BY <1>7, <1>8 DEF Copied
    <3> QED
      BY ZenonT(30), <3>1, JoinedOnce
  <2>2. ReadReplyPacketBuild(f, x) = (f.reply \o h) \o d
    BY Zenon DEF ReadReplyPacketBuild, ReplyStart, ReadReplyStart, ins, s, r, h,
                 d, L
  <2> QED
    BY Zenon, <2>1, <2>2 DEF p
<1> QED
  BY Zenon, <1>16, <1>17

\* A read reply, built by poll() and parsed, answers the command with the
\* data.
LEMMA ReadAnswered ==
    ASSUME NEW f, Answerable(f), NEW x \in Seq(Octet), ThreeByteNumber(Len(x))
    PROVE  /\ Answered(parse(ReadReplyPacketBuild(f, x)), f.reply, "ReadReply",
                       f.id)
           /\ parse(ReadReplyPacketBuild(f, x)).data = x
<1> DEFINE ins == Reply + Increment
<1>1. f.target \in Octet /\ f.initiator \in Octet /\ f.target >= 32
  BY DEF Answerable, TargetLA, InitiatorLA, Octet
<1>2. ~Bit(ins, Command) /\ ~Bit(ins, Write)
  BY ReplyInstructions
<1> HIDE DEF ins
<1>3. f.reply \in Seq(0 .. 31)
  BY DEF Answerable
<1>3a. Copied(f)
  BY <1>1, <1>3, PathOctets DEF Answerable, Copied
<1>4. PICK p : /\ ReadReplyBuilt(p, f, x)
               /\ ReadReplyPacketBuild(f, x) = f.reply \o p
  BY Zenon, <1>3a, ReadReplyShape
<1> DEFINE F == ReplyFields(f.reply, p, "ReadReply", x)
<1>5. /\ p \in Seq(Octet) /\ 12 <= Len(p) /\ Carries(p, 12, x, Len(x))
      /\ ReplyReads(p, Len(x))
      /\ AnswersAs(p, f.target, ins, f.initiator, f.id)
  BY Zenon, <1>4 DEF ReadReplyBuilt, ins
<1>6. p[1] >= 32 /\ p[3] = ins
  BY <1>1, <1>5 DEF AnswersAs
<1>7. parseReadReplyPacket(f.reply, p) = F
  BY <1>5, LenProperties, ReadReplyParsed
<1>8. parse(f.reply \o p) = F
  <2>1. 4 <= Len(p)
    BY <1>5, LenProperties
  <2> QED
    BY Zenon, <1>2, <1>3, <1>5, <1>6, <1>7, <2>1, ParseIs
<1>9. Answered(F, f.reply, "ReadReply", f.id)
  BY <1>5, FieldsAnswered
<1>10. F.data = x
  BY DEF ReplyFields
<1> QED
  BY SMTT(30), <1>4, <1>8, <1>9, <1>10

-----------------------------------------------------------------------------
(* The whole exchange.                                                     *)

\* A reply address is a path, as the target address is.
PathReplies == \A r \in ReplyAddrs : r \in Seq(0 .. 31)

\* What is left of a sequence without its leading zeros is one of the same
\* elements.
LEMMA StrippedSeq ==
    ASSUME NEW n \in Nat, NEW r \in Seq(0 .. n)
    PROVE  StripZeros(r) \in Seq(0 .. n)
<1> DEFINE N == {i \in 1 .. Len(r) : r[i] # 0}
           m == Min(N)
<1>1. Len(r) \in Nat
  BY LenProperties
<1>2. CASE N = {}
  BY <1>2 DEF StripZeros
<1>3. CASE N # {}
  <2>1. m \in 1 .. Len(r)
    <3>1. PICK k \in N : \A i \in N : k <= i
      <4>1. N \subseteq Nat
        BY <1>1
      <4> HIDE DEF N
      <4> QED
        BY Zenon, <4>1, <1>3, NatLeast
    <3>2. m = k
      <4>1. N \subseteq Int
        BY <1>1
      <4> HIDE DEF N
      <4> QED
        BY Zenon, <4>1, <3>1, MinIs
    <3> QED
      BY <3>1, <3>2
  <2>2. StripZeros(r) = SubSeq(r, m, Len(r))
    BY Zenon, <1>3 DEF StripZeros
  <2> HIDE DEF N, m
  <2>3. \A i \in m .. Len(r) : r[i] \in 0 .. n
    <3>1. \A i \in 1 .. Len(r) : r[i] \in 0 .. n
      BY ElementOfSeq
    <3>2. \A i \in m .. Len(r) : i \in 1 .. Len(r)
      BY <1>1, <2>1
    <3> QED
      BY <3>1, <3>2, Zenon
  <2>4. SubSeq(r, m, Len(r)) \in Seq(0 .. n)
    BY <1>1, <2>1, <2>3, SubSeqProperties
  <2> QED
    BY <2>2, <2>4
<1> QED
  BY <1>2, <1>3

\* What the initiator must have parsed of an undamaged reply
AnswerMeant ==
    /\ Answered(answer, StripZeros(cmd.reply),
                IF cmd.op = "read" THEN "ReadReply" ELSE "WriteReply", cmd.id)
    /\ cmd.op = "read" =>
         /\ answer.data \in Datas
         /\ wire = ReadReplyPacketBuild(packet, answer.data)

\* As long as nothing was damaged, no packet is refused, the one on the way
\* back is the reply to what was parsed, and what is parsed of it answers the
\* command.
AInv ==
    damaged = "no" =>
        /\ phase # "refused"
        /\ phase \in {"execute", "reply", "done"} => cmd \in Commands
        /\ phase = "reply" =>
             IF cmd.op = "read"
             THEN \E d \in Datas : wire = ReadReplyPacketBuild(packet, d)
             ELSE wire = WriteReplyPacketBuild(packet)
        /\ phase = "done" => AnswerMeant

\* A command that was understood can be answered.
LEMMA MeantAnswerable ==
    ASSUME PathReplies, cmd \in Commands, CommandMeant
    PROVE  /\ Answerable(packet) /\ packet.reply = StripZeros(cmd.reply)
           /\ packet.id = cmd.id
<1>1. CommandTyped(cmd)
  BY CommandsTyped
<1>2. cmd.reply \in Seq(0 .. 31)
  BY DEF PathReplies, Commands
<1>3. cmd.id \in Nat /\ cmd.id < 65536
  BY SMT, <1>1 DEF CommandTyped
<1>4. /\ packet.reply = StripZeros(cmd.reply) /\ packet.id = cmd.id
      /\ packet.target = TargetLA /\ packet.initiator = InitiatorLA
  BY DEF CommandMeant, Understood
<1>5. StripZeros(cmd.reply) \in Seq(0 .. 31)
  <2>1. 31 \in Nat
    OBVIOUS
  <2> QED
    BY Zenon, <1>2, <2>1, StrippedSeq
<1> QED
  BY SMT, <1>3, <1>4, <1>5 DEF Answerable

\* The reply on its way answers the command.
LEMMA ReplyAnswered ==
    ASSUME PathReplies, CInv, AInv, damaged = "no", phase = "reply"
    PROVE  /\ Answered(parse(wire), StripZeros(cmd.reply),
                       IF cmd.op = "read" THEN "ReadReply" ELSE "WriteReply",
                       cmd.id)
           /\ cmd.op = "read" =>
                /\ parse(wire).data \in Datas
                /\ wire = ReadReplyPacketBuild(packet, parse(wire).data)
<1>1. cmd \in Commands /\ CommandMeant
  BY DEF AInv, CInv
<1>2. /\ Answerable(packet) /\ packet.reply = StripZeros(cmd.reply)
      /\ packet.id = cmd.id
  BY <1>1, MeantAnswerable
<1>3. CASE cmd.op = "read"
  <2>1. PICK d \in Datas : wire = ReadReplyPacketBuild(packet, d)
    BY <1>3 DEF AInv
  <2>2. d \in Seq(Octet) /\ ThreeByteNumber(Len(d))
    BY SMT, DataAssumption, LenProperties DEF ThreeByteNumber
  <2>3. Answered(parse(wire), packet.reply, "ReadReply", packet.id)
    BY <1>2, <2>1, <2>2, ReadAnswered
  <2>4. parse(wire).data = d
    BY SMTT(30), <1>2, <2>1, <2>2, ReadAnswered
  <2> QED
    BY <1>2, <1>3, <2>1, <2>3, <2>4
<1>4. CASE cmd.op # "read"
  <2>1. wire = WriteReplyPacketBuild(packet)
    BY <1>4 DEF AInv
  <2>2. Answered(parse(wire), packet.reply, "WriteReply", packet.id)
    BY <1>2, <2>1, WriteAnswered
  <2> QED
    BY <1>2, <1>4, <2>2
<1> QED
  BY <1>3, <1>4

\* AInv holds before anything is sent.
LEMMA AInvInit == Init => AInv
BY DEF Init, AInv

\* Every step keeps AInv, given CInv.
LEMMA AInvNext ==
    ASSUME PathReplies, CInv, AInv, [Next]_vars
    PROVE  AInv'
<1>0. CInv'
  BY CInvNext
<1>1. ASSUME NEW c \in Commands, SendCommand(c)
      PROVE  AInv'
  BY <1>1 DEF AInv, SendCommand
<1>2. CASE ReceiveCommand
  <2>1. CASE damaged = "no"
    <3>1. cmd' \in Commands
      BY SMTT(30), <1>2, <2>1 DEF CInv, ReceiveCommand
    <3>2. packet'.status = "Success"
      BY <1>0, <1>2, <2>1 DEF CInv, CommandMeant, Understood, ReceiveCommand
    <3>3. phase' = "execute"
      BY <1>2, <3>2 DEF ReceiveCommand
    <3> QED
      BY <3>1, <3>3 DEF AInv
  <2>2. CASE damaged # "no"
    BY <1>2, <2>2 DEF AInv, ReceiveCommand
  <2> QED
    BY <2>1, <2>2
<1>3. CASE SendReply
  <2>1. CASE damaged = "no"
    <3>1. phase = "execute" /\ CommandMeant
      BY <1>3, <2>1 DEF CInv, SendReply
    <3>2. packet.type = IF cmd.op = "read" THEN "Read" ELSE "Write"
      BY <3>1 DEF CommandMeant, Understood
    <3>3. /\ cmd' = cmd /\ packet' = packet /\ phase' = "reply"
          /\ cmd \in Commands
      BY <1>3, <2>1 DEF SendReply, AInv
    <3>4. IF cmd.op = "read"
          THEN \E d \in Datas : wire' = ReadReplyPacketBuild(packet, d)
          ELSE wire' = WriteReplyPacketBuild(packet)
      BY <1>3, <3>2 DEF SendReply
    <3> QED
      BY <3>3, <3>4 DEF AInv
  <2>2. CASE damaged # "no"
    BY <1>3, <2>2 DEF AInv, SendReply
  <2> QED
    BY <2>1, <2>2
<1>4. CASE ReceiveReply
  <2>1. CASE damaged = "no"
    <3>1. /\ Answered(parse(wire), StripZeros(cmd.reply),
                      IF cmd.op = "read" THEN "ReadReply" ELSE "WriteReply",
                      cmd.id)
          /\ cmd.op = "read" =>
                /\ parse(wire).data \in Datas
                /\ wire = ReadReplyPacketBuild(packet, parse(wire).data)
      BY <1>4, <2>1, ReplyAnswered DEF ReceiveReply
    <3>2. /\ answer' = parse(wire) /\ cmd' = cmd /\ wire' = wire
          /\ packet' = packet
      BY <1>4 DEF ReceiveReply
    <3>3. AnswerMeant'
      BY <3>1, <3>2 DEF AnswerMeant, Answered
    <3>4. phase' = "done"
      BY <1>4, <3>1, <3>2 DEF ReceiveReply, Answered
    <3>5. cmd' \in Commands
      BY <1>4, <2>1, <3>2 DEF AInv, ReceiveReply
    <3> QED
      BY <3>3, <3>4, <3>5 DEF AInv
  <2>2. CASE damaged # "no"
    BY <1>4, <2>2 DEF AInv, ReceiveReply
  <2> QED
    BY <2>1, <2>2
<1>5. ASSUME NEW i \in 1 .. Len(wire), NEW v \in Flips, Damage(i, v)
      PROVE  AInv'
  <2>1. damaged' # "no"
    BY <1>5 DEF Damage, Part
  <2> QED
    BY <2>1 DEF AInv
<1>6. CASE UNCHANGED vars
  BY <1>6 DEF AInv, vars, AnswerMeant, Answered
<1> QED
  BY <1>1, <1>2, <1>3, <1>4, <1>5, <1>6 DEF Next, End

\* When reply addresses are paths, an undamaged exchange ends with the answer
\* to its command, and a read with the data its reply was built with; nothing
\* is refused.
THEOREM UndamagedIsAnswered ==
    ASSUME PathReplies
    PROVE  Spec => []UndamagedAnswered
<1>1. AInv => UndamagedAnswered
  BY DEF AInv, UndamagedAnswered, AnswerMeant
<1>2. CInv /\ AInv /\ [Next]_vars => CInv' /\ AInv'
  BY CInvNext, AInvNext
<1> QED
  BY <1>1, <1>2, CInvInit, AInvInit, PTL DEF Spec

-----------------------------------------------------------------------------
(* A damaged packet.                                                       *)

\* A failed parse does not report success.
LEMMA FailedIs ==
    /\ Failed("IncompletePacket").status # "Success"
    /\ Failed("HeaderCRCError").status # "Success"
    /\ Failed("UnknownProtocolIdentifier").status # "Success"
    /\ Failed("DataCRCError").status # "Success"
BY DEF Failed

\* What parseReadPacket has checked of a packet it accepts.
LEMMA ReadAccepts ==
    ASSUME NEW path, NEW p, parseReadPacket(path, p).status = "Success"
    PROVE  /\ Len(p) = 16 + ReplySize(p)
           /\ calcCRC(SubSeq(p, 1, 16 + ReplySize(p))) = 0
BY Zenon, FailedIs DEF parseReadPacket

\* What parseWritePacket has checked of a packet it accepts.
LEMMA WriteAccepts ==
    ASSUME NEW path, NEW p, parseWritePacket(path, p).status = "Success"
    PROVE  LET r   == ReplySize(p)
               len == Number3(p, 12 + r)
           IN  /\ ~(Len(p) <= 16 + r)
               /\ calcCRC(SubSeq(p, 1, 16 + r)) = 0
               /\ Len(p) = 16 + r + len + 1
               /\ calcCRC(SubSeq(p, 17 + r, 17 + r + len)) = 0
BY Zenon, FailedIs DEF parseWritePacket

\* What parseReadReplyPacket has checked of a packet it accepts.
LEMMA ReadReplyAccepts ==
    ASSUME NEW path, NEW p, parseReadReplyPacket(path, p).status = "Success"
    PROVE  /\ ~(Len(p) < 12)
           /\ calcCRC(SubSeq(p, 1, 12)) = 0
           /\ Len(p) = 12 + Number3(p, 8) + 1
           /\ calcCRC(SubSeq(p, 13, 13 + Number3(p, 8))) = 0
           /\ parseReadReplyPacket(path, p).type = "ReadReply"
<1>1. \A d : ReplyFields(path, p, "ReadReply", d).type = "ReadReply"
  BY DEF ReplyFields
<1> QED
  BY Zenon, <1>1, FailedIs DEF parseReadReplyPacket

\* What parseWriteReplyPacket has checked of a packet it accepts.
LEMMA WriteReplyAccepts ==
    ASSUME NEW path, NEW p, parseWriteReplyPacket(path, p).status = "Success"
    PROVE  Len(p) = 8 /\ calcCRC(p) = 0
BY Zenon, FailedIs DEF parseWriteReplyPacket

\* A read command with an inverted bit is not parsed as a command.
LEMMA ReadHit ==
    ASSUME NEW path \in Seq(0 .. 31), NEW c, NEW R \in {0, 4, 8, 12}, NEW p,
           ReadBuilt(p, R, c), NEW q, NEW j, NEW v, Hit(q, p, j, v),
           parse(path \o q).status = "Success"
    PROVE  parse(path \o q).type \notin {"Read", "Write"}
<1>1. /\ p \in Seq(Octet) /\ Len(p) = 16 + R
      /\ p[3] = ReadInstruction + (R \div 4) /\ p[1] = TargetLA
      /\ ReplySize(p) = R /\ calcCRC(SubSeq(p, 1, 16 + R)) = 0
  BY DEF ReadBuilt, ReadsAs
<1>2. Bit(p[3], Command) /\ ~Bit(p[3], Write)
  BY <1>1, Instructions
<1>3. 4 <= Len(p) /\ R \in Nat
  BY <1>1
<1>4. q \in Seq(Octet) /\ q[1] >= 32 /\ 4 <= Len(q)
  BY Zenon, <1>1, <1>3, HitStart
<1>5. Len(q) = Len(p) /\ j \in 1 .. Len(p)
  BY DEF Hit
<1>6. CASE j = 3 /\ v = Command
  <2>1. ~Bit(q[3], Command) /\ ~Bit(q[3], Write)
    <3>1. v # Write
      BY <1>6 DEF Command, Write
    <3>2. Bit(q[3], Command) <=> ~Bit(p[3], Command)
      BY Zenon, <1>1, <1>3, <1>6, HitStart
    <3>3. Bit(q[3], Write) <=> Bit(p[3], Write)
      BY Zenon, <1>1, <1>3, <3>1, HitStart
    <3> QED
      BY Zenon, <1>2, <3>2, <3>3
  <2>2. parse(path \o q) = parseReadReplyPacket(path, q)
    BY Zenon, <1>4, <2>1, ParseIs
  <2> QED
    BY <2>2, ReadReplyAccepts
<1>7. CASE j = 3 /\ v = Write
  <2>0. v # Command /\ v \notin {1, 2}
    BY <1>7 DEF Command, Write
  <2>1. Bit(q[3], Command) /\ Bit(q[3], Write) /\ ReplySize(q) = R
    <3>1. Bit(q[3], Command) <=> Bit(p[3], Command)
      BY Zenon, <1>1, <1>3, <2>0, HitStart
    <3>2. Bit(q[3], Write) <=> ~Bit(p[3], Write)
      BY Zenon, <1>1, <1>3, <1>7, HitStart
    <3>3. ReplySize(q) = R
      BY Zenon, <1>1, <1>3, <2>0, HitStart
    <3> QED
      BY Zenon, <1>2, <3>1, <3>2, <3>3
  <2>2. parse(path \o q) = parseWritePacket(path, q)
    BY Zenon, <1>4, <2>1, ParseIs
  <2>3. ~(Len(q) <= 16 + R)
    BY Zenon, <2>1, <2>2, WriteAccepts
  <2> QED
    BY <1>1, <1>3, <1>5, <2>3
<1>8. CASE ~(j = 3 /\ v = Command) /\ ~(j = 3 /\ v = Write)
  <2>1. Bit(q[3], Command) /\ ~Bit(q[3], Write)
    BY Zenon, <1>1, <1>2, <1>3, <1>8, HitStart
  <2>2. parse(path \o q) = parseReadPacket(path, q)
    BY Zenon, <1>4, <2>1, ParseIs
  <2>3. Len(q) = 16 + ReplySize(q) /\ calcCRC(SubSeq(q, 1, 16 + ReplySize(q))) = 0
    BY Zenon, <2>2, ReadAccepts
  <2>4. CASE j = 3 /\ v \in {1, 2}
    <3>1. ReplySize(q) # R
      BY Zenon, <1>1, <1>3, <2>4, HitStart
    <3>2. ReplySize(q) \in Nat
      BY Zenon, <1>4, ReplySizeIs
    <3> QED
      BY <1>1, <1>3, <1>5, <2>3, <3>1, <3>2
  <2>5. CASE ~(j = 3 /\ v \in {1, 2})
    <3>1. ReplySize(q) = R
      BY Zenon, <1>1, <1>3, <2>5, HitStart
    <3>2. calcCRC(SubSeq(q, 1, 16 + R)) = 0
      BY Zenon, <2>3, <3>1
    <3>3. /\ 1 \in Nat /\ 16 + R \in Nat /\ 1 <= 1 /\ 1 <= j /\ j <= 16 + R
          /\ 16 + R <= Len(p)
      BY <1>1, <1>3, <1>5
    <3> QED
      BY Zenon, <1>1, <3>2, <3>3, HitNoticed
  <2> QED
    BY <2>4, <2>5
<1> QED
  BY Zenon, <1>6, <1>7, <1>8

\* Commands and read replies are longer than a write reply.
LEMMA Lengths ==
    \A m, n \in Nat : 17 + m + n # 8 /\ 13 + n # 8
OBVIOUS

\* A write command with an inverted bit is refused, unless the bit belongs to
\* the length of the reply address.
LEMMA WriteHit ==
    ASSUME NEW path \in Seq(0 .. 31), NEW c, c.data \in Seq(Octet),
           NEW R \in {0, 4, 8, 12}, NEW p,
           WriteBuilt(p, R, c), NEW q, NEW j, NEW v, Hit(q, p, j, v),
           ~(j = 3 /\ v \in {1, 2})
    PROVE  parse(path \o q).status # "Success"
<1>0. SUFFICES ASSUME parse(path \o q).status = "Success"
             PROVE  FALSE
  OBVIOUS
<1> DEFINE L == Len(c.data)
<1>1. /\ p \in Seq(Octet) /\ 4 <= Len(p)
      /\ p[3] = WriteInstruction + (R \div 4)
      /\ ReadsAs(p, R, c, L) /\ Carries(p, 16 + R, c.data, L)
  BY Zenon DEF WriteBuilt
<1>2. Bit(p[3], Command) /\ Bit(p[3], Write)
  BY <1>1, Instructions
<1>3. R \in Nat /\ L \in Nat
  BY LenProperties
<1> HIDE DEF L
<1>4. p[1] = TargetLA /\ ReplySize(p) = R
  BY Zenon, <1>1 DEF ReadsAs
<1>5. Number3(p, 12 + R) = L /\ calcCRC(SubSeq(p, 1, 16 + R)) = 0
  BY Zenon, <1>1 DEF ReadsAs
<1>6. (16 + R) + 1 = 17 + R /\ ((16 + R) + L) + 1 = 17 + R + L
  BY <1>3
<1>6a. Len(p) = 17 + R + L
  BY Zenon, <1>1, <1>6 DEF Carries
<1>6b. calcCRC(SubSeq(p, 17 + R, 17 + R + L)) = 0
  BY Zenon, <1>1, <1>6 DEF Carries
<1>7. q \in Seq(Octet) /\ q[1] >= 32 /\ 4 <= Len(q) /\ ReplySize(q) = R
  BY Zenon, <1>1, <1>4, HitStart
<1>8. Len(q) = Len(p) /\ j \in 1 .. Len(p)
  BY DEF Hit
<1>9. CASE j = 3 /\ v = Command
  <2>1. ~Bit(q[3], Command) /\ Bit(q[3], Write)
    <3>1. v # Write
      BY <1>9 DEF Command, Write
    <3>2. Bit(q[3], Command) <=> ~Bit(p[3], Command)
      BY Zenon, <1>1, <1>4, <1>9, HitStart
    <3>3. Bit(q[3], Write) <=> Bit(p[3], Write)
      BY Zenon, <1>1, <1>4, <3>1, HitStart
    <3> QED
      BY Zenon, <1>2, <3>2, <3>3
  <2>2. parse(path \o q) = parseWriteReplyPacket(path, q)
    BY Zenon, <1>7, <2>1, ParseIs
  <2>3. Len(q) = 8
    BY Zenon, <1>0, <2>2, WriteReplyAccepts
  <2> QED
    BY Zenon, <1>3, <1>6a, <1>8, <2>3, Lengths
<1>10. CASE j = 3 /\ v = Write
  <2>1. Bit(q[3], Command) /\ ~Bit(q[3], Write)
    <3>1. v # Command
      BY <1>10 DEF Command, Write
    <3>2. Bit(q[3], Command) <=> Bit(p[3], Command)
      BY Zenon, <1>1, <1>4, <3>1, HitStart
    <3>3. Bit(q[3], Write) <=> ~Bit(p[3], Write)
      BY Zenon, <1>1, <1>4, <1>10, HitStart
    <3> QED
      BY Zenon, <1>2, <3>2, <3>3
  <2>2. parse(path \o q) = parseReadPacket(path, q)
    BY Zenon, <1>7, <2>1, ParseIs
  <2>3. Len(q) = 16 + R
    BY Zenon, <1>0, <1>7, <2>2, ReadAccepts
  <2> QED
    BY <1>3, <1>6a, <1>8, <2>3
<1>11. CASE ~(j = 3 /\ v = Command) /\ ~(j = 3 /\ v = Write)
  <2>1. Bit(q[3], Command) /\ Bit(q[3], Write)
    BY Zenon, <1>1, <1>2, <1>4, <1>11, HitStart
  <2>2. parse(path \o q) = parseWritePacket(path, q)
    BY Zenon, <1>7, <2>1, ParseIs
  <2>3. /\ calcCRC(SubSeq(q, 1, 16 + R)) = 0
        /\ calcCRC(SubSeq(q, 17 + R, 17 + R + Number3(q, 12 + R))) = 0
    BY Zenon, <1>0, <1>7, <2>2, WriteAccepts
  <2>4. CASE j <= 16 + R
    <3>1. /\ 1 \in Nat /\ 16 + R \in Nat /\ 1 <= 1 /\ 1 <= j
          /\ 16 + R <= Len(p)
      BY <1>3, <1>6a, <1>8
    <3> QED
      BY Zenon, <1>5, <2>3, <2>4, <3>1, HitNoticed
  <2>5. CASE 16 + R < j
    <3>1. /\ 17 + R \in Nat /\ 17 + R + L \in Nat /\ 1 <= 17 + R
          /\ 17 + R <= j /\ j <= 17 + R + L /\ 17 + R + L <= Len(p)
      BY <1>3, <1>6a, <1>8, <2>5
    <3>2. /\ 15 + R \in Nat /\ 15 + R <= Len(p) /\ 15 + R < j /\ 3 <= 15 + R
          /\ (15 + R) - 3 = 12 + R
      BY <1>3, <1>6a, <1>8, <2>5
    <3>3. Number3(q, 12 + R) = L
      BY ZenonT(30), <1>5, <3>2, HitElsewhere
    <3>4. calcCRC(SubSeq(q, 17 + R, 17 + R + L)) = 0
      BY Zenon, <2>3, <3>3
    <3> QED
      BY Zenon, <1>6b, <3>1, <3>4, HitNoticed
  <2>6. j <= 16 + R \/ 16 + R < j
    BY <1>3, <1>8
  <2> QED
    BY Zenon, <2>4, <2>5, <2>6
<1> QED
  BY Zenon, <1>9, <1>10, <1>11

\* A write reply with an inverted bit is refused.
LEMMA WriteReplyHit ==
    ASSUME NEW path \in Seq(0 .. 31), NEW f, f.target = TargetLA, NEW p,
           WriteReplyBuilt(p, f), NEW q, NEW j, NEW v, Hit(q, p, j, v)
    PROVE  parse(path \o q).status # "Success"
<1>0. SUFFICES ASSUME parse(path \o q).status = "Success"
             PROVE  FALSE
  OBVIOUS
<1> DEFINE ins == Write + Reply + VerifyBit + Increment
<1>1. p \in Seq(Octet) /\ Len(p) = 8 /\ calcCRC(p) = 0
  BY Zenon DEF WriteReplyBuilt
<1>2. p[1] = TargetLA /\ p[3] = ins
  BY Zenon DEF WriteReplyBuilt, AnswersAs
<1>3. ~Bit(ins, Command) /\ Bit(ins, Write)
  BY ReplyInstructions
<1> HIDE DEF ins
<1>4. 4 <= Len(p)
  BY <1>1
<1>5. q \in Seq(Octet) /\ q[1] >= 32 /\ 4 <= Len(q)
  BY Zenon, <1>2, <1>4, HitStart
<1>6. Len(q) = 8 /\ j \in 1 .. 8
  BY <1>1 DEF Hit
<1>7. CASE j = 3 /\ v = Command
  <2>1. Bit(q[3], Command) /\ Bit(q[3], Write)
    <3>1. v # Write
      BY <1>7 DEF Command, Write
    <3>2. Bit(q[3], Command) <=> ~Bit(p[3], Command)
      BY Zenon, <1>2, <1>4, <1>7, HitStart
    <3>3. Bit(q[3], Write) <=> Bit(p[3], Write)
      BY Zenon, <1>2, <1>4, <3>1, HitStart
    <3> QED
      BY Zenon, <1>2, <1>3, <3>2, <3>3
  <2>2. parse(path \o q) = parseWritePacket(path, q)
    BY Zenon, <1>5, <2>1, ParseIs
  <2>3. ~(Len(q) <= 16 + ReplySize(q))
    BY Zenon, <1>0, <2>2, WriteAccepts
  <2>4. ReplySize(q) \in Nat
    BY Zenon, <1>5, ReplySizeIs
  <2> QED
    BY <1>6, <2>3, <2>4
<1>8. CASE j = 3 /\ v = Write
  <2>1. ~Bit(q[3], Command) /\ ~Bit(q[3], Write)
    <3>1. v # Command
      BY <1>8 DEF Command, Write
    <3>2. Bit(q[3], Command) <=> Bit(p[3], Command)
      BY Zenon, <1>2, <1>4, <3>1, HitStart
    <3>3. Bit(q[3], Write) <=> ~Bit(p[3], Write)
      BY Zenon, <1>2, <1>4, <1>8, HitStart
    <3> QED
      BY Zenon, <1>2, <1>3, <3>2, <3>3
  <2>2. parse(path \o q) = parseReadReplyPacket(path, q)
    BY Zenon, <1>5, <2>1, ParseIs
  <2>3. ~(Len(q) < 12)
    BY Zenon, <1>0, <2>2, ReadReplyAccepts
  <2> QED
    BY <1>6, <2>3
<1>9. CASE ~(j = 3 /\ v = Command) /\ ~(j = 3 /\ v = Write)
  <2>1. ~Bit(q[3], Command) /\ Bit(q[3], Write)
    BY Zenon, <1>2, <1>3, <1>4, <1>9, HitStart
  <2>2. parse(path \o q) = parseWriteReplyPacket(path, q)
    BY Zenon, <1>5, <2>1, ParseIs
  <2>3. calcCRC(q) = 0
    BY Zenon, <1>0, <2>2, WriteReplyAccepts
  <2> QED
    BY Zenon, <1>1, <2>3, HitWhole
<1> QED
  BY Zenon, <1>7, <1>8, <1>9

\* A read reply with an inverted bit is refused.
LEMMA ReadReplyHit ==
    ASSUME NEW path \in Seq(0 .. 31), NEW f, f.target = TargetLA,
           NEW x \in Seq(Octet), NEW p, ReadReplyBuilt(p, f, x),
           NEW q, NEW j, NEW v, Hit(q, p, j, v)
    PROVE  parse(path \o q).status # "Success"
<1>0. SUFFICES ASSUME parse(path \o q).status = "Success"
             PROVE  FALSE
  OBVIOUS
<1> DEFINE ins == Reply + Increment
           L   == Len(x)
<1>1. p \in Seq(Octet) /\ 12 <= Len(p) /\ Carries(p, 12, x, L)
  BY Zenon DEF ReadReplyBuilt
<1>2. p[1] = TargetLA /\ p[3] = ins
  BY Zenon DEF ReadReplyBuilt, AnswersAs
<1>3. ~Bit(ins, Command) /\ ~Bit(ins, Write) /\ (ins % 4) * 4 = 0
  BY ReplyInstructions DEF ins, Reply, Increment
<1> HIDE DEF ins
<1>4. L \in Nat
  BY LenProperties
<1>5. calcCRC(SubSeq(p, 1, 12)) = 0 /\ Number3(p, 8) = L
  BY Zenon DEF ReadReplyBuilt, ReplyReads
<1> HIDE DEF L
<1>6. 12 + 1 = 13 /\ (12 + L) + 1 = 13 + L
  BY <1>4
<1>6a. Len(p) = 13 + L
  BY Zenon, <1>1, <1>6 DEF Carries
<1>6b. calcCRC(SubSeq(p, 13, 13 + L)) = 0
  BY Zenon, <1>1, <1>6 DEF Carries
<1>7. 4 <= Len(p)
  BY <1>4, <1>6a
<1>8. q \in Seq(Octet) /\ q[1] >= 32 /\ 4 <= Len(q)
  BY Zenon, <1>2, <1>7, HitStart
<1>9. Len(q) = Len(p) /\ j \in 1 .. Len(p)
  BY DEF Hit
<1>10. CASE j = 3 /\ v = Command
  <2>0. v # Write /\ v \notin {1, 2}
    BY <1>10 DEF Command, Write
  <2>1. Bit(q[3], Command) /\ ~Bit(q[3], Write)
    <3>2. Bit(q[3], Command) <=> ~Bit(p[3], Command)
      BY Zenon, <1>2, <1>7, <1>10, HitStart
    <3>3. Bit(q[3], Write) <=> Bit(p[3], Write)
      BY Zenon, <1>2, <1>7, <2>0, HitStart
    <3> QED
      BY Zenon, <1>2, <1>3, <3>2, <3>3
  <2>2. parse(path \o q) = parseReadPacket(path, q)
    BY Zenon, <1>8, <2>1, ParseIs
  <2>3. ReplySize(q) = 0
    <3>1. ReplySize(q) = ReplySize(p)
      BY Zenon, <1>2, <1>7, <2>0, HitStart
    <3> QED
      BY <1>2, <1>3, <3>1 DEF ReplySize
  <2>4. Len(q) = 16 /\ calcCRC(SubSeq(q, 1, 16)) = 0
    <3>1. 16 + 0 = 16
      OBVIOUS
    <3> QED
      BY Zenon, <1>0, <2>2, <2>3, <3>1, ReadAccepts
  <2>5. calcCRC(SubSeq(p, 1, 16)) = 0
    <3>1. 16 = 13 + L
      BY Zenon, <1>6a, <1>9, <2>4
    <3>2. calcCRC(SubSeq(p, 13, 16)) = 0
      BY Zenon, <1>6b, <3>1
    <3>3. 12 \in Nat /\ 16 \in Nat /\ 12 <= 16 /\ 16 <= Len(p) /\ 12 + 1 = 13
      BY <1>6a, <3>1
    <3> QED
      BY Zenon, <1>1, <1>5, <3>2, <3>3, CrcJoined
  <2>6. 1 \in Nat /\ 16 \in Nat /\ 1 <= 1 /\ 1 <= j /\ j <= 16 /\ 16 <= Len(p)
    BY <1>9, <2>4
  <2> QED
    BY Zenon, <2>4, <2>5, <2>6, HitNoticed
<1>11. CASE j = 3 /\ v = Write
  <2>1. ~Bit(q[3], Command) /\ Bit(q[3], Write)
    <3>1. v # Command
      BY <1>11 DEF Command, Write
    <3>2. Bit(q[3], Command) <=> Bit(p[3], Command)
      BY Zenon, <1>2, <1>7, <3>1, HitStart
    <3>3. Bit(q[3], Write) <=> ~Bit(p[3], Write)
      BY Zenon, <1>2, <1>7, <1>11, HitStart
    <3> QED
      BY Zenon, <1>2, <1>3, <3>2, <3>3
  <2>2. parse(path \o q) = parseWriteReplyPacket(path, q)
    BY Zenon, <1>8, <2>1, ParseIs
  <2>3. Len(q) = 8
    BY Zenon, <1>0, <2>2, WriteReplyAccepts
  <2> QED
    BY Zenon, <1>4, <1>6a, <1>9, <2>3, Lengths
<1>12. CASE ~(j = 3 /\ v = Command) /\ ~(j = 3 /\ v = Write)
  <2>1. ~Bit(q[3], Command) /\ ~Bit(q[3], Write)
    BY Zenon, <1>2, <1>3, <1>7, <1>12, HitStart
  <2>2. parse(path \o q) = parseReadReplyPacket(path, q)
    BY Zenon, <1>8, <2>1, ParseIs
  <2>3. /\ calcCRC(SubSeq(q, 1, 12)) = 0
        /\ calcCRC(SubSeq(q, 13, 13 + Number3(q, 8))) = 0
    BY Zenon, <1>0, <2>2, ReadReplyAccepts
  <2>4. CASE j <= 12
    <3>1. 1 \in Nat /\ 12 \in Nat /\ 1 <= 1 /\ 1 <= j /\ 12 <= Len(p)
      BY <1>4, <1>6a, <1>9
    <3> QED
      BY Zenon, <1>5, <2>3, <2>4, <3>1, HitNoticed
  <2>5. CASE 12 < j
    <3>1. /\ 13 \in Nat /\ 13 + L \in Nat /\ 1 <= 13
          /\ 13 <= j /\ j <= 13 + L /\ 13 + L <= Len(p)
      BY <1>4, <1>6a, <1>9, <2>5
    <3>2. /\ 11 \in Nat /\ 11 <= Len(p) /\ 11 < j /\ 3 <= 11 /\ 11 - 3 = 8
      BY <1>4, <1>6a, <1>9, <2>5
    <3>3. Number3(q, 8) = L
      <4>1. Number3(q, 11 - 3) = Number3(p, 11 - 3)
        BY Zenon, <3>2, HitElsewhere
      <4> QED
        BY Zenon, <1>5, <3>2, <4>1
    <3>4. calcCRC(SubSeq(q, 13, 13 + L)) = 0
      BY Zenon, <2>3, <3>3
    <3> QED
      BY Zenon, <1>6b, <3>1, <3>4, HitNoticed
  <2>6. j <= 12 \/ 12 < j
    BY <1>9
  <2> QED
    BY Zenon, <2>4, <2>5, <2>6
<1> QED
  BY Zenon, <1>10, <1>11, <1>12

\* Inverting a bit behind the path gives the path and a hit packet.
LEMMA DamageHits ==
    ASSUME NEW path \in Seq(0 .. 31), NEW p \in Seq(Octet), p[1] >= 32,
           4 <= Len(p), wire = path \o p, NEW i \in 1 .. Len(wire),
           NEW v \in Flips, Damage(i, v), damaged' = "packet"
    PROVE  \E q, j : /\ Hit(q, p, j, v) /\ wire' = path \o q
                     /\ phase = "command" /\ cmd.op = "write" =>
                          ~(j = 3 /\ v \in {1, 2})
<1> DEFINE n == Len(path)
           j == i - n
           q == Replaced(p, j, Inverted(p[j], v))
<1>1. path \in Seq(Octet)
  BY PathOctets
<1>2. n \in Nat /\ Len(p) \in Nat
  BY LenProperties
<1>3. /\ wire \in Seq(Octet) /\ Len(wire) = n + Len(p)
      /\ \A k \in 1 .. n : wire[k] = path[k]
      /\ \A k \in 1 .. Len(p) : wire[n + k] = p[k]
  BY <1>1, Joined
<1>4. Min({k \in 1 .. Len(wire) : wire[k] >= 32}) = n + 1
  <2>1. Min({k \in 1 .. Len(path \o p) : (path \o p)[k] >= 32}) = n + 1
    BY Zenon, PathEnds
  <2> QED
    BY Zenon, <2>1
<1>5. /\ ~(i < n + 1)
      /\ ~(phase = "command" /\ cmd.op = "write" /\ i = n + 1 + 2
             /\ v < Increment)
  <2>1. Part(i, v) = "packet"
    BY Zenon DEF Damage
  <2>2. \A a, b : "path" # "packet" /\ "size" # "packet"
    OBVIOUS
  <2> QED
    BY Zenon, <1>4, <2>1, <2>2 DEF Part
<1>6. j \in 1 .. Len(p) /\ i = n + j
  BY <1>2, <1>3, <1>5
<1>7. v \in OneBit
  BY FlipAssumption DEF OneBit
<1>8. p[j] \in Octet
  BY Zenon, <1>6, ElementOfSeq
<1>9. Inverted(p[j], v) \in Octet
  BY <1>7, <1>8, InvertedBits
<1> HIDE DEF j
<1>10. /\ q \in Seq(Octet) /\ Len(q) = Len(p) /\ q[j] = Inverted(p[j], v)
       /\ \A k \in 1 .. Len(p) : k # j => q[k] = p[k]
  BY Zenon, <1>6, <1>9, ByteReplaced
<1> HIDE DEF q
<1>11. Hit(q, p, j, v)
  BY Zenon, <1>6, <1>7, <1>10 DEF Hit
<1>12. wire' = path \o q
  <2>1. wire' = Replaced(wire, i, Inverted(wire[i], v))
    BY DEF Damage, Inverted, Replaced
  <2>2. /\ path \o q \in Seq(Octet) /\ Len(path \o q) = n + Len(p)
        /\ \A k \in 1 .. n : (path \o q)[k] = path[k]
        /\ \A k \in 1 .. Len(p) : (path \o q)[n + k] = q[k]
    <3>1. q \in Seq(Octet) /\ Len(q) = Len(p)
      BY Zenon, <1>10
    <3>2. /\ path \o q \in Seq(Octet) /\ Len(path \o q) = n + Len(q)
          /\ \A k \in 1 .. n : (path \o q)[k] = path[k]
          /\ \A k \in 1 .. Len(q) : (path \o q)[n + k] = q[k]
      BY Zenon, <1>1, <3>1, Joined
    <3> QED
      BY Zenon, <3>1, <3>2
  <2>3. wire[i] = p[j]
    BY Zenon, <1>3, <1>6
  <2>4. /\ wire' \in Seq(Octet) /\ Len(wire') = n + Len(p)
        /\ wire'[i] = Inverted(p[j], v)
        /\ \A k \in 1 .. Len(wire) : k # i => wire'[k] = wire[k]
    <3>1. wire' = Replaced(wire, i, Inverted(p[j], v))
      BY Zenon, <2>1, <2>3
    <3>2. wire \in Seq(Octet) /\ Len(wire) = n + Len(p)
      BY Zenon, <1>3
    <3> DEFINE y == Inverted(p[j], v)
    <3>3. y \in Octet
      BY <1>9
    <3> HIDE DEF y
    <3> DEFINE t == Replaced(wire, i, y)
    <3>4. t \in Seq(Octet) /\ Len(t) = Len(wire) /\ t[i] = y
      BY Zenon, <3>2, <3>3, ByteReplaced
    <3>5. \A k \in 1 .. Len(wire) : k # i => t[k] = wire[k]
      BY Zenon, <3>2, <3>3, ByteReplaced
    <3>6. wire' = t
      BY Zenon, <3>1 DEF y
    <3> HIDE DEF t
    <3> QED
      BY Zenon, <3>2, <3>4, <3>5, <3>6 DEF y
  <2>5. \A k \in 1 .. n + Len(p) : wire'[k] = (path \o q)[k]
    <3> SUFFICES ASSUME NEW k \in 1 .. n + Len(p)
                 PROVE  wire'[k] = (path \o q)[k]
      BY Zenon
    <3>1. CASE k \in 1 .. n
      <4>1. k # i
        BY <1>2, <1>6, <3>1
      <4> QED
        BY Zenon, <1>3, <2>2, <2>4, <3>1, <4>1
    <3>2. CASE k \notin 1 .. n
      <4> DEFINE l == k - n
      <4>1. l \in 1 .. Len(p) /\ k = n + l
        BY <1>2, <3>2
      <4>2. k = i <=> l = j
        BY <1>2, <1>6, <4>1
      <4> HIDE DEF l
      <4>3. (path \o q)[k] = q[l] /\ wire[k] = p[l]
        BY Zenon, <1>3, <2>2, <4>1
      <4> QED
        BY Zenon, <1>3, <1>10, <2>4, <4>1, <4>2, <4>3
    <3> QED
      BY Zenon, <3>1, <3>2
  <2> QED
    <3>1. Len(wire') = Len(path \o q)
      BY Zenon, <2>2, <2>4
    <3>2. \A k \in 1 .. Len(wire') : wire'[k] = (path \o q)[k]
      BY Zenon, <2>4, <2>5
    <3> QED
      BY Zenon, <2>2, <2>4, <3>1, <3>2, SeqEqual
<1>13. phase = "command" /\ cmd.op = "write" => ~(j = 3 /\ v \in {1, 2})
  <2>1. j = 3 => i = n + 1 + 2
    BY <1>2, <1>6
  <2>2. v \in {1, 2} => v < Increment
    BY DEF Increment
  <2> QED
    BY Zenon, <1>5, <2>1, <2>2
<1> QED
  BY Zenon, <1>11, <1>12, <1>13

-----------------------------------------------------------------------------
(* A damaged exchange.                                                     *)

\* A packet hit behind its path is refused where it arrives; only a read
\* command may be taken for something, which is then no command.
DInv ==
    damaged = "packet" =>
        /\ phase \notin {"start", "done"}
        /\ phase = "command" =>
             (parse(wire).status = "Success" =>
                parse(wire).type \notin {"Read", "Write"})
        /\ phase = "execute" => packet.type \notin {"Read", "Write"}
        /\ phase = "reply" => parse(wire).status # "Success"

\* The step that hits a command makes it one the target does not carry out.
LEMMA CommandHit ==
    ASSUME CInv, phase = "command", NEW i \in 1 .. Len(wire), NEW v \in Flips,
           Damage(i, v), damaged' = "packet", parse(wire').status = "Success"
    PROVE  parse(wire').type \notin {"Read", "Write"}
<1>1. damaged = "no"
  BY DEF Damage
<1>2. /\ cmd \in Commands
      /\ wire = IF cmd.op = "read" THEN ReadPacketBuild(cmd)
                                   ELSE WritePacketBuild(cmd)
  BY Zenon, <1>1 DEF CInv
<1>3. CommandTyped(cmd) /\ cmd.op \in {"read", "write"}
  BY Zenon, <1>2, CommandsTyped
<1>4. cmd.path \in Seq(0 .. 31) /\ cmd.data \in Seq(Octet)
  BY SMT, <1>3 DEF CommandTyped
<1>5. TargetLA >= 32
  BY DEF TargetLA
<1>6. CASE cmd.op = "read"
  <2>1. PICK p, R : /\ R \in {0, 4, 8, 12} /\ ReadBuilt(p, R, cmd)
                    /\ ReadPacketBuild(cmd) = cmd.path \o p
    BY Zenon, <1>3, ReadShape
  <2>2. p \in Seq(Octet) /\ p[1] >= 32 /\ Len(p) = 16 + R
    BY Zenon, <2>1 DEF ReadBuilt
  <2>3. 4 <= Len(p)
    BY <2>1, <2>2
  <2>4. wire = cmd.path \o p
    BY Zenon, <1>2, <1>6, <2>1
  <2>5. PICK q, j : /\ Hit(q, p, j, v) /\ wire' = cmd.path \o q
                    /\ phase = "command" /\ cmd.op = "write" =>
                         ~(j = 3 /\ v \in {1, 2})
    BY Zenon, <1>4, <2>2, <2>3, <2>4, DamageHits
  <2>6. parse(cmd.path \o q).status = "Success"
    BY Zenon, <2>5
  <2>7. parse(cmd.path \o q).type \notin {"Read", "Write"}
    BY Zenon, <1>4, <2>1, <2>5, <2>6, ReadHit
  <2> QED
    BY Zenon, <2>5, <2>7
<1>7. CASE cmd.op = "write"
  <2>1. PICK p, R : /\ R \in {0, 4, 8, 12} /\ WriteBuilt(p, R, cmd)
                    /\ WritePacketBuild(cmd) = cmd.path \o p
    BY Zenon, <1>3, WriteShape
  <2>2. p \in Seq(Octet) /\ p[1] >= 32 /\ 4 <= Len(p)
    BY Zenon, <2>1 DEF WriteBuilt
  <2>3. "write" # "read"
    OBVIOUS
  <2>4. wire = cmd.path \o p
    BY Zenon, <1>2, <1>7, <2>1, <2>3
  <2>5. PICK q, j : /\ Hit(q, p, j, v) /\ wire' = cmd.path \o q
                    /\ phase = "command" /\ cmd.op = "write" =>
                         ~(j = 3 /\ v \in {1, 2})
    BY Zenon, <1>4, <2>2, <2>4, DamageHits
  <2>6. ~(j = 3 /\ v \in {1, 2})
    BY Zenon, <1>7, <2>5
  <2> QED
    BY Zenon, <1>4, <2>1, <2>5, <2>6, WriteHit
<1> QED
  BY Zenon, <1>3, <1>6, <1>7

\* The step that hits a reply makes it one the initiator refuses.
LEMMA AnswerHit ==
    ASSUME PathReplies, CInv, AInv, phase = "reply", NEW i \in 1 .. Len(wire),
           NEW v \in Flips, Damage(i, v), damaged' = "packet"
    PROVE  parse(wire').status # "Success"
<1>1. damaged = "no"
  BY DEF Damage
<1>2. cmd \in Commands /\ CommandMeant
  BY <1>1 DEF AInv, CInv
<1>3. Answerable(packet)
  BY Zenon, <1>2, MeantAnswerable
<1>4. packet.reply \in Seq(0 .. 31) /\ packet.target = TargetLA
  BY SMT, <1>3 DEF Answerable
<1>5. Copied(packet)
  <2>1. packet.target \in Octet /\ packet.initiator \in Octet
    BY <1>3 DEF Answerable, TargetLA, InitiatorLA, Octet
  <2> QED
    BY <1>3, <1>4, <2>1, PathOctets DEF Answerable, Copied
<1>6. TargetLA >= 32
  BY DEF TargetLA
<1>7. CASE cmd.op = "read"
  <2>1. PICK x \in Datas : wire = ReadReplyPacketBuild(packet, x)
    BY <1>1, <1>7 DEF AInv
  <2>2. x \in Seq(Octet) /\ ThreeByteNumber(Len(x))
    BY SMT, <2>1, DataAssumption, LenProperties DEF ThreeByteNumber
  <2>3. PICK p : /\ ReadReplyBuilt(p, packet, x)
                 /\ ReadReplyPacketBuild(packet, x) = packet.reply \o p
    BY Zenon, <1>5, <2>2, ReadReplyShape
  <2>4. p \in Seq(Octet) /\ 12 <= Len(p) /\ p[1] >= 32
    BY Zenon, <1>4, <1>6, <2>3 DEF ReadReplyBuilt, AnswersAs
  <2>5. 4 <= Len(p)
    BY <2>4, LenProperties
  <2>6. wire = packet.reply \o p
    BY Zenon, <2>1, <2>3
  <2>7. PICK q, j : Hit(q, p, j, v) /\ wire' = packet.reply \o q
    BY Zenon, <1>4, <2>4, <2>5, <2>6, DamageHits
  <2> QED
    BY Zenon, <1>4, <2>2, <2>3, <2>7, ReadReplyHit
<1>8. CASE cmd.op # "read"
  <2>1. wire = WriteReplyPacketBuild(packet)
    BY <1>1, <1>8 DEF AInv
  <2>2. PICK p : /\ WriteReplyBuilt(p, packet)
                 /\ WriteReplyPacketBuild(packet) = packet.reply \o p
    BY Zenon, <1>5, WriteReplyShape
  <2>3. p \in Seq(Octet) /\ Len(p) = 8 /\ p[1] >= 32
    BY Zenon, <1>4, <1>6, <2>2 DEF WriteReplyBuilt, AnswersAs
  <2>4. 4 <= Len(p)
    BY <2>3
  <2>5. wire = packet.reply \o p
    BY Zenon, <2>1, <2>2
  <2>6. PICK q, j : Hit(q, p, j, v) /\ wire' = packet.reply \o q
    BY Zenon, <1>4, <2>3, <2>4, <2>5, DamageHits
  <2> QED
    BY Zenon, <1>4, <2>2, <2>6, WriteReplyHit
<1> QED
  BY Zenon, <1>7, <1>8

\* DInv holds before anything is sent.
LEMMA DInvInit == Init => DInv
BY DEF Init, DInv

\* Every step keeps DInv: the one that inverts a bit by the lemmas above, the
\* others because nothing is sent after a refused packet.
LEMMA DInvNext ==
    ASSUME PathReplies, CInv, AInv, DInv, [Next]_vars
    PROVE  DInv'
<1>1. ASSUME NEW c \in Commands, SendCommand(c)
      PROVE  DInv'
  BY <1>1 DEF DInv, SendCommand
<1>2. CASE ReceiveCommand
  BY <1>2 DEF DInv, ReceiveCommand
<1>3. CASE SendReply
  BY <1>3 DEF DInv, SendReply
<1>4. CASE ReceiveReply
  BY <1>4 DEF DInv, ReceiveReply
<1>5. ASSUME NEW i \in 1 .. Len(wire), NEW v \in Flips, Damage(i, v)
      PROVE  DInv'
  <2>1. phase' = phase /\ phase \in {"command", "reply"}
    BY <1>5 DEF Damage
  <2>2. CASE damaged' = "packet" /\ phase = "command"
    <3>1. parse(wire').status = "Success" =>
             parse(wire').type \notin {"Read", "Write"}
      BY Zenon, <1>5, <2>2, CommandHit
    <3> QED
      BY <2>1, <2>2, <3>1 DEF DInv
  <2>3. CASE damaged' = "packet" /\ phase = "reply"
    <3>1. parse(wire').status # "Success"
      BY Zenon, <1>5, <2>3, AnswerHit
    <3> QED
      BY <2>1, <2>3, <3>1 DEF DInv
  <2>4. CASE damaged' # "packet"
    BY <2>4 DEF DInv
  <2> QED
    BY <2>1, <2>2, <2>3, <2>4
<1>6. CASE UNCHANGED vars
  BY <1>6 DEF DInv, vars
<1> QED
  BY <1>1, <1>2, <1>3, <1>4, <1>5, <1>6 DEF Next, End

\* When reply addresses are paths, a bit inverted behind the path of a command
\* or a reply is noticed, for all addresses, IDs and data: the CRCs and the
\* lengths leave no such packet to be carried out or taken for an answer.
THEOREM DamageIsNoticed ==
    ASSUME PathReplies
    PROVE  Spec => []DamageNoticed
<1>1. DInv => DamageNoticed
  BY DEF DInv, DamageNoticed
<1>2. CInv /\ AInv /\ DInv /\ [Next]_vars => CInv' /\ AInv' /\ DInv'
  BY CInvNext, AInvNext, DInvNext
<1> QED
  BY <1>1, <1>2, CInvInit, AInvInit, DInvInit, PTL DEF Spec

\* When reply addresses are paths, an answer the initiator accepts belongs to
\* its command, unless a bit of a path or of the reply address length of a
\* write command was inverted.
THEOREM AnswersMatch ==
    ASSUME PathReplies
    PROVE  Spec => [](damaged \in {"no", "packet"} => ReplyMatchesCommand)
<1>1. AInv /\ DInv => (damaged \in {"no", "packet"} => ReplyMatchesCommand)
  BY DEF AInv, DInv, ReplyMatchesCommand, AnswerMeant, Answered
<1>2. CInv /\ AInv /\ DInv /\ [Next]_vars => CInv' /\ AInv' /\ DInv'
  BY CInvNext, AInvNext, DInvNext
<1> QED
  BY <1>1, <1>2, CInvInit, AInvInit, DInvInit, PTL DEF Spec

-----------------------------------------------------------------------------
(* The CRC of what is sent.                                                *)

\* A reply on its way is a sequence of bytes, of an understood command.
WInv ==
    damaged = "no" =>
        /\ phase \in {"execute", "reply"} => cmd \in Commands
        /\ phase = "reply" => wire \in Seq(Octet)

\* A reply to an understood command is a sequence of bytes.
LEMMA RepliesOctets ==
    ASSUME cmd \in Commands, CommandMeant
    PROVE  /\ WriteReplyPacketBuild(packet) \in Seq(Octet)
           /\ \A d \in Datas : ReadReplyPacketBuild(packet, d) \in Seq(Octet)
<1>1. CommandTyped(cmd)
  BY Zenon, CommandsTyped
<1>2. cmd.reply \in Seq(Octet) /\ cmd.id \in Nat /\ cmd.id < 65536
  BY SMT, <1>1 DEF CommandTyped
<1>3. /\ packet.reply = StripZeros(cmd.reply) /\ packet.id = cmd.id
      /\ packet.target = TargetLA /\ packet.initiator = InitiatorLA
  BY DEF CommandMeant, Understood
<1>4. TargetLA \in Octet /\ InitiatorLA \in Octet
  BY DEF TargetLA, InitiatorLA, Octet
<1>5. Copied(packet)
  <2>1. StripZeros(cmd.reply) \in Seq(Octet)
    <3>1. 255 \in Nat /\ cmd.reply \in Seq(Octet)
      BY <1>2
    <3> QED
      BY Zenon, <3>1, StrippedSeq DEF Octet
  <2> QED
    BY <1>2, <1>3, <1>4, <2>1 DEF Copied
<1>6. packet.reply \in Seq(Octet)
  BY SMT, <1>5 DEF Copied
<1>7. WriteReplyPacketBuild(packet) \in Seq(Octet)
  <2>1. PICK p : /\ WriteReplyBuilt(p, packet)
                 /\ WriteReplyPacketBuild(packet) = packet.reply \o p
    BY Zenon, <1>5, WriteReplyShape
  <2>2. p \in Seq(Octet)
    BY Zenon, <2>1 DEF WriteReplyBuilt
  <2> QED
    BY Zenon, <1>6, <2>1, <2>2, Joined
<1>8. ASSUME NEW d \in Datas
      PROVE  ReadReplyPacketBuild(packet, d) \in Seq(Octet)
  <2>1. d \in Seq(Octet) /\ ThreeByteNumber(Len(d))
    BY SMT, DataAssumption, LenProperties DEF ThreeByteNumber
  <2>2. PICK p : /\ ReadReplyBuilt(p, packet, d)
                 /\ ReadReplyPacketBuild(packet, d) = packet.reply \o p
    BY Zenon, <1>5, <2>1, ReadReplyShape
  <2>3. p \in Seq(Octet)
    BY Zenon, <2>2 DEF ReadReplyBuilt
  <2> QED
    BY Zenon, <1>6, <2>2, <2>3, Joined
<1> QED
  BY Zenon, <1>7, <1>8

\* Every step keeps WInv, given CInv.
LEMMA WInvNext == CInv /\ WInv /\ [Next]_vars => WInv'
<1> SUFFICES ASSUME CInv, WInv, [Next]_vars
             PROVE  WInv'
  OBVIOUS
<1>1. ASSUME NEW c \in Commands, SendCommand(c)
      PROVE  WInv'
  BY <1>1 DEF WInv, SendCommand
<1>2. CASE ReceiveCommand
  BY <1>2 DEF WInv, CInv, ReceiveCommand
<1>3. CASE SendReply
  <2>1. CASE damaged = "no"
    <3>1. cmd \in Commands /\ CommandMeant
      BY <1>3, <2>1 DEF WInv, CInv, SendReply
    <3>2. wire' \in Seq(Octet)
      BY Zenon, <1>3, <3>1, RepliesOctets DEF SendReply
    <3>3. cmd' \in Commands
      BY <1>3, <3>1 DEF SendReply
    <3> QED
      BY <3>2, <3>3 DEF WInv
  <2>2. CASE damaged # "no"
    BY <1>3, <2>2 DEF WInv, SendReply
  <2> QED
    BY <2>1, <2>2
<1>4. CASE ReceiveReply
  BY <1>4 DEF WInv, ReceiveReply
<1>5. ASSUME NEW i \in 1 .. Len(wire), NEW v \in Flips, Damage(i, v)
      PROVE  WInv'
  <2>1. damaged' # "no"
    BY <1>5 DEF Damage, Part
  <2> QED
    BY <2>1 DEF WInv
<1>6. CASE UNCHANGED vars
  BY <1>6 DEF WInv, vars
<1> QED
  BY <1>1, <1>2, <1>3, <1>4, <1>5, <1>6 DEF Next, End

\* For all replies, and for all single bytes, the table of calcCRC gives the
\* CRC its polynomial defines.
THEOREM CrcsArePolynomials == Spec => []CrcIsPolynomial
<1>1. WInv => CrcIsPolynomial
  <2>1. \A x \in 0 .. 255 : <<x>> \in Seq(Octet)
    BY DEF Octet
  <2>2. \A x \in 0 .. 255 : calcCRC(<<x>>) = PolynomialCRC(<<x>>)
    BY Zenon, <2>1, CalcIsPolynomial
  <2>3. ASSUME WInv, phase = "reply", damaged = "no"
        PROVE  calcCRC(wire) = PolynomialCRC(wire)
    <3>1. wire \in Seq(Octet)
      BY <2>3 DEF WInv
    <3> QED
      BY Zenon, <3>1, CalcIsPolynomial
  <2> QED
    BY Zenon, <2>2, <2>3 DEF CrcIsPolynomial
<1>2. Init => WInv
  BY DEF Init, WInv
<1>3. CInv /\ WInv /\ [Next]_vars => CInv' /\ WInv'
  BY CInvNext, WInvNext
<1> QED
  BY <1>1, <1>2, <1>3, CInvInit, PTL DEF Spec

=============================================================================
